----------------------------- MODULE MCTinyStdio ---------------------------
(* Two-byte records and buffers of two records. *)
EXTENDS TinyStdio

Names == [user : {Default, 1}, name : {"x", "y"}]
Short == [r \in Record |-> IF r = 0 THEN <<NL, CTLZ>> ELSE Hole]
Long == [r \in Record |-> IF r = 0 THEN <<NL, CR>> ELSE <<CR, NL>>]
Disks ==
  {[x \in File |-> IF x = <<1, "x">> THEN f ELSE IF x = <<0, "y">> THEN g ELSE Absent] :
     f \in {Long, Absent}, g \in {Short, Absent}}
Bytes_ == {NL, CR, CTLZ}
============================================================================
