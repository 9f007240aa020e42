------------------------------ MODULE MCCProgram ---------------------------
(* A disk of two-byte records: a name without a user number and the same     *)
(* name in another user area are two files.                                  *)
EXTENDS CProgram

Names == [user : {Default, 1}, name : {"x"}]
Modes ==
  {[mode |-> 2, opts |-> {"CREAT"}], [mode |-> 2, opts |-> {"APPEND"}],
   [mode |-> 1, opts |-> {"TRUNC"}], [mode |-> 0, opts |-> {}],
   [mode |-> 2, opts |-> {"CREAT", "EXCL"}]}
Texts == {<<NL>>, <<NL, NL, NL>>}
Goals == {<<1, 0>>, <<0 - 1, 1>>, <<0, 2>>}
Long == [r \in Record |-> IF r = 0 THEN <<NL, CR>> ELSE <<NL, CTLZ>>]
Disks == {[x \in File |-> IF x = <<1, "x">> THEN f ELSE Absent] : f \in {Long, Absent}}
Bytes_ == {NL, CR, CTLZ}
============================================================================
