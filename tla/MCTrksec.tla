------------------------------ MODULE MCTrksec -----------------------------
(* Addressing in one run: a drive of five tracks and a bit, behind one       *)
(* reserved track, whose last sector is the last one a four-bit register can *)
(* count; and the record numbers of an FCB in their real width.  The two     *)
(* share nothing: a behaviour is one of the first with a file not used, or   *)
(* one of the second on an idle drive.                                       *)
EXTENDS Trksec, RandomRec

Skew == [i \in 0..2 |-> <<1, 3, 2>>[i + 1]]

(* First and last extents of both extent bytes, empty, partly and fully      *)
(* used: sizes that differ in one, two or three bytes.                       *)
Extents ==
  {[ex |-> e, s2 |-> h, rc |-> c] :
     e \in {0, 1, 2, 31}, h \in {0, 1, 15}, c \in {0, 1, 127, 128}}

Bytes == 0..255

NotUsed ==
  /\ fcb = <<>> /\ was = <<>> /\ dir = <<>> /\ did = <<>> /\ at = 0 /\ status = -1

MCNext ==
  \/ status = -1 /\ Next /\ UNCHANGED rvars
  \/ status # -1 /\ RNext /\ UNCHANGED vars

MCInit == Init /\ (NotUsed \/ RInit)

MCSpec ==
  /\ MCInit
  /\ [][MCNext]_<<vars, rvars>>
  /\ Fairness
============================================================================
