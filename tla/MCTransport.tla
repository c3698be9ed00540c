---------------------------- MODULE MCTransport ----------------------------
(* Instance of Transport for TLC. *)
EXTENDS Transport

CONSTANTS c1, c2

\* A mono frame that is not square, and colour planes.
TwoFrames ==
  {[rank |-> 2, w |-> 2, h |-> 3, planes |-> 0, pix |-> <<11, 12, 13, 14, 15, 16>>],
   [rank |-> 3, w |-> 1, h |-> 2, planes |-> 2, pix |-> <<31, 32, 33, 34>>]}

\* One client against every kind of fault, against pairs of faults that meet in one
\* reply, and two clients against the faults that count.
AnyFault ==
  [who |-> {c1}, ops |-> {"frame", "stream", "put"}, kinds |-> Toggles \cup MemberKinds,
   members |-> Members, changes |-> 1]
Pairs ==
  [who |-> {c1}, ops |-> {"frame", "stream"}, members |-> {"imagearray"}, changes |-> 3,
   kinds |-> {"forcejson", "swapdims", "partial-drop", "failfirst", "hang", "throttle"}]
Together ==
  [who |-> {c1, c2}, ops |-> {"put"}, kinds |-> Patterns, members |-> {"binx"}, changes |-> 2]
ThreeCampaigns == {AnyFault, Pairs, Together}

ThreeBins == 1..3
TwoCounts == {1, 2}
=============================================================================
