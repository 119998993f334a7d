------------------------------- MODULE MCDiff -------------------------------
(* Diff, at model-checking size and with the numbers the bank ships. *)
EXTENDS Diff

\* Caps in the order the bundle has them, far apart or next to one another;
\* the largest amount above them, with guardrails and both tools, or among
\* them, without.
SmallStart ==
  {b \in [auto : Sizes, session : Sizes, approved : Sizes, most : {5, 40},
          guarded : BOOLEAN, seals : {{}, {{1}}}, listed : {{1}},
          tools : {Tools, {"refund"}}] :
     /\ b.auto < b.session /\ b.session <= b.approved
     /\ b.guarded = (b.most = 40) /\ b.guarded = (b.seals # {})
     /\ b.guarded = (b.tools = Tools)}

\* No host listed or two, at either end of the alphabet or between; the
\* guardrail over labels that are tried, or over one that never is.
HostStart ==
  [auto : {3}, session : {4}, approved : {6}, most : {5}, guarded : {TRUE},
   seals : {{{1, 2}, {4}}, {{3, 4}}}, listed : {{}, {2, 3}, {1, 4}},
   tools : {Tools}]

MCStart == SmallStart \cup HostStart

MCSeals == {{1}, {1, 2}, {4}}

\* The bundle as it ships.
Shipped ==
  {[auto |-> 20000, session |-> 50000, approved |-> 500000, most |-> 100000000,
    guarded |-> TRUE, seals |-> {Labels}, listed |-> Hosts, tools |-> Tools]}

ByOne == {20000, 20001, 50000, 50001, 500000, 500001}
=============================================================================
