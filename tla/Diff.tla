-------------------------------- MODULE Diff --------------------------------
(***************************************************************************)
(* gatekeeper diff (core/diff.py and cmd_diff of cli.py) as the check a    *)
(* change of the bank-servicing bundle has to pass: both bundles decide    *)
(* a bounded set of probes, and a change that decides one of them more     *)
(* freely is refused unless it is said to be a widening.                   *)
(*                                                                         *)
(* A bundle is the three caps of its refund policies, the largest amount   *)
(* of its manifest, its guardrail over refunds to a frozen account, its    *)
(* guardrails over fetches of a session that has earned certain labels,    *)
(* its allowlisted hosts and its tools.                                    *)
(***************************************************************************)
EXTENDS Integers, FiniteSets

CONSTANTS
  Start,            \* the bundles a history may begin with
  Sizes,            \* what a cap may be changed to
  Hosts,            \* hosts that may be listed, as positions in the alphabet
  Labels,           \* the manifest's labels, as positions in its list
  Seals,            \* what a guardrail that a change brings may be over
  MaxCounter,       \* the manifest's maximum for the counter
  MaxPerDimension   \* MAX_PER_DIMENSION

VARIABLES main, branch, acknowledged

diffVars == <<main, branch, acknowledged>>

Caps  == {"auto", "session", "approved"}
Tools == {"refund", "fetch"}

----------------------------------------------------------------------------
(* What one bundle decides of a request. *)

Permits(a, ctx) ==
  LET b == a.bundle
      r == a.request
  IN  \/ /\ r.tool = "refund" /\ r.currency = "EUR"
         /\ r.amount <= b.auto /\ ctx.counters["refunded"] + r.amount <= b.session
      \/ /\ r.tool = "refund" /\ ctx.approved
         /\ ctx.counters["refunded"] + r.amount <= b.approved
      \/ r.tool = "fetch" /\ r.form \in {"itself", "beneath"} /\ r.host \in b.listed
      \/ r.tool = "fetch" /\ ctx.approved

Forbids(a, ctx) ==
  \/ a.request.tool = "fetch" /\ \E seal \in a.bundle.seals : seal \subseteq ctx.labels
  \/ a.request.tool = "refund" /\ a.bundle.guarded /\ ctx.facts = "frozen"

Errs(a, ctx) ==
  a.request.tool = "refund" /\ a.bundle.guarded /\ ctx.facts = "unloaded"

Requests ==
  [tool : {"refund"}, currency : {"EUR", "JPY"}, amount : Nat]
    \cup [tool : {"fetch"}, host : Hosts \cup {0}, form : {"itself", "beneath", "splice"}]

Bundles ==
  [auto : Nat, session : Nat, approved : Nat, most : Nat, guarded : BOOLEAN,
   seals : SUBSET SUBSET Labels, listed : SUBSET Hosts, tools : SUBSET Tools]

Decided == [request : Requests, bundle : Bundles]

\* canonicalize() rejects an unknown tool and an amount above the maximum.
Rejected ==
  {a \in Decided : \/ a.request.tool \notin a.bundle.tools
                   \/ a.request.tool = "refund" /\ a.request.amount > a.bundle.most}

Engine == INSTANCE Decide WITH
  Acts <- Decided, Malformed <- Rejected, Counters <- {"refunded"},
  Facts <- {"active", "frozen", "unloaded"}, Principals <- {"probe-agent"},
  Nobody <- "nobody", Cost <- [a \in Decided |-> [c \in {"refunded"} |-> 0]],
  Cap <- [c \in {"refunded"} |-> MaxCounter]

ASSUME DiffAssumption ==
  /\ Start \subseteq Bundles
  /\ Sizes \subseteq Nat
  /\ Hosts \subseteq Nat \ {0}
  /\ Labels \subseteq Nat
  /\ Seals \subseteq SUBSET Labels
  /\ MaxCounter \in Nat

\* decide(), with the approval of this very action or without any.
VerdictOf(b, p) ==
  LET a == [request |-> p.request, bundle |-> b]
  IN  Engine!Verdict(a, [seq |-> 1, counters |-> [c \in {"refunded"} |-> p.spent],
                         labels |-> p.labels, facts |-> p.facts,
                         approvals |-> IF p.approved THEN {a} ELSE {}])

Rank(verdict) ==
  CASE verdict = "DENY" -> 0 [] verdict = "REQUIRE_APPROVAL" -> 1 [] verdict = "ALLOW" -> 2

----------------------------------------------------------------------------
(* The probes. *)

Position(v, values) == Cardinality({u \in values : u < v})

Firsts(values, n) == {v \in values : Position(v, values) < n}

\* Every n-th value is kept, not the first ones.
Thinned(values, n) ==
  LET size == Cardinality(values)
      kept == {(i * size) \div n : i \in 0 .. n - 1}
  IN  IF size <= n THEN values ELSE {v \in values : Position(v, values) \in kept}

\* Mutant: no literal is mined.
NoLiterals(b, c) == {}

\* mine_literals() of both bundles.
Literals(b, c) == {b[cap] : cap \in Caps} \cup {c[cap] : cap \in Caps}

Boundaries(low, high, literals) ==
  {low, high} \cup {v \in UNION {l - 1 .. l + 1 : l \in literals} : low <= v /\ v <= high}

\* _suffix_values(): two listed names, one beneath and one only looking alike
\* for each, and a name nobody lists.
Suffixes(b, names) ==
  [tool : {"fetch"}, host : Firsts(b.listed, names), form : {"itself", "beneath", "splice"}]
    \cup [tool : {"fetch"}, host : {0}, form : {"itself"}]

\* An amount of a currency without minor units is tried only if it divides by
\* a hundred.
Amounts(values) ==
  [tool : {"refund"}, currency : {"EUR"}, amount : values]
    \cup [tool : {"refund"}, currency : {"JPY"}, amount : {v \in values : v % 100 = 0}]

\* _label_sets(): the sets made of the first three labels.
LabelSets == SUBSET Firsts(Labels, 3)

ProbesOf(requests, facts, spent) ==
  [request : requests, facts : facts, labels : LabelSets, spent : spent,
   approved : BOOLEAN]

\* probes(), from the candidate's manifest c and the literals of both; the
\* counter is tried at the first four of its values only.
Probes(b, c) ==
  LET spent == Firsts(Thinned(Boundaries(0, MaxCounter, Literals(b, c)), MaxPerDimension), 4)
  IN  ProbesOf(Amounts(Thinned(Boundaries(1, c.most, Literals(b, c)), MaxPerDimension)),
               {"active", "frozen", "unloaded"}, spent)
        \cup ProbesOf(Suffixes(c, 2), {"active"}, spent)

\* compare(): of the tools both have, what c decides more freely than b.
Freer(b, c, p) ==
  /\ p.request.tool \in b.tools \cap c.tools
  /\ Rank(VerdictOf(c, p)) > Rank(VerdictOf(b, p))

\* Mutant: only what was refused and now passes counts.
WidensToAllow(b, c) ==
  \/ c.tools \ b.tools # {}
  \/ \E p \in Probes(b, c) :
       Freer(b, c, p) /\ VerdictOf(b, p) = "DENY" /\ VerdictOf(c, p) = "ALLOW"

\* Mutant: any difference counts.
WidensIfDifferent(b, c) ==
  \/ c.tools # b.tools
  \/ \E p \in Probes(b, c) : VerdictOf(b, p) # VerdictOf(c, p)

\* DiffReport.widens: a tool was added, or a probe is decided more freely.
Widens(b, c) ==
  \/ c.tools \ b.tools # {}
  \/ \E p \in Probes(b, c) : Freer(b, c, p)

----------------------------------------------------------------------------
(* Changes are made on a branch, one at a time, and merged. *)

DiffInit ==
  /\ main \in Start
  /\ branch = main
  /\ acknowledged = FALSE

\* One change to a bundle of Start, which bounds a history to one merge.
Edit ==
  /\ branch = main /\ main \in Start
  /\ \/ \E field \in Caps \cup {"most"}, n \in Sizes : branch' = [main EXCEPT ![field] = n]
     \/ branch' = [main EXCEPT !.guarded = ~@]
     \/ \E seal \in Seals : branch' \in {[main EXCEPT !.seals = @ \cup {seal}],
                                         [main EXCEPT !.seals = {seal}],
                                         [main EXCEPT !.seals = {}]}
     \/ \E h \in Hosts : branch' \in {[main EXCEPT !.listed = @ \cup {h}],
                                      [main EXCEPT !.listed = @ \ {h}]}
     \/ branch' \in {[main EXCEPT !.tools = @ \cup {"fetch"}],
                     [main EXCEPT !.tools = @ \ {"fetch"}]}
  /\ branch' # main
  /\ UNCHANGED <<main, acknowledged>>

\* cmd_diff() exits with 0: nothing widens, or --allow-widening was given.
Merge(allowed) ==
  /\ branch # main
  /\ allowed \/ ~Widens(main, branch)
  /\ main' = branch
  /\ acknowledged' = allowed
  /\ UNCHANGED branch

DiffNext == Edit \/ \E allowed \in BOOLEAN : Merge(allowed)

DiffSpec == DiffInit /\ [][DiffNext]_diffVars

----------------------------------------------------------------------------
\* The amounts, of all there are, that c decides more freely than b in a
\* session that has spent nothing, in one set of circumstances.
NewAmounts(b, c, facts, approved) ==
  {n \in 1 .. c.most :
     Freer(b, c, [request |-> [tool |-> "refund", currency |-> "EUR", amount |-> n],
                  facts |-> facts, labels |-> {}, spent |-> 0, approved |-> approved])}

\* However large the caps and wherever they lie, no merge nobody owned up to
\* frees two amounts: of two boundary values that follow one another, the
\* thinning out keeps one.
TwoAmountsAreSeen ==
  [][main' # main /\ ~acknowledged' =>
       \A facts \in {"active", "frozen", "unloaded"}, approved \in BOOLEAN :
         Cardinality(NewAmounts(main, main', facts, approved)) <= 1]_diffVars

\* A fetch of a session that has spent nothing.
Fetch(host, form, labels, approved) ==
  [request |-> [tool |-> "fetch", host |-> host, form |-> form], facts |-> "active",
   labels |-> labels, spent |-> 0, approved |-> approved]

\* A host the change lists, after two others in the alphabet.
ListedLate(b, c, h) == h \in (c.listed \ b.listed) \ Firsts(c.listed, 2)

\* Everything a merge nobody owned up to can let out is one of two things: a
\* newly listed host, itself or beneath it, that two listed ones precede; or
\* what a guardrail forbade that names a label after the manifest's first
\* three.  Nothing else is freed: no other host, no name that only looks like
\* one, no session other guardrails hold back, no tool.
OnlyLateHostsOpenUnsaid ==
  [][main' # main /\ ~acknowledged' =>
       /\ main'.tools \subseteq main.tools
       /\ \A h \in Hosts, form \in {"itself", "beneath", "splice"},
             labels \in SUBSET Labels, approved \in BOOLEAN :
            Freer(main, main', Fetch(h, form, labels, approved)) =>
              \/ ListedLate(main, main', h) /\ form # "splice"
              \/ \E seal \in main.seals \ LabelSets : seal \subseteq labels]_diffVars

\* c asks no less than b anywhere in its text.
Stricter(b, c) ==
  /\ \A field \in Caps \cup {"most"} : c[field] <= b[field]
  /\ b.guarded => c.guarded
  /\ \A seal \in b.seals : \E other \in c.seals : other \subseteq seal
  /\ c.listed \subseteq b.listed
  /\ c.tools \subseteq b.tools

\* A change that only tightens is never refused: lowering a cap, restoring a
\* guardrail or striking out a host widens nothing, whatever a human may
\* still be asked.
TighteningPasses == Stricter(main, branch) => ~Widens(main, branch)

\* The probes decide a change as the whole space does that they are described
\* as being: every literal with its neighbours, in amount and in counter.
ProbesAreAllBoundaries ==
  LET spent   == Boundaries(0, MaxCounter, Literals(main, branch))
      amounts == Boundaries(1, branch.most, Literals(main, branch))
  IN  (\E p \in ProbesOf(Amounts(amounts), {"active", "frozen", "unloaded"}, spent) :
         Freer(main, branch, p))
        => Widens(main, branch)
=============================================================================
