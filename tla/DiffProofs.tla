----------------------------- MODULE DiffProofs -----------------------------
(***************************************************************************)
(* What passing gatekeeper diff is worth, for any caps, hosts and labels.  *)
(* A change that only tightens passes: fewer permits and more guardrails   *)
(* never bring a verdict up, not even from DENY to the question put to a   *)
(* human, with which a refusal by default is answered.  Of the fetches, one *)
(* that passes frees at most a late host or what a guardrail forbade for a *)
(* label never tried; and none frees two amounts, wherever its caps lie.   *)
(***************************************************************************)
EXTENDS Diff, FiniteSetTheorems, WellFoundedInduction, TLAPS

DiffTypeOK == main \in Bundles /\ branch \in Bundles

\* What probes() may ask.
Probe ==
  [request : Requests, facts : {"active", "frozen", "unloaded"}, labels : SUBSET Labels,
   spent : Nat, approved : BOOLEAN]

----------------------------------------------------------------------------
(* Histories are of bundles. *)

LEMMA EditTyped ==
  ASSUME DiffTypeOK, Edit
  PROVE  DiffTypeOK'
<1>1. main' \in Bundles
  BY DEF DiffTypeOK, Edit
<1>2. branch' \in Bundles
  <2>1. CASE \E field \in Caps \cup {"most"}, n \in Sizes : branch' = [main EXCEPT ![field] = n]
    <3>1. PICK field \in Caps \cup {"most"}, n \in Sizes : branch' = [main EXCEPT ![field] = n]
      BY <2>1
    <3>2. n \in Nat
      BY DiffAssumption
    <3> QED BY <3>1, <3>2 DEF DiffTypeOK, Bundles, Caps
  <2>2. CASE branch' = [main EXCEPT !.guarded = ~@]
    BY <2>2 DEF DiffTypeOK, Bundles
  <2>3. CASE \E seal \in Seals : branch' \in {[main EXCEPT !.seals = @ \cup {seal}],
                                             [main EXCEPT !.seals = {seal}],
                                             [main EXCEPT !.seals = {}]}
    BY <2>3, DiffAssumption DEF DiffTypeOK, Bundles
  <2>4. CASE \E h \in Hosts : branch' \in {[main EXCEPT !.listed = @ \cup {h}],
                                           [main EXCEPT !.listed = @ \ {h}]}
    BY <2>4 DEF DiffTypeOK, Bundles
  <2>5. CASE branch' \in {[main EXCEPT !.tools = @ \cup {"fetch"}],
                          [main EXCEPT !.tools = @ \ {"fetch"}]}
    BY <2>5 DEF DiffTypeOK, Bundles, Tools
  <2> QED BY <2>1, <2>2, <2>3, <2>4, <2>5 DEF Edit
<1> QED BY <1>1, <1>2 DEF DiffTypeOK

LEMMA HistoryTyped == DiffSpec => []DiffTypeOK
<1>1. DiffInit => DiffTypeOK
  BY DiffAssumption DEF DiffInit, DiffTypeOK
<1>2. DiffTypeOK /\ [DiffNext]_diffVars => DiffTypeOK'
  <2> SUFFICES ASSUME DiffTypeOK, [DiffNext]_diffVars
               PROVE  DiffTypeOK'
    OBVIOUS
  <2>1. CASE Edit
    BY <2>1, EditTyped
  <2>2. CASE \E allowed \in BOOLEAN : Merge(allowed)
    BY <2>2 DEF Merge, DiffTypeOK
  <2>3. CASE UNCHANGED diffVars
    BY <2>3 DEF diffVars, DiffTypeOK
  <2> QED BY <2>1, <2>2, <2>3 DEF DiffNext
<1> QED BY <1>1, <1>2, PTL DEF DiffSpec

----------------------------------------------------------------------------
(* Probes are of requests. *)

LEMMA BoundariesTyped ==
  ASSUME NEW b \in Bundles, NEW c \in Bundles, NEW low \in Nat, NEW high \in Nat
  PROVE  Boundaries(low, high, Literals(b, c)) \subseteq Nat
<1>1. Literals(b, c) \subseteq Nat
  BY DEF Literals, Caps, Bundles
<1> QED BY <1>1 DEF Boundaries

LEMMA ThinnedIsPart ==
  ASSUME NEW values, NEW n
  PROVE  Thinned(values, n) \subseteq values /\ Firsts(values, n) \subseteq values
BY DEF Thinned, Firsts

LEMMA ProbesTyped ==
  ASSUME NEW b \in Bundles, NEW c \in Bundles
  PROVE  Probes(b, c) \subseteq Probe
<1> DEFINE Counts == Firsts(Thinned(Boundaries(0, MaxCounter, Literals(b, c)), MaxPerDimension), 4)
           Values == Thinned(Boundaries(1, c.most, Literals(b, c)), MaxPerDimension)
<1>1. Counts \subseteq Nat
  BY BoundariesTyped, ThinnedIsPart, DiffAssumption
<1>2. Values \subseteq Nat
  <2>1. c.most \in Nat
    BY DEF Bundles
  <2> QED BY <2>1, BoundariesTyped, ThinnedIsPart
<1> HIDE DEF Counts, Values
<1>3. Amounts(Values) \subseteq Requests
  BY <1>2 DEF Amounts, Requests
<1>4. Suffixes(c, 2) \subseteq Requests
  <2>1. Firsts(c.listed, 2) \subseteq Hosts
    BY ThinnedIsPart DEF Bundles
  <2> QED BY <2>1 DEF Suffixes, Requests
<1>5. LabelSets \subseteq SUBSET Labels
  BY ThinnedIsPart DEF LabelSets
<1>6. ProbesOf(Amounts(Values), {"active", "frozen", "unloaded"}, Counts) \subseteq Probe
  BY <1>1, <1>3, <1>5 DEF ProbesOf, Probe
<1>7. ProbesOf(Suffixes(c, 2), {"active"}, Counts) \subseteq Probe
  BY <1>1, <1>4, <1>5 DEF ProbesOf, Probe
<1> QED BY <1>6, <1>7 DEF Probes, Counts, Values

----------------------------------------------------------------------------
(* Verdicts. *)

ActionOf(d, p) == [request |-> p.request, bundle |-> d]

ContextOf(p, approved) ==
  [counters |-> [n \in {"refunded"} |-> p.spent],
   labels |-> p.labels, facts |-> p.facts, approved |-> approved]

Accepted(d, p) ==
  /\ \A n \in {"refunded"} : [m \in {"refunded"} |-> p.spent][n] <= MaxCounter
  /\ ActionOf(d, p) \notin Rejected

Passes(d, p, approved)  == Engine!Allowed(ActionOf(d, p), ContextOf(p, approved))
Refused(d, p, approved) == Engine!DeniedByDefault(ActionOf(d, p), ContextOf(p, approved))

\* decide() of a probe.
LEMMA VerdictIs ==
  ASSUME NEW d, NEW p \in Probe
  PROVE  VerdictOf(d, p) =
           IF Accepted(d, p) /\ Passes(d, p, p.approved) THEN "ALLOW"
           ELSE IF /\ Accepted(d, p) /\ Refused(d, p, p.approved)
                   /\ ~p.approved /\ Passes(d, p, TRUE)
                THEN "REQUIRE_APPROVAL" ELSE "DENY"
<1> DEFINE act  == ActionOf(d, p)
           seen == [seq |-> 1, counters |-> [n \in {"refunded"} |-> p.spent],
                    labels |-> p.labels, facts |-> p.facts,
                    approvals |-> IF p.approved THEN {act} ELSE {}]
<1>1. p.approved \in BOOLEAN
  BY DEF Probe
<1>2. (act \in seen.approvals) = p.approved
  BY <1>1
<1>3. \A a \in BOOLEAN : Engine!BuildContext(seen, a) = ContextOf(p, a)
  BY DEF Engine!BuildContext, ContextOf
<1>4. VerdictOf(d, p) = Engine!Verdict(act, seen)
  BY DEF VerdictOf, ActionOf
<1>5. Engine!ValidInput(act, seen) = Accepted(d, p)
  BY DEF Engine!ValidInput, Accepted
<1>6. /\ Passes(d, p, p.approved) = Engine!Allowed(act, ContextOf(p, p.approved))
      /\ Passes(d, p, TRUE) = Engine!Allowed(act, ContextOf(p, TRUE))
      /\ Refused(d, p, p.approved) = Engine!DeniedByDefault(act, ContextOf(p, p.approved))
  BY DEF Passes, Refused
<1> HIDE DEF act, seen
<1> QED BY <1>1, <1>2, <1>3, <1>4, <1>5, <1>6 DEF Engine!Verdict

\* Where c permits no more of p than b does of q, and forbids, errs on and
\* rejects no less, its verdict is no freer.
LEMMA VerdictsAreMonotone ==
  ASSUME NEW b, NEW c, NEW p \in Probe, NEW q \in Probe, p.approved = q.approved,
         Accepted(c, p) => Accepted(b, q),
         \A a \in BOOLEAN :
           /\ Permits(ActionOf(c, p), ContextOf(p, a)) => Permits(ActionOf(b, q), ContextOf(q, a))
           /\ Forbids(ActionOf(b, q), ContextOf(q, a)) => Forbids(ActionOf(c, p), ContextOf(p, a))
           /\ Errs(ActionOf(b, q), ContextOf(q, a)) => Errs(ActionOf(c, p), ContextOf(p, a))
  PROVE  /\ Rank(VerdictOf(c, p)) <= Rank(VerdictOf(b, q))
         /\ Rank(VerdictOf(c, p)) \in 0 .. 2 /\ Rank(VerdictOf(b, q)) \in 0 .. 2
<1>1. \A a \in BOOLEAN : Passes(c, p, a) => Passes(b, q, a)
  BY DEF Passes, Engine!Allowed
<1>2. \A a \in BOOLEAN : Refused(c, p, a) => Refused(b, q, a) \/ Passes(b, q, a)
  BY DEF Refused, Passes, Engine!DeniedByDefault, Engine!Allowed
<1>3. p.approved \in BOOLEAN
  BY DEF Probe
<1>4. /\ VerdictOf(c, p) = "ALLOW" => VerdictOf(b, q) = "ALLOW"
      /\ VerdictOf(c, p) = "REQUIRE_APPROVAL" => VerdictOf(b, q) \in {"ALLOW", "REQUIRE_APPROVAL"}
      /\ VerdictOf(c, p) \in {"ALLOW", "REQUIRE_APPROVAL", "DENY"}
      /\ VerdictOf(b, q) \in {"ALLOW", "REQUIRE_APPROVAL", "DENY"}
  BY <1>1, <1>2, <1>3, VerdictIs
<1> QED BY <1>4 DEF Rank

----------------------------------------------------------------------------
(* A stricter bundle never decides more freely. *)

LEMMA StricterIsNotFreer ==
  ASSUME NEW b \in Bundles, NEW c \in Bundles, Stricter(b, c), NEW p \in Probe
  PROVE  ~Freer(b, c, p)
<1>1. ActionOf(b, p) \in Decided /\ ActionOf(c, p) \in Decided
  BY DEF Decided, Probe, ActionOf
<1>2. p.spent \in Nat
  BY DEF Probe
<1>3. \A approved \in BOOLEAN :
        Permits(ActionOf(c, p), ContextOf(p, approved)) => Permits(ActionOf(b, p), ContextOf(p, approved))
  <2> SUFFICES ASSUME NEW approved \in BOOLEAN, Permits(ActionOf(c, p), ContextOf(p, approved))
               PROVE  Permits(ActionOf(b, p), ContextOf(p, approved))
    OBVIOUS
  <2>1. CASE p.request.tool = "refund"
    <3>1. p.request.amount \in Nat
      BY <2>1 DEF Probe, Requests
    <3>2. /\ b.auto \in Nat /\ b.session \in Nat /\ b.approved \in Nat
          /\ c.auto \in Nat /\ c.session \in Nat /\ c.approved \in Nat
      BY DEF Bundles
    <3>3. c.auto <= b.auto /\ c.session <= b.session /\ c.approved <= b.approved
      BY DEF Stricter, Caps
    <3> QED BY <1>2, <2>1, <3>1, <3>2, <3>3 DEF Permits, ActionOf, ContextOf
  <2>2. CASE p.request.tool # "refund"
    BY <2>2 DEF Permits, Stricter, ActionOf, ContextOf
  <2> QED BY <2>1, <2>2
<1>4. \A approved \in BOOLEAN :
        Forbids(ActionOf(b, p), ContextOf(p, approved)) => Forbids(ActionOf(c, p), ContextOf(p, approved))
  BY DEF Forbids, Stricter, ActionOf, ContextOf
<1>5. \A approved \in BOOLEAN :
        Errs(ActionOf(b, p), ContextOf(p, approved)) => Errs(ActionOf(c, p), ContextOf(p, approved))
  BY DEF Errs, Stricter, ActionOf, ContextOf
<1>6. ActionOf(b, p) \in Rejected => ActionOf(c, p) \in Rejected
  <2>1. CASE p.request.tool = "refund"
    <3>1. p.request.amount \in Nat /\ b.most \in Nat /\ c.most \in Nat /\ c.most <= b.most
      BY <2>1 DEF Probe, Requests, Bundles, Stricter
    <3> QED BY <1>1, <2>1, <3>1 DEF Rejected, Stricter, ActionOf
  <2>2. CASE p.request.tool # "refund"
    BY <1>1, <2>2 DEF Rejected, Stricter, ActionOf
  <2> QED BY <2>1, <2>2
<1>7. Accepted(c, p) => Accepted(b, p)
  BY <1>6 DEF Accepted
<1>8. Rank(VerdictOf(c, p)) <= Rank(VerdictOf(b, p))
      /\ Rank(VerdictOf(c, p)) \in 0 .. 2 /\ Rank(VerdictOf(b, p)) \in 0 .. 2
  BY <1>3, <1>4, <1>5, <1>7, VerdictsAreMonotone
<1> QED BY <1>8 DEF Freer

----------------------------------------------------------------------------
\* A change that only tightens is never refused: whatever the caps, hosts and
\* labels, and however many boundary values are kept.
THEOREM TighteningIsFree == DiffSpec => []TighteningPasses
<1>1. DiffTypeOK => TighteningPasses
  <2> SUFFICES ASSUME DiffTypeOK, Stricter(main, branch)
               PROVE  ~Widens(main, branch)
    BY DEF TighteningPasses
  <2>1. branch.tools \ main.tools = {}
    BY DEF Stricter
  <2>2. \A p \in Probes(main, branch) : ~Freer(main, branch, p)
    BY ProbesTyped, StricterIsNotFreer DEF DiffTypeOK
  <2> QED BY <2>1, <2>2 DEF Widens
<1> QED BY <1>1, HistoryTyped, PTL

----------------------------------------------------------------------------
(* Hosts. *)

\* The smallest of the values is among those tried, however many there are.
LEMMA ZeroIsTried ==
  ASSUME NEW b \in Bundles, NEW c \in Bundles, MaxPerDimension \in Nat \ {0}
  PROVE  0 \in Firsts(Thinned(Boundaries(0, MaxCounter, Literals(b, c)), MaxPerDimension), 4)
<1> DEFINE values == Boundaries(0, MaxCounter, Literals(b, c))
           thinned == Thinned(values, MaxPerDimension)
<1>1. MaxCounter \in Nat
  BY DiffAssumption
<1>2. values \subseteq 0 .. MaxCounter /\ 0 \in values
  <2>1. values \subseteq Nat
    BY <1>1, BoundariesTyped
  <2> QED BY <1>1, <2>1 DEF Boundaries
<1> HIDE DEF values
<1>3. Cardinality(values) \in Nat
  <2>1. IsFiniteSet(0 .. MaxCounter)
    BY <1>1, FS_Interval
  <2> QED BY <1>2, <2>1, FS_Subset, FS_CardinalityType
<1>4. \A S \in SUBSET Nat : Position(0, S) = 0
  <2> SUFFICES ASSUME NEW S \in SUBSET Nat
               PROVE  Position(0, S) = 0
    OBVIOUS
  <2>1. \A u \in S : ~(u < 0)
    OBVIOUS
  <2>2. {u \in S : u < 0} = {}
    BY <2>1, Zenon
  <2> QED BY <2>2, FS_EmptySet DEF Position
<1>5. 0 \in thinned
  <2>1. CASE Cardinality(values) <= MaxPerDimension
    BY <1>2, <2>1 DEF Thinned
  <2>2. CASE ~(Cardinality(values) <= MaxPerDimension)
    <3>1. (0 * Cardinality(values)) \div MaxPerDimension = 0
      BY <1>3
    <3>2. 0 \in {(i * Cardinality(values)) \div MaxPerDimension : i \in 0 .. MaxPerDimension - 1}
      BY <3>1
    <3>3. Position(0, values) = 0
      BY <1>2, <1>4
    <3> QED BY <1>2, <2>2, <3>2, <3>3 DEF Thinned
  <2> QED BY <2>1, <2>2
<1>6. Position(0, thinned) = 0
  <2>1. thinned \subseteq values
    BY ThinnedIsPart
  <2>2. values \subseteq Nat
    BY <1>1, <1>2
  <2> QED BY <1>4, <2>1, <2>2
<1> QED BY <1>5, <1>6 DEF Firsts, values

\* A guardrail of d holds back a session with these labels.
Held(d, labels) == \E seal \in d.seals : seal \subseteq labels

\* How freely d decides a fetch.
FetchRank(d, host, form, labels, approved) ==
  IF "fetch" \notin d.tools \/ Held(d, labels) THEN 0
  ELSE IF (form # "splice" /\ host \in d.listed) \/ approved THEN 2 ELSE 1

LEMMA RankOfFetch ==
  ASSUME NEW d \in Bundles, NEW host \in Hosts \cup {0},
         NEW form \in {"itself", "beneath", "splice"},
         NEW labels \in SUBSET Labels, NEW approved \in BOOLEAN
  PROVE  /\ Fetch(host, form, labels, approved) \in Probe
         /\ Rank(VerdictOf(d, Fetch(host, form, labels, approved)))
              = FetchRank(d, host, form, labels, approved)
<1> DEFINE p == Fetch(host, form, labels, approved)
<1>1. p \in Probe
  BY DEF Fetch, Probe, Requests
<1>2. /\ p.spent = 0 /\ p.labels = labels /\ p.facts = "active" /\ p.approved = approved
      /\ p.request.tool = "fetch" /\ p.request.host = host /\ p.request.form = form
  BY DEF Fetch
<1> HIDE DEF p
<1>3. ActionOf(d, p) \in Decided /\ ActionOf(d, p).request = p.request /\ ActionOf(d, p).bundle = d
  BY <1>1 DEF ActionOf, Decided, Probe
<1>4. Accepted(d, p) <=> "fetch" \in d.tools
  <2>1. \A m \in {"refunded"} : [k \in {"refunded"} |-> p.spent][m] <= MaxCounter
    BY <1>2, DiffAssumption
  <2>2. ActionOf(d, p) \in Rejected <=> "fetch" \notin d.tools
    BY <1>2, <1>3 DEF Rejected
  <2> QED BY <2>1, <2>2 DEF Accepted
<1>5. ASSUME NEW a \in BOOLEAN
      PROVE  /\ Permits(ActionOf(d, p), ContextOf(p, a))
                  <=> (form # "splice" /\ host \in d.listed) \/ a
             /\ Forbids(ActionOf(d, p), ContextOf(p, a)) <=> Held(d, labels)
             /\ ~Errs(ActionOf(d, p), ContextOf(p, a))
  <2>1. ContextOf(p, a).approved = a /\ ContextOf(p, a).labels = labels
    BY <1>2 DEF ContextOf
  <2> QED BY <1>2, <1>3, <2>1 DEF Permits, Forbids, Errs, Held
<1>6. ASSUME NEW a \in BOOLEAN
      PROVE  /\ Passes(d, p, a) <=> ~Held(d, labels) /\ ((form # "splice" /\ host \in d.listed) \/ a)
             /\ Refused(d, p, a) <=> ~Held(d, labels) /\ ~((form # "splice" /\ host \in d.listed) \/ a)
  BY <1>5 DEF Passes, Refused, Engine!Allowed, Engine!DeniedByDefault
<1>7. VerdictOf(d, p) =
        IF Accepted(d, p) /\ Passes(d, p, approved) THEN "ALLOW"
        ELSE IF Accepted(d, p) /\ Refused(d, p, approved) /\ ~approved /\ Passes(d, p, TRUE)
             THEN "REQUIRE_APPROVAL" ELSE "DENY"
  BY <1>1, <1>2, VerdictIs
<1>8. FetchRank(d, host, form, labels, approved) =
        IF Accepted(d, p) /\ Passes(d, p, approved) THEN 2
        ELSE IF Accepted(d, p) /\ Refused(d, p, approved) /\ ~approved /\ Passes(d, p, TRUE)
             THEN 1 ELSE 0
  <2>1. CASE ~Accepted(d, p) \/ Held(d, labels)
    BY <1>4, <1>6, <2>1 DEF FetchRank
  <2>2. CASE Accepted(d, p) /\ ~Held(d, labels)
    BY <1>4, <1>6, <2>2 DEF FetchRank
  <2> QED BY <2>1, <2>2
<1>9. Rank(VerdictOf(d, p)) = FetchRank(d, host, form, labels, approved)
  BY <1>7, <1>8 DEF Rank
<1> QED BY <1>1, <1>9 DEF p

\* c decides a fetch more freely than b.
FreesFetch(b, c, host, form, labels, approved) ==
  /\ "fetch" \in b.tools \cap c.tools
  /\ FetchRank(c, host, form, labels, approved) > FetchRank(b, host, form, labels, approved)

LEMMA FreedFetch ==
  ASSUME NEW b \in Bundles, NEW c \in Bundles, NEW host \in Hosts \cup {0},
         NEW form \in {"itself", "beneath", "splice"},
         NEW labels \in SUBSET Labels, NEW approved \in BOOLEAN
  PROVE  Freer(b, c, Fetch(host, form, labels, approved))
           <=> FreesFetch(b, c, host, form, labels, approved)
<1>1. Fetch(host, form, labels, approved).request.tool = "fetch"
  BY DEF Fetch
<1> QED BY <1>1, RankOfFetch DEF Freer, FreesFetch

\* A fetch of one of the first two hosts listed, or of one nobody lists, in a
\* session with labels of the first three, is tried.
LEMMA FetchIsTried ==
  ASSUME MaxPerDimension \in Nat \ {0}, NEW b \in Bundles, NEW c \in Bundles,
         NEW host, NEW form \in {"itself", "beneath", "splice"},
         host \in Firsts(c.listed, 2) \/ (host = 0 /\ form = "itself"),
         NEW labels \in LabelSets, NEW approved \in BOOLEAN,
         FreesFetch(b, c, host, form, labels, approved)
  PROVE  Widens(b, c)
<1> DEFINE spent == Firsts(Thinned(Boundaries(0, MaxCounter, Literals(b, c)), MaxPerDimension), 4)
<1>1. 0 \in spent
  BY ZeroIsTried
<1> HIDE DEF spent
<1>2. [tool |-> "fetch", host |-> host, form |-> form] \in Suffixes(c, 2)
  BY DEF Suffixes
<1>3. Fetch(host, form, labels, approved) \in ProbesOf(Suffixes(c, 2), {"active"}, spent)
  BY <1>1, <1>2 DEF ProbesOf, Fetch
<1>4. Fetch(host, form, labels, approved) \in Probes(b, c)
  BY <1>3 DEF Probes, spent
<1>5. host \in Hosts \cup {0} /\ labels \in SUBSET Labels
  BY ThinnedIsPart DEF Bundles, LabelSets
<1>6. Freer(b, c, Fetch(host, form, labels, approved))
  BY <1>5, FreedFetch
<1> QED BY <1>4, <1>6 DEF Widens

\* What a change that no probe shows may free of a fetch.
LEMMA UnseenIsLate ==
  ASSUME MaxPerDimension \in Nat \ {0}, NEW b \in Bundles, NEW c \in Bundles, ~Widens(b, c),
         NEW h \in Hosts, NEW form \in {"itself", "beneath", "splice"},
         NEW labels \in SUBSET Labels, NEW approved \in BOOLEAN,
         FreesFetch(b, c, h, form, labels, approved)
  PROVE  \/ ListedLate(b, c, h) /\ form # "splice"
         \/ \E seal \in b.seals \ LabelSets : seal \subseteq labels
<1>1. "fetch" \in b.tools /\ "fetch" \in c.tools /\ ~Held(c, labels)
  BY DEF FreesFetch, FetchRank
<1>2. ASSUME Held(b, labels)
      PROVE  \E seal \in b.seals \ LabelSets : seal \subseteq labels
  <2>1. PICK seal \in b.seals : seal \subseteq labels
    BY <1>2 DEF Held
  <2>2. ASSUME seal \in LabelSets
        PROVE  FALSE
    <3>1. Held(b, seal) /\ ~Held(c, seal)
      BY <1>1, <2>1 DEF Held
    <3>2. FreesFetch(b, c, 0, "itself", seal, TRUE)
      BY <1>1, <3>1 DEF FreesFetch, FetchRank
    <3> QED BY <2>2, <3>2, FetchIsTried
  <2> QED BY <2>1, <2>2
<1>3. ASSUME ~Held(b, labels)
      PROVE  ListedLate(b, c, h) /\ form # "splice"
  <2>1. ~approved /\ form # "splice" /\ h \in c.listed /\ h \notin b.listed
    BY <1>1, <1>3 DEF FreesFetch, FetchRank
  <2>2. ~Held(b, {}) /\ ~Held(c, {})
    BY <1>1, <1>3 DEF Held
  <2>3. FreesFetch(b, c, h, form, {}, FALSE)
    BY <1>1, <2>1, <2>2 DEF FreesFetch, FetchRank
  <2>4. {} \in LabelSets
    BY DEF LabelSets
  <2>5. h \notin Firsts(c.listed, 2)
    BY <2>3, <2>4, FetchIsTried
  <2> QED BY <2>1, <2>5 DEF ListedLate
<1> QED BY <1>2, <1>3

\* All that a merge nobody owned up to can let out of a fetch is a host newly
\* listed after two others, or what a guardrail forbade for a label after the
\* manifest's first three: for any hosts, labels, guardrails, caps and number
\* of boundary values kept.
THEOREM HostsAreGuarded ==
  ASSUME MaxPerDimension \in Nat \ {0}
  PROVE  DiffSpec => OnlyLateHostsOpenUnsaid
<1> DEFINE OnlyLate(b, c) ==
      /\ c.tools \subseteq b.tools
      /\ \A h \in Hosts, form \in {"itself", "beneath", "splice"},
            labels \in SUBSET Labels, approved \in BOOLEAN :
           Freer(b, c, Fetch(h, form, labels, approved)) =>
             \/ ListedLate(b, c, h) /\ form # "splice"
             \/ \E seal \in b.seals \ LabelSets : seal \subseteq labels
<1>1. ASSUME NEW b \in Bundles, NEW c \in Bundles, ~Widens(b, c)
      PROVE  OnlyLate(b, c)
  <2>1. c.tools \subseteq b.tools
    BY <1>1 DEF Widens
  <2>2. ASSUME NEW h \in Hosts, NEW form \in {"itself", "beneath", "splice"},
               NEW labels \in SUBSET Labels, NEW approved \in BOOLEAN,
               Freer(b, c, Fetch(h, form, labels, approved))
        PROVE  \/ ListedLate(b, c, h) /\ form # "splice"
               \/ \E seal \in b.seals \ LabelSets : seal \subseteq labels
    <3>1. FreesFetch(b, c, h, form, labels, approved)
      BY <2>2, FreedFetch
    <3> QED BY <1>1, <3>1, UnseenIsLate
  <2> QED BY <2>1, <2>2
<1>2. DiffTypeOK /\ [DiffNext]_diffVars
        => [main' # main /\ ~acknowledged' => OnlyLate(main, main')]_diffVars
  <2> SUFFICES ASSUME DiffTypeOK, [DiffNext]_diffVars, main' # main, ~acknowledged'
               PROVE  OnlyLate(main, main')
    OBVIOUS
  <2>1. ~Widens(main, branch) /\ main' = branch
    BY DEF DiffNext, Edit, Merge, diffVars
  <2> HIDE DEF OnlyLate
  <2> QED BY <1>1, <2>1 DEF DiffTypeOK
<1> QED BY <1>2, HistoryTyped, PTL DEF DiffSpec, OnlyLateHostsOpenUnsaid

----------------------------------------------------------------------------
(* Sets of numbers. *)

\* The least of a set of naturals.
LEMMA LeastNat ==
  ASSUME NEW S \in SUBSET Nat, S # {}
  PROVE  \E m \in S : \A n \in S : m <= n
<1>1. PICK m \in S : \A n \in S : ~(<<n, m>> \in OpToRel(<, Nat))
  BY NatLessThanWellFounded, WFMin, Zenon
<1>2. \A n \in S : ~(n < m)
  BY <1>1 DEF OpToRel
<1> QED BY <1>2

\* The greatest of those up to x.
LEMMA GreatestUpTo ==
  ASSUME NEW S \in SUBSET Nat, NEW x \in Nat, NEW s \in S, s <= x
  PROVE  \E m \in S : m <= x /\ \A n \in S : n <= x => n <= m
<1> DEFINE Gaps == {d \in Nat : d <= x /\ x - d \in S}
<1>1. x - s \in Nat /\ x - s <= x /\ x - (x - s) = s
  OBVIOUS
<1>2. Gaps \in SUBSET Nat /\ Gaps # {}
  BY <1>1
<1>3. PICK d \in Gaps : \A e \in Gaps : d <= e
  <2> HIDE DEF Gaps
  <2> QED BY <1>2, LeastNat
<1>4. x - d \in S /\ x - d <= x
  OBVIOUS
<1>5. ASSUME NEW n \in S, n <= x
      PROVE  n <= x - d
  <2>1. x - n \in Nat /\ x - n <= x /\ x - (x - n) = n
    BY <1>5
  <2>2. x - n \in Gaps
    BY <2>1
  <2> QED BY <1>3, <1>5, <2>2
<1> QED BY <1>4, <1>5

\* AtMost(S, n): no more than n of them.
AtMost(S, n) == IsFiniteSet(S) /\ Cardinality(S) \in Nat /\ Cardinality(S) <= n

LEMMA AtMostUnion ==
  ASSUME NEW S, NEW T, NEW m \in Nat, NEW n \in Nat, AtMost(S, m), AtMost(T, n),
         NEW k \in Nat, m + n <= k
  PROVE  AtMost(S \cup T, k)
<1>1. /\ IsFiniteSet(S \cup T)
      /\ Cardinality(S \cup T) = Cardinality(S) + Cardinality(T) - Cardinality(S \cap T)
  BY FS_Union DEF AtMost
<1>2. Cardinality(S \cap T) \in Nat
  BY FS_Intersection, FS_CardinalityType DEF AtMost
<1>3. Cardinality(S \cup T) \in Nat
  BY <1>1, FS_CardinalityType
<1> QED BY <1>1, <1>2, <1>3 DEF AtMost

LEMMA AtMostSubset ==
  ASSUME NEW T, NEW n \in Nat, AtMost(T, n), NEW S \in SUBSET T
  PROVE  AtMost(S, n)
BY FS_Subset, FS_CardinalityType DEF AtMost

LEMMA AtMostTwo ==
  ASSUME NEW a, NEW b
  PROVE  AtMost({a, b}, 2)
<1>1. \A x : AtMost({x}, 1)
  <2> SUFFICES ASSUME NEW x PROVE AtMost({x}, 1)
    OBVIOUS
  <2>1. IsFiniteSet({x}) /\ Cardinality({x}) = 1
    BY FS_Singleton
  <2> QED BY <2>1 DEF AtMost
<1>2. AtMost({a} \cup {b}, 2)
  BY <1>1, AtMostUnion, 1 + 1 <= 2
<1>3. {a} \cup {b} = {a, b}
  OBVIOUS
<1> QED BY <1>2, <1>3

LEMMA AtMostAround ==
  ASSUME NEW l \in Nat
  PROVE  AtMost(l - 1 .. l + 1, 3)
BY FS_Interval DEF AtMost

----------------------------------------------------------------------------
(* Thinning. *)

\* Of two values that follow one another, thinning sixteen or fewer to eight
\* keeps one.
LEMMA OneOfTwoIsKept ==
  ASSUME NEW S \in SUBSET Nat, AtMost(S, 16), NEW u \in S, NEW v \in S, u < v,
         \A w \in S : w <= u \/ v <= w
  PROVE  u \in Thinned(S, 8) \/ v \in Thinned(S, 8)
<1> DEFINE size == Cardinality(S)
           kept == {(i * size) \div 8 : i \in 0 .. 7}
           below == {w \in S : w < u}
<1>1. size \in Nat /\ size <= 16 /\ IsFiniteSet(S)
  BY DEF AtMost
<1>2. AtMost(below, 16)
  BY AtMostSubset
<1>3. {w \in S : w < v} = below \cup {u} /\ u \notin below
  <2>1. \A w \in S : w < v <=> w < u \/ w = u
    OBVIOUS
  <2>2. {w \in S : w < v} = {w \in S : w < u} \cup {u}
    BY <2>1, Zenon
  <2>3. ~(u < u)
    OBVIOUS
  <2> QED BY <2>2, <2>3
<1>4. Position(v, S) = Position(u, S) + 1
  <2>1. Cardinality(below \cup {u}) = Cardinality(below) + 1
    BY <1>2, <1>3, FS_AddElement DEF AtMost
  <2> QED BY <1>3, <2>1 DEF Position
<1>5. Position(u, S) \in Nat /\ Position(u, S) + 2 <= size
  <2>1. IsFiniteSet(below \cup {u}) /\ Cardinality(below \cup {u}) = Cardinality(below) + 1
    BY <1>2, <1>3, FS_AddElement DEF AtMost
  <2>2. v \notin below \cup {u}
    OBVIOUS
  <2>3. IsFiniteSet((below \cup {u}) \cup {v})
        /\ Cardinality((below \cup {u}) \cup {v}) = Cardinality(below \cup {u}) + 1
    <3> HIDE DEF below
    <3> QED BY <2>1, <2>2, FS_AddElement
  <2>4. (below \cup {u}) \cup {v} \subseteq S
    OBVIOUS
  <2>5. Cardinality((below \cup {u}) \cup {v}) <= size
    <3> HIDE DEF below
    <3> QED BY <1>1, <2>4, FS_Subset
  <2>6. Cardinality(below) \in Nat
    BY <1>2 DEF AtMost
  <2> QED BY <2>1, <2>3, <2>5, <2>6 DEF Position
<1>6. CASE size <= 8
  BY <1>6 DEF Thinned
<1>7. CASE size > 8
  <2>1. PICK p : p = Position(u, S)
    OBVIOUS
  <2>2. p \in Nat /\ p + 2 <= size
    BY <1>5, <2>1
  <2>3. size \in {9, 10, 11, 12, 13, 14, 15, 16}
    BY <1>1, <1>7
  <2>4. PICK k : k = size
    OBVIOUS
  <2>5. \E i \in 0 .. 7 : (i * k) \div 8 \in {p, p + 1}
    <3> DEFINE At(i) == (i * k) \div 8
    <3> HIDE DEF size, kept
    <3> SUFFICES \E i \in 0 .. 7 : At(i) \in {p, p + 1}
      OBVIOUS
    <3>1. CASE k = 9
      <4>1. /\ At(0) = 0 /\ At(1) = 1 /\ At(2) = 2 /\ At(3) = 3
            /\ At(4) = 4 /\ At(5) = 5 /\ At(6) = 6 /\ At(7) = 7
        BY <3>1
      <4>2. p <= 7
        BY <2>2, <2>4, <3>1
      <4> HIDE DEF At
      <4> QED BY <2>2, <4>1, <4>2
    <3>2. CASE k = 10
      <4>1. /\ At(0) = 0 /\ At(1) = 1 /\ At(2) = 2 /\ At(3) = 3
            /\ At(4) = 5 /\ At(5) = 6 /\ At(6) = 7 /\ At(7) = 8
        BY <3>2
      <4>2. p <= 8
        BY <2>2, <2>4, <3>2
      <4> HIDE DEF At
      <4> QED BY <2>2, <4>1, <4>2
    <3>3. CASE k = 11
      <4>1. /\ At(0) = 0 /\ At(1) = 1 /\ At(2) = 2 /\ At(3) = 4
            /\ At(4) = 5 /\ At(5) = 6 /\ At(6) = 8 /\ At(7) = 9
        BY <3>3
      <4>2. p <= 9
        BY <2>2, <2>4, <3>3
      <4> HIDE DEF At
      <4> QED BY <2>2, <4>1, <4>2
    <3>4. CASE k = 12
      <4>1. /\ At(0) = 0 /\ At(1) = 1 /\ At(2) = 3 /\ At(3) = 4
            /\ At(4) = 6 /\ At(5) = 7 /\ At(6) = 9 /\ At(7) = 10
        BY <3>4
      <4>2. p <= 10
        BY <2>2, <2>4, <3>4
      <4> HIDE DEF At
      <4> QED BY <2>2, <4>1, <4>2
    <3>5. CASE k = 13
      <4>1. /\ At(0) = 0 /\ At(1) = 1 /\ At(2) = 3 /\ At(3) = 4
            /\ At(4) = 6 /\ At(5) = 8 /\ At(6) = 9 /\ At(7) = 11
        BY <3>5
      <4>2. p <= 11
        BY <2>2, <2>4, <3>5
      <4> HIDE DEF At
      <4> QED BY <2>2, <4>1, <4>2
    <3>6. CASE k = 14
      <4>1. /\ At(0) = 0 /\ At(1) = 1 /\ At(2) = 3 /\ At(3) = 5
            /\ At(4) = 7 /\ At(5) = 8 /\ At(6) = 10 /\ At(7) = 12
        BY <3>6
      <4>2. p <= 12
        BY <2>2, <2>4, <3>6
      <4> HIDE DEF At
      <4> QED BY <2>2, <4>1, <4>2
    <3>7. CASE k = 15
      <4>1. /\ At(0) = 0 /\ At(1) = 1 /\ At(2) = 3 /\ At(3) = 5
            /\ At(4) = 7 /\ At(5) = 9 /\ At(6) = 11 /\ At(7) = 13
        BY <3>7
      <4>2. p <= 13
        BY <2>2, <2>4, <3>7
      <4> HIDE DEF At
      <4> QED BY <2>2, <4>1, <4>2
    <3>8. CASE k = 16
      <4>1. /\ At(0) = 0 /\ At(1) = 2 /\ At(2) = 4 /\ At(3) = 6
            /\ At(4) = 8 /\ At(5) = 10 /\ At(6) = 12 /\ At(7) = 14
        BY <3>8
      <4>2. p <= 14
        BY <2>2, <2>4, <3>8
      <4> HIDE DEF At
      <4> QED BY <2>2, <4>1, <4>2
    <3> QED BY <2>3, <2>4, <3>1, <3>2, <3>3, <3>4, <3>5, <3>6, <3>7, <3>8
  <2>6. p \in kept \/ p + 1 \in kept
    BY <2>4, <2>5
  <2> QED BY <1>4, <1>7, <2>1, <2>6 DEF Thinned
<1> QED BY <1>1, <1>6, <1>7

----------------------------------------------------------------------------
(* Refunds. *)

\* A refund of n, with nothing spent.
Refund(n, facts, approved) ==
  [request |-> [tool |-> "refund", currency |-> "EUR", amount |-> n], facts |-> facts,
   labels |-> {}, spent |-> 0, approved |-> approved]

\* How freely b decides it.
RefundRank(b, n, facts, approved) ==
  IF "refund" \notin b.tools \/ n > b.most \/ (b.guarded /\ facts # "active") THEN 0
  ELSE IF (n <= b.auto /\ n <= b.session) \/ (approved /\ n <= b.approved) THEN 2
  ELSE IF ~approved /\ n <= b.approved THEN 1 ELSE 0

LEMMA RankOfRefund ==
  ASSUME NEW b \in Bundles, NEW n \in Nat, NEW facts \in {"active", "frozen", "unloaded"},
         NEW approved \in BOOLEAN
  PROVE  Rank(VerdictOf(b, Refund(n, facts, approved))) = RefundRank(b, n, facts, approved)
<1> DEFINE p == Refund(n, facts, approved)
<1>1. p \in Probe
  BY DEF Refund, Probe, Requests
<1>2. /\ p.spent = 0 /\ p.labels = {} /\ p.facts = facts /\ p.approved = approved
      /\ p.request.tool = "refund" /\ p.request.currency = "EUR" /\ p.request.amount = n
  BY DEF Refund
<1>3. /\ b.auto \in Nat /\ b.session \in Nat /\ b.approved \in Nat /\ b.most \in Nat
      /\ b.guarded \in BOOLEAN /\ MaxCounter \in Nat
  BY DiffAssumption DEF Bundles
<1> HIDE DEF p
<1>4. ActionOf(b, p) \in Decided /\ ActionOf(b, p).request = p.request /\ ActionOf(b, p).bundle = b
  BY <1>1 DEF ActionOf, Decided, Probe
<1>5. Accepted(b, p) <=> "refund" \in b.tools /\ n <= b.most
  <2>1. \A m \in {"refunded"} : [k \in {"refunded"} |-> p.spent][m] <= MaxCounter
    BY <1>2, <1>3
  <2>2. ActionOf(b, p) \in Rejected <=> "refund" \notin b.tools \/ n > b.most
    BY <1>2, <1>4 DEF Rejected
  <2> QED BY <1>3, <2>1, <2>2 DEF Accepted
<1>6. ASSUME NEW a \in BOOLEAN
      PROVE  /\ Permits(ActionOf(b, p), ContextOf(p, a))
                  <=> (n <= b.auto /\ n <= b.session) \/ (a /\ n <= b.approved)
             /\ Forbids(ActionOf(b, p), ContextOf(p, a)) <=> b.guarded /\ facts = "frozen"
             /\ Errs(ActionOf(b, p), ContextOf(p, a)) <=> b.guarded /\ facts = "unloaded"
  <2>1. ContextOf(p, a).counters["refunded"] + n = n
    BY <1>2 DEF ContextOf
  <2>2. ContextOf(p, a).approved = a /\ ContextOf(p, a).facts = facts
    BY <1>2 DEF ContextOf
  <2> QED BY <1>2, <1>4, <2>1, <2>2 DEF Permits, Forbids, Errs
<1>7. ASSUME NEW a \in BOOLEAN
      PROVE  /\ Passes(b, p, a) <=> /\ ~(b.guarded /\ facts # "active")
                                    /\ (n <= b.auto /\ n <= b.session) \/ (a /\ n <= b.approved)
             /\ Refused(b, p, a) <=> /\ ~(b.guarded /\ facts # "active")
                                     /\ ~((n <= b.auto /\ n <= b.session) \/ (a /\ n <= b.approved))
  BY <1>6 DEF Passes, Refused, Engine!Allowed, Engine!DeniedByDefault
<1>8. VerdictOf(b, p) =
        IF Accepted(b, p) /\ Passes(b, p, approved) THEN "ALLOW"
        ELSE IF Accepted(b, p) /\ Refused(b, p, approved) /\ ~approved /\ Passes(b, p, TRUE)
             THEN "REQUIRE_APPROVAL" ELSE "DENY"
  BY <1>1, <1>2, VerdictIs
<1>9. RefundRank(b, n, facts, approved) =
        IF Accepted(b, p) /\ Passes(b, p, approved) THEN 2
        ELSE IF Accepted(b, p) /\ Refused(b, p, approved) /\ ~approved /\ Passes(b, p, TRUE)
             THEN 1 ELSE 0
  <2>1. n > b.most <=> ~(n <= b.most)
    BY <1>3
  <2>2. CASE ~Accepted(b, p)
    BY <1>5, <2>1, <2>2 DEF RefundRank
  <2>3. CASE Accepted(b, p) /\ b.guarded /\ facts # "active"
    BY <1>7, <2>3 DEF RefundRank
  <2>4. CASE Accepted(b, p) /\ ~(b.guarded /\ facts # "active")
    BY <1>5, <1>7, <2>1, <2>4 DEF RefundRank
  <2> QED BY <2>2, <2>3, <2>4
<1>10. Rank(VerdictOf(b, p)) = RefundRank(b, n, facts, approved)
  BY <1>8, <1>9 DEF Rank
<1> QED BY <1>10 DEF p

\* c decides a refund of n more freely than b.
Frees(b, c, n, facts, approved) ==
  /\ "refund" \in b.tools \cap c.tools
  /\ RefundRank(c, n, facts, approved) > RefundRank(b, n, facts, approved)

LEMMA FreedRefund ==
  ASSUME NEW b \in Bundles, NEW c \in Bundles, NEW n \in Nat,
         NEW facts \in {"active", "frozen", "unloaded"}, NEW approved \in BOOLEAN
  PROVE  Freer(b, c, Refund(n, facts, approved)) <=> Frees(b, c, n, facts, approved)
<1>1. Refund(n, facts, approved).request.tool = "refund"
  BY DEF Refund
<1> QED BY <1>1, RankOfRefund DEF Freer, Frees

----------------------------------------------------------------------------
(* One change. *)

Limits == {"auto", "session", "approved", "most", "guarded"}

\* Of what a refund is decided by, nothing but one field was changed.
OnlyIn(field, b, c) == \A f \in Limits \ {field} : c[f] = b[f]

OneEdit(b, c) ==
  \/ \E field \in Caps \cup {"most"}, n \in Sizes : c = [b EXCEPT ![field] = n]
  \/ c = [b EXCEPT !.guarded = ~@]
  \/ \E seal \in Seals : c \in {[b EXCEPT !.seals = @ \cup {seal}],
                                [b EXCEPT !.seals = {seal}], [b EXCEPT !.seals = {}]}
  \/ \E h \in Hosts : c \in {[b EXCEPT !.listed = @ \cup {h}], [b EXCEPT !.listed = @ \ {h}]}
  \/ c \in {[b EXCEPT !.tools = @ \cup {"fetch"}], [b EXCEPT !.tools = @ \ {"fetch"}]}

LEMMA EditIsInOneField ==
  ASSUME NEW b \in Bundles, NEW c, OneEdit(b, c)
  PROVE  \E field \in Limits : OnlyIn(field, b, c)
<1>1. CASE \E field \in Caps \cup {"most"}, n \in Sizes : c = [b EXCEPT ![field] = n]
  <2>1. PICK field \in Caps \cup {"most"}, n \in Sizes : c = [b EXCEPT ![field] = n]
    BY <1>1
  <2>2. field \in Limits /\ OnlyIn(field, b, c)
    BY <2>1 DEF OnlyIn, Limits, Caps, Bundles
  <2> QED BY <2>2
<1>2. CASE c = [b EXCEPT !.guarded = ~@]
  <2>1. OnlyIn("guarded", b, c)
    BY <1>2 DEF OnlyIn, Limits, Bundles
  <2> QED BY <2>1 DEF Limits
<1>3. CASE \/ \E seal \in Seals : c \in {[b EXCEPT !.seals = @ \cup {seal}],
                                         [b EXCEPT !.seals = {seal}],
                                         [b EXCEPT !.seals = {}]}
           \/ \E h \in Hosts : c \in {[b EXCEPT !.listed = @ \cup {h}], [b EXCEPT !.listed = @ \ {h}]}
           \/ c \in {[b EXCEPT !.tools = @ \cup {"fetch"}], [b EXCEPT !.tools = @ \ {"fetch"}]}
  <2>1. OnlyIn("guarded", b, c)
    BY <1>3 DEF OnlyIn, Limits, Bundles
  <2> QED BY <2>1 DEF Limits
<1> QED BY <1>1, <1>2, <1>3 DEF OneEdit

LEMMA BranchIsOneEdit ==
  DiffSpec => [](branch = main \/ OneEdit(main, branch))
<1> DEFINE Inv == branch = main \/ OneEdit(main, branch)
<1>1. DiffInit => Inv
  BY DEF DiffInit
<1>2. Inv /\ [DiffNext]_diffVars => Inv'
  <2> SUFFICES ASSUME Inv, [DiffNext]_diffVars
               PROVE  Inv'
    OBVIOUS
  <2>1. CASE Edit
    BY <2>1 DEF Edit, OneEdit
  <2>2. CASE \E allowed \in BOOLEAN : Merge(allowed)
    BY <2>2 DEF Merge
  <2>3. CASE UNCHANGED diffVars
    BY <2>3 DEF diffVars
  <2> QED BY <2>1, <2>2, <2>3 DEF DiffNext
<1> QED BY <1>1, <1>2, PTL DEF DiffSpec

\* What one change frees is a range: with two amounts, what lies between.
LEMMA FreedIsARange ==
  ASSUME NEW b \in Bundles, NEW c \in Bundles, NEW field \in Limits, OnlyIn(field, b, c),
         NEW facts, NEW approved \in BOOLEAN, NEW x \in Nat, NEW y \in Nat, NEW z \in Nat,
         x <= z, z <= y,
         Frees(b, c, x, facts, approved), Frees(b, c, y, facts, approved)
  PROVE  Frees(b, c, z, facts, approved)
<1>1. /\ b.auto \in Nat /\ b.session \in Nat /\ b.approved \in Nat /\ b.most \in Nat
      /\ c.auto \in Nat /\ c.session \in Nat /\ c.approved \in Nat /\ c.most \in Nat
      /\ b.guarded \in BOOLEAN /\ c.guarded \in BOOLEAN
  BY DEF Bundles
<1>2. CASE field = "auto"
  <2>1. c.session = b.session /\ c.approved = b.approved /\ c.most = b.most /\ c.guarded = b.guarded
    BY <1>2 DEF OnlyIn, Limits
  <2> QED BY <1>1, <2>1 DEF Frees, RefundRank
<1>3. CASE field = "session"
  <2>1. c.auto = b.auto /\ c.approved = b.approved /\ c.most = b.most /\ c.guarded = b.guarded
    BY <1>3 DEF OnlyIn, Limits
  <2> QED BY <1>1, <2>1 DEF Frees, RefundRank
<1>4. CASE field = "approved"
  <2>1. c.auto = b.auto /\ c.session = b.session /\ c.most = b.most /\ c.guarded = b.guarded
    BY <1>4 DEF OnlyIn, Limits
  <2> QED BY <1>1, <2>1 DEF Frees, RefundRank
<1>5. CASE field = "most"
  <2>1. c.auto = b.auto /\ c.session = b.session /\ c.approved = b.approved /\ c.guarded = b.guarded
    BY <1>5 DEF OnlyIn, Limits
  <2> QED BY <1>1, <2>1 DEF Frees, RefundRank
<1>6. CASE field = "guarded"
  <2>1. c.auto = b.auto /\ c.session = b.session /\ c.approved = b.approved /\ c.most = b.most
    BY <1>6 DEF OnlyIn, Limits
  <2> QED BY <1>1, <2>1 DEF Frees, RefundRank
<1> QED BY <1>2, <1>3, <1>4, <1>5, <1>6 DEF Limits

\* Where no cap lies between two amounts both accept, they are freed alike.
LEMMA FreedAlike ==
  ASSUME NEW b \in Bundles, NEW c \in Bundles, NEW facts, NEW approved \in BOOLEAN,
         NEW x \in Nat, NEW u \in Nat, \A l \in Literals(b, c) : x <= l <=> u <= l,
         x <= b.most /\ u <= b.most /\ x <= c.most /\ u <= c.most,
         Frees(b, c, x, facts, approved)
  PROVE  Frees(b, c, u, facts, approved)
<1>1. /\ b.auto \in Nat /\ b.session \in Nat /\ b.approved \in Nat /\ b.most \in Nat
      /\ c.auto \in Nat /\ c.session \in Nat /\ c.approved \in Nat /\ c.most \in Nat
  BY DEF Bundles
<1>2. /\ x <= b.auto <=> u <= b.auto
      /\ x <= b.session <=> u <= b.session
      /\ x <= b.approved <=> u <= b.approved
      /\ x <= c.auto <=> u <= c.auto
      /\ x <= c.session <=> u <= c.session
      /\ x <= c.approved <=> u <= c.approved
  BY DEF Literals, Caps
<1>3. RefundRank(b, u, facts, approved) = RefundRank(b, x, facts, approved)
  BY <1>1, <1>2 DEF RefundRank
<1>4. RefundRank(c, u, facts, approved) = RefundRank(c, x, facts, approved)
  BY <1>1, <1>2 DEF RefundRank
<1> QED BY <1>3, <1>4 DEF Frees

----------------------------------------------------------------------------
(* What is tried. *)

\* Two amounts that follow one another lie each on one side with a boundary value,
\* of two that follow one another.
LEMMA Neighbours ==
  ASSUME NEW literals \in SUBSET Nat, NEW high \in Nat, NEW x \in Nat, 1 <= x, x < high
  PROVE  \E u, v \in Boundaries(1, high, literals) :
           /\ u <= x /\ x + 1 <= v
           /\ \A w \in Boundaries(1, high, literals) : w <= u \/ v <= w
           /\ \A l \in literals : (x <= l <=> u <= l) /\ (x + 1 <= l <=> v <= l)
<1> DEFINE S == Boundaries(1, high, literals)
<1>1. /\ 1 \in S /\ high \in S /\ S \in SUBSET Nat
      /\ \A w \in S : w <= high
  BY DEF Boundaries
<1>2. \A l \in literals : /\ 1 <= l /\ l <= high => l \in S
                          /\ l + 1 <= high => l + 1 \in S
  <2> SUFFICES ASSUME NEW l \in literals
               PROVE  /\ 1 <= l /\ l <= high => l \in S
                      /\ l + 1 <= high => l + 1 \in S
    OBVIOUS
  <2>1. l \in Nat /\ l \in l - 1 .. l + 1 /\ l + 1 \in l - 1 .. l + 1 /\ 1 <= l + 1
    OBVIOUS
  <2>2. {l, l + 1} \subseteq UNION {k - 1 .. k + 1 : k \in literals}
    BY <2>1
  <2> QED BY <2>1, <2>2 DEF Boundaries
<1> HIDE DEF S
<1>3. PICK u \in S : u <= x /\ \A w \in S : w <= x => w <= u
  BY <1>1, GreatestUpTo
<1>4. PICK v \in {w \in S : x + 1 <= w} : \A w \in {w \in S : x + 1 <= w} : v <= w
  <2>1. x + 1 <= high
    OBVIOUS
  <2>2. {w \in S : x + 1 <= w} \in SUBSET Nat /\ high \in {w \in S : x + 1 <= w}
    BY <1>1, <2>1
  <2> QED BY <2>2, LeastNat
<1>5. u \in Nat /\ v \in Nat /\ v \in S /\ x + 1 <= v /\ v <= high
  BY <1>1, <1>3, <1>4
<1>6. \A w \in S : w <= u \/ v <= w
  BY <1>1, <1>3, <1>4
<1>7. ASSUME NEW l \in literals
      PROVE  (x <= l <=> u <= l) /\ (x + 1 <= l <=> v <= l)
  <2>1. l \in Nat
    OBVIOUS
  <2>2. ASSUME u <= l, ~(x <= l)
        PROVE  FALSE
    <3>1. l + 1 <= x /\ l + 1 <= high
      BY <2>1, <2>2
    <3>2. l + 1 <= u
      BY <1>2, <1>3, <3>1
    <3> QED BY <1>5, <2>1, <2>2, <3>2
  <2>3. ASSUME x + 1 <= l, ~(v <= l)
        PROVE  FALSE
    <3>1. 1 <= l /\ l <= high
      BY <1>5, <2>1, <2>3
    <3>2. v <= l
      BY <1>2, <1>4, <2>3, <3>1
    <3> QED BY <2>3, <3>2
  <2> QED BY <1>3, <1>5, <2>1, <2>2, <2>3
<1> QED BY <1>3, <1>5, <1>6, <1>7 DEF S

\* Every literal brings three values, the bounds two.
LEMMA BoundariesOfFour ==
  ASSUME NEW l1 \in Nat, NEW l2 \in Nat, NEW l3 \in Nat, NEW l4 \in Nat,
         NEW literals \in SUBSET {l1, l2, l3, l4}, NEW low, NEW high
  PROVE  AtMost(Boundaries(low, high, literals), 16)
<1>1. PICK A1, A2, A3, A4 : /\ A1 = l1 - 1 .. l1 + 1
                            /\ A2 = l2 - 1 .. l2 + 1
                            /\ A3 = l3 - 1 .. l3 + 1
                            /\ A4 = l4 - 1 .. l4 + 1
  OBVIOUS
<1>2. AtMost(A1, 3) /\ AtMost(A2, 3) /\ AtMost(A3, 3) /\ AtMost(A4, 3)
  BY <1>1, AtMostAround
<1>3. Boundaries(low, high, literals) \subseteq ({low, high} \cup (A1 \cup A2)) \cup (A3 \cup A4)
  BY <1>1 DEF Boundaries
<1>4. AtMost(A1 \cup A2, 6) /\ AtMost(A3 \cup A4, 6)
  BY <1>2, AtMostUnion, 3 + 3 <= 6
<1>5. AtMost({low, high} \cup (A1 \cup A2), 8)
  BY <1>4, AtMostTwo, AtMostUnion, 2 + 6 <= 8
<1>6. AtMost(({low, high} \cup (A1 \cup A2)) \cup (A3 \cup A4), 16)
  BY <1>4, <1>5, AtMostUnion, 8 + 6 <= 16
<1> QED BY <1>3, <1>6, AtMostSubset

LEMMA FewBoundaries ==
  ASSUME NEW b \in Bundles, NEW c \in Bundles, NEW field \in Limits, OnlyIn(field, b, c),
         NEW low, NEW high
  PROVE  AtMost(Boundaries(low, high, Literals(b, c)), 16)
<1>1. /\ b.auto \in Nat /\ b.session \in Nat /\ b.approved \in Nat
      /\ c.auto \in Nat /\ c.session \in Nat /\ c.approved \in Nat
  BY DEF Bundles
<1>2. \E l \in Nat : Literals(b, c) \subseteq {b.auto, b.session, b.approved, l}
  <2>1. CASE field = "auto"
    <3>1. c.session = b.session /\ c.approved = b.approved
      BY <2>1 DEF OnlyIn, Limits
    <3>2. Literals(b, c) \subseteq {b.auto, b.session, b.approved, c.auto}
      BY <3>1 DEF Literals, Caps
    <3> QED BY <1>1, <3>2
  <2>2. CASE field = "session"
    <3>1. c.auto = b.auto /\ c.approved = b.approved
      BY <2>2 DEF OnlyIn, Limits
    <3>2. Literals(b, c) \subseteq {b.auto, b.session, b.approved, c.session}
      BY <3>1 DEF Literals, Caps
    <3> QED BY <1>1, <3>2
  <2>3. CASE field \notin {"auto", "session"}
    <3>1. c.auto = b.auto /\ c.session = b.session
      BY <2>3 DEF OnlyIn, Limits
    <3>2. Literals(b, c) \subseteq {b.auto, b.session, b.approved, c.approved}
      BY <3>1 DEF Literals, Caps
    <3> QED BY <1>1, <3>2
  <2> QED BY <2>1, <2>2, <2>3
<1>3. PICK l \in Nat : Literals(b, c) \subseteq {b.auto, b.session, b.approved, l}
  BY <1>2
<1> QED BY <1>1, <1>3, BoundariesOfFour

\* The amounts that are tried.
Tried(b, c) == Thinned(Boundaries(1, c.most, Literals(b, c)), 8)

\* A change of a cap or of a guardrail that frees two amounts frees one that
\* is tried.
LEMMA FreedCapIsTried ==
  ASSUME NEW b \in Bundles, NEW c \in Bundles, NEW field \in Limits, OnlyIn(field, b, c),
         field # "most", NEW facts, NEW approved \in BOOLEAN,
         NEW x \in Nat, NEW y \in Nat, 1 <= x, x < y, y <= c.most,
         Frees(b, c, x, facts, approved), Frees(b, c, y, facts, approved)
  PROVE  \E n \in Tried(b, c) : Frees(b, c, n, facts, approved)
<1> DEFINE literals == Literals(b, c)
           S == Boundaries(1, c.most, literals)
<1>1. c.most \in Nat /\ b.most = c.most
  BY DEF OnlyIn, Limits, Bundles
<1>2. Frees(b, c, x + 1, facts, approved)
  BY FreedIsARange
<1>3. literals \in SUBSET Nat
  BY DEF Literals, Caps, Bundles
<1>4. S \in SUBSET Nat /\ \A w \in S : w <= c.most
  BY <1>1, <1>3 DEF Boundaries
<1>5. AtMost(S, 16)
  BY FewBoundaries
<1>6. 1 <= x /\ x < c.most
  BY <1>1
<1>7. PICK u, v \in S : /\ u <= x /\ x + 1 <= v
                        /\ \A w \in S : w <= u \/ v <= w
                        /\ \A l \in literals : (x <= l <=> u <= l) /\ (x + 1 <= l <=> v <= l)
  <2> HIDE DEF literals
  <2> QED BY <1>1, <1>3, <1>6, Neighbours
<1>8. u \in Nat /\ v \in Nat /\ u <= c.most /\ v <= c.most /\ u < v
  BY <1>4, <1>7
<1>9. Frees(b, c, u, facts, approved)
  BY <1>1, <1>7, <1>8, FreedAlike
<1>10. Frees(b, c, v, facts, approved)
  BY <1>1, <1>2, <1>7, <1>8, FreedAlike
<1>11. u \in Thinned(S, 8) \/ v \in Thinned(S, 8)
  <2> HIDE DEF S
  <2> QED BY <1>4, <1>5, <1>7, <1>8, OneOfTwoIsKept
<1> QED BY <1>9, <1>10, <1>11 DEF Tried

\* So does a change of the largest amount, which is no literal: it frees what lies
\* above the old one, up to a cap or, where the caps are higher, to the new
\* one, and then there are so few values that none is dropped.
LEMMA FreedMostIsTried ==
  ASSUME NEW b \in Bundles, NEW c \in Bundles, OnlyIn("most", b, c),
         NEW facts, NEW approved \in BOOLEAN,
         NEW x \in Nat, NEW y \in Nat, 1 <= x, x < y, y <= c.most,
         Frees(b, c, x, facts, approved), Frees(b, c, y, facts, approved)
  PROVE  \E n \in Tried(b, c) : Frees(b, c, n, facts, approved)
<1> DEFINE literals == {b.auto, b.session, b.approved}
           S == Boundaries(1, c.most, literals)
           lower == IF b.auto <= b.session THEN b.auto ELSE b.session
           top == IF b.approved <= lower THEN lower ELSE b.approved
<1>1. /\ b.auto \in Nat /\ b.session \in Nat /\ b.approved \in Nat /\ b.most \in Nat
      /\ c.most \in Nat /\ b.guarded \in BOOLEAN
  BY DEF Bundles
<1>2. c.auto = b.auto /\ c.session = b.session /\ c.approved = b.approved /\ c.guarded = b.guarded
  BY DEF OnlyIn, Limits
<1>3. Literals(b, c) = literals
  BY <1>2 DEF Literals, Caps
<1>4. top \in literals /\ top \in Nat
  BY <1>1
<1>5. PICK T \in Nat : T = top
  BY <1>4
<1>6. ASSUME NEW n \in Nat
      PROVE  (n <= b.auto /\ n <= b.session) \/ n <= b.approved <=> n <= T
  BY <1>1, <1>5
<1>7. T \in literals
  BY <1>4, <1>5
<1> HIDE DEF top, lower
<1>8. ASSUME NEW n \in Nat, Frees(b, c, n, facts, approved)
      PROVE  b.most < n /\ n <= T
  <2>1. b.most < n
    BY <1>1, <1>2, <1>8 DEF Frees, RefundRank
  <2>2. n <= T
    BY <1>1, <1>2, <1>6, <1>8 DEF Frees, RefundRank
  <2> QED BY <2>1, <2>2
<1>9. ASSUME NEW n \in Nat, b.most < n, n <= c.most, n <= T
      PROVE  Frees(b, c, n, facts, approved)
  <2>1. "refund" \in b.tools \cap c.tools /\ ~(c.guarded /\ facts # "active")
    BY <1>1, <1>2 DEF Frees, RefundRank
  <2>2. RefundRank(b, n, facts, approved) = 0
    BY <1>1, <1>9 DEF RefundRank
  <2>3. ~(n > c.most) /\ ((n <= c.auto /\ n <= c.session) \/ n <= c.approved)
    BY <1>1, <1>2, <1>6, <1>9
  <2>4. RefundRank(c, n, facts, approved) \in {1, 2}
    BY <2>1, <2>3 DEF RefundRank
  <2> QED BY <2>1, <2>2, <2>4 DEF Frees
<1>10. b.most < x /\ y <= T
  BY <1>8
<1>11. S \in SUBSET Nat /\ \A w \in S : w <= c.most
  <2>1. literals \in SUBSET Nat
    BY <1>1
  <2> QED BY <1>1, <2>1 DEF Boundaries
<1>12. CASE T <= c.most
  <2>1. /\ T - 1 \in Nat /\ T \in Nat /\ x <= T - 1 /\ T - 1 < T /\ 1 <= T - 1
        /\ T - 1 \in T - 1 .. T + 1 /\ T \in T - 1 .. T + 1 /\ T - 1 <= c.most
    BY <1>1, <1>10, <1>12
  <2>2. {T - 1, T} \subseteq UNION {l - 1 .. l + 1 : l \in literals}
    BY <1>7, <2>1
  <2>3. T - 1 \in S /\ T \in S
    BY <1>12, <2>1, <2>2 DEF Boundaries
  <2>4. Frees(b, c, T - 1, facts, approved) /\ Frees(b, c, T, facts, approved)
    BY <1>1, <1>9, <1>10, <1>12, <2>1
  <2>5. AtMost(S, 16)
    BY <1>3, FewBoundaries DEF Limits
  <2>6. \A w \in S : w <= T - 1 \/ T <= w
    BY <1>11, <2>1
  <2>7. T - 1 \in Thinned(S, 8) \/ T \in Thinned(S, 8)
    <3> HIDE DEF S
    <3> QED BY <1>11, <2>1, <2>3, <2>5, <2>6, OneOfTwoIsKept
  <2> QED BY <1>3, <2>4, <2>7 DEF Tried
<1>13. CASE c.most < T
  <2>1. PICK k1 \in Nat, k2 \in Nat : literals = {T, k1, k2}
    BY <1>1, <1>7
  <2>2. S \subseteq {1, c.most} \cup ((k1 - 1 .. k1 + 1) \cup (k2 - 1 .. k2 + 1))
    <3> SUFFICES ASSUME NEW w \in S, w \in T - 1 .. T + 1
                 PROVE  w = c.most
      BY <2>1 DEF Boundaries
    <3>1. w \in Nat /\ w <= c.most
      BY <1>11
    <3> QED BY <1>1, <1>13, <3>1
  <2>3. PICK A1, A2 : A1 = k1 - 1 .. k1 + 1 /\ A2 = k2 - 1 .. k2 + 1
    OBVIOUS
  <2>4. AtMost(A1, 3) /\ AtMost(A2, 3)
    BY <2>3, AtMostAround
  <2>5. AtMost(A1 \cup A2, 6)
    BY <2>4, AtMostUnion, 3 + 3 <= 6
  <2>6. AtMost({1, c.most} \cup (A1 \cup A2), 8)
    BY <2>5, AtMostTwo, AtMostUnion, 2 + 6 <= 8
  <2>7. AtMost(S, 8)
    <3>1. PICK all : all = {1, c.most} \cup (A1 \cup A2)
      OBVIOUS
    <3>2. S \in SUBSET all
      BY <2>2, <2>3, <3>1
    <3>3. AtMost(all, 8)
      BY <2>6, <3>1
    <3> HIDE DEF S
    <3> QED BY <3>2, <3>3, AtMostSubset
  <2>8. Thinned(S, 8) = S
    BY <2>7 DEF AtMost, Thinned
  <2>9. c.most \in S
    BY <1>1, <1>10 DEF Boundaries
  <2>10. Frees(b, c, c.most, facts, approved)
    BY <1>1, <1>9, <1>10, <1>13
  <2> QED BY <1>3, <2>8, <2>9, <2>10 DEF Tried
<1> QED BY <1>1, <1>12, <1>13

\* What one change frees of two amounts, a probe shows.
LEMMA FreedIsTried ==
  ASSUME MaxPerDimension = 8,
         NEW b \in Bundles, NEW c \in Bundles, NEW field \in Limits, OnlyIn(field, b, c),
         NEW facts \in {"active", "frozen", "unloaded"}, NEW approved \in BOOLEAN,
         NEW x \in Nat, NEW y \in Nat, 1 <= x, x < y, y <= c.most,
         Frees(b, c, x, facts, approved), Frees(b, c, y, facts, approved)
  PROVE  Widens(b, c)
<1> DEFINE spent == Firsts(Thinned(Boundaries(0, MaxCounter, Literals(b, c)), MaxPerDimension), 4)
<1>1. PICK n \in Tried(b, c) : Frees(b, c, n, facts, approved)
  BY FreedCapIsTried, FreedMostIsTried
<1>2. n \in Nat
  <2>1. c.most \in Nat
    BY DEF Bundles
  <2> QED BY <2>1, BoundariesTyped, ThinnedIsPart DEF Tried
<1>3. 0 \in spent
  BY ZeroIsTried
<1> HIDE DEF spent
<1>4. [tool |-> "refund", currency |-> "EUR", amount |-> n] \in Amounts(Tried(b, c))
  BY DEF Amounts
<1>5. Refund(n, facts, approved)
        \in ProbesOf(Amounts(Tried(b, c)), {"active", "frozen", "unloaded"}, spent)
  BY <1>3, <1>4 DEF ProbesOf, Refund, LabelSets
<1>6. Refund(n, facts, approved) \in Probes(b, c)
  BY <1>5 DEF Probes, Tried, spent
<1>7. Freer(b, c, Refund(n, facts, approved))
  BY <1>1, <1>2, FreedRefund
<1> QED BY <1>6, <1>7 DEF Widens

\* However large the caps and wherever they lie, no merge nobody owned up to
\* frees two amounts of a fresh session: for any bundles, hosts, labels and counter,
\* with the eight values a dimension that diff.py keeps.
THEOREM RefundsAreSeen ==
  ASSUME MaxPerDimension = 8
  PROVE  DiffSpec => TwoAmountsAreSeen
<1> DEFINE Few(b, c) ==
      \A facts \in {"active", "frozen", "unloaded"}, approved \in BOOLEAN :
        Cardinality(NewAmounts(b, c, facts, approved)) <= 1
<1>1. ASSUME NEW b \in Bundles, NEW c \in Bundles, OneEdit(b, c), ~Widens(b, c)
      PROVE  Few(b, c)
  <2> SUFFICES ASSUME NEW facts \in {"active", "frozen", "unloaded"}, NEW approved \in BOOLEAN
               PROVE  Cardinality(NewAmounts(b, c, facts, approved)) <= 1
    OBVIOUS
  <2> DEFINE N == NewAmounts(b, c, facts, approved)
  <2>1. PICK field \in Limits : OnlyIn(field, b, c)
    BY <1>1, EditIsInOneField
  <2>2. c.most \in Nat
    BY DEF Bundles
  <2>3. \A n \in N : /\ n \in Nat /\ 1 <= n /\ n <= c.most
                     /\ Frees(b, c, n, facts, approved)
    BY <2>2, FreedRefund DEF NewAmounts, Refund
  <2> HIDE DEF N
  <2>4. \A x, y \in N : ~(x < y)
    BY <1>1, <2>1, <2>3, FreedIsTried
  <2>5. \A x, y \in N : x = y
    BY <2>3, <2>4
  <2>6. N = {} \/ \E x : N = {x}
    BY <2>5
  <2>7. Cardinality(N) <= 1
    <3>1. CASE N = {}
      BY <3>1, FS_EmptySet
    <3>2. ASSUME NEW x, N = {x}
          PROVE  Cardinality(N) <= 1
      <4>1. Cardinality({x}) = 1
        BY FS_Singleton
      <4> QED BY <3>2, <4>1
    <3> QED BY <2>6, <3>1, <3>2
  <2> QED BY <2>7 DEF N
<1>2. DiffTypeOK /\ (branch = main \/ OneEdit(main, branch)) /\ [DiffNext]_diffVars
        => [main' # main /\ ~acknowledged' => Few(main, main')]_diffVars
  <2> SUFFICES ASSUME DiffTypeOK, branch = main \/ OneEdit(main, branch), [DiffNext]_diffVars,
                      main' # main, ~acknowledged'
               PROVE  Few(main, main')
    OBVIOUS
  <2>1. ~Widens(main, branch) /\ main' = branch
    BY DEF DiffNext, Edit, Merge, diffVars
  <2> HIDE DEF Few
  <2> QED BY <1>1, <2>1 DEF DiffTypeOK
<1> QED BY <1>2, HistoryTyped, BranchIsOneEdit, PTL DEF DiffSpec, TwoAmountsAreSeen
=============================================================================
