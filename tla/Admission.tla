----------------------------- MODULE Admission ------------------------------
(***************************************************************************)
(* From a tool's declaration to a decided call: what the manifest accepts  *)
(* when the bundle is loaded (core/manifest.py), and what canonicalize(),  *)
(* budget_reservation() and the entity store of evaluate() then make of a  *)
(* call (core/canonical.py, ledger.py, bundle.py).  The tool has one       *)
(* argument, of any kind and required or not; its resource is that         *)
(* argument, a field of it, or fixed.                                      *)
(***************************************************************************)
EXTENDS Canonical

CONSTANTS
  None,           \* no field is named
  Declarations,   \* what a manifest may say of the tool
  Calls(_),       \* what an agent may send to a tool with this argument
  Listed,         \* allowlisted hosts: the bundle's configuration entities
  Opened          \* ids of facts the shell may load, beside the resource's own

\* Numbers are numbers, switches are switches, and what an agent sends has been
\* parsed.
ASSUME AdmissionAssumption ==
  /\ None \notin {"currency", "domain", "host", "minor", "name", "port", "scheme"}
  /\ \A t \in Declarations : {t.optional, t.from, t.parents, t.budget} \subseteq BOOLEAN
  /\ \A arg \in {t.arg : t \in Declarations} :
       /\ arg.kind \in Kinds
       /\ arg.kind \in {"int", "money", "template"} => {arg.low, arg.high} \subseteq Int
       /\ arg.kind = "path" /\ arg.confined => arg.under \in Seq(Names)
       /\ Calls(arg) \subseteq Value
  /\ Listed \subseteq Seq(STRING)

VARIABLES tool, stage, call, action

admissionVars == <<tool, stage, call, action>>

\* What stands for an exception other than Rejection, and for an argument the
\* call does not have.
Failure == [kind |-> "failure"]
Omitted == [kind |-> "omitted"]

ConfigTypes   == {"HostSuffix"}
SnapshotTypes == {"Account"}

----------------------------------------------------------------------------
(* Manifest.parse(): each argument, then the tool. *)

\* The fields of a canonical value a policy can read, as far as they are
\* modelled; TRUE says the field is an integer.
Fields(kind) ==
  CASE kind = "email" -> [domain |-> FALSE]
    [] kind = "url"   -> [host |-> FALSE, scheme |-> FALSE, port |-> TRUE]
    [] kind = "money" -> [minor |-> TRUE, currency |-> FALSE]
    [] kind = "template" -> [name |-> FALSE]
    [] OTHER -> [n \in {} |-> FALSE]

ArgOk(arg) ==
  /\ arg.kind \in {"int", "money", "template"} => arg.low <= arg.high
  /\ arg.kind = "money" => 0 <= arg.low /\ arg.currencies \subseteq DOMAIN Exponent

\* Mutants: any field may be named; a spend may be negative.
ResourceOkAnyField(t) == t.from => t.arg.kind \in {"email", "id", "path", "template", "url"}

ResourceOk(t) ==
  /\ t.from => t.arg.kind \in {"email", "id", "path", "template", "url"}
  /\ IF t.from /\ t.arg.kind \in {"email", "template", "url"}
     THEN t.field \in DOMAIN Fields(t.arg.kind) ELSE t.field = None
  /\ t.parents => t.from

BudgetOkNegative(t) ==
  t.budget =>
    IF t.arg.kind = "int" THEN t.budgetField = None
    ELSE t.budgetField \in DOMAIN Fields(t.arg.kind) /\ Fields(t.arg.kind)[t.budgetField]

BudgetOk(t) ==
  t.budget =>
    IF t.arg.kind = "int" THEN t.budgetField = None /\ t.arg.low >= 0
    ELSE t.budgetField \in DOMAIN Fields(t.arg.kind) /\ Fields(t.arg.kind)[t.budgetField]

\* Mutant: a derived resource may have any type.
NoClashUnchecked(t) == TRUE

\* A derived resource entity must not collide with config or snapshot data.
NoClash(t) == t.parents => t.type \notin ConfigTypes \cup SnapshotTypes

ToolOk(t) == ArgOk(t.arg) /\ ResourceOk(t) /\ BudgetOk(t) /\ NoClash(t)

----------------------------------------------------------------------------
(* canonicalize() of a call to a loaded tool. *)

\* The field is not there to be read; what is read is text.
Missing(t, v) == t.field # None /\ t.field \notin DOMAIN v

IsText(t, v) ==
  t.field \in {"host", "domain", "scheme", "name"} \/ v.kind \in {"path", "id"}

\* The id a canonical value v gives the resource, as a sequence of its parts.
ResourceOf(t, v) ==
  CASE t.field \in {"host", "domain"} -> v[t.field]
    [] t.field \in {"scheme", "name"} -> <<v[t.field]>>
    [] v.kind = "path" -> v.segments
    [] v.kind = "id" -> v.value

\* host_suffixes() of the id, whatever text it is: a path has no dots.
ParentsOf(t, resource) ==
  IF t.parents /\ t.arg.kind # "path" THEN HostSuffixes(resource) ELSE {}

\* A fixed resource has no derived parents; the argument a resource is taken
\* from is read whether it is there or not.
Canonicalize(t, sent) ==
  LET value    == IF sent = Omitted THEN Omitted ELSE CanonicalValue(t.arg, sent)
      resource == IF t.from THEN ResourceOf(t, value) ELSE <<"fixed">>
  IN  IF (sent = Omitted /\ ~t.optional) \/ value = Rejection THEN Rejection
      ELSE IF t.from /\ (sent = Omitted \/ Missing(t, value)) THEN Failure
      ELSE IF t.from /\ ~IsText(t, value) THEN Rejection
      ELSE [kind |-> "action", value |-> value, resource |-> resource,
            parents |-> ParentsOf(t, resource)]

\* budget_reservation(): an argument that was not sent reserves nothing.
Reservation(t, a) ==
  IF ~t.budget \/ a.value = Omitted THEN 0
  ELSE IF t.budgetField # None /\ t.budgetField \notin DOMAIN a.value THEN Failure
  ELSE IF t.budgetField # None THEN a.value[t.budgetField]
  ELSE IF a.value.kind = "int" THEN a.value.value ELSE Rejection

Uids(type, ids) == {<<type, id>> : id \in ids}

\* check_snapshot(): facts are of the snapshot's entity types.
FactsOk(facts) == \A fact \in facts : fact[1] \in SnapshotTypes

\* evaluate(): the resource hangs under the entities derived for it.
Beneath(a, listed) == a.parents \cap listed # {}

----------------------------------------------------------------------------
AdmissionInit ==
  /\ tool \in Declarations
  /\ stage = "declared"
  /\ call = Omitted
  /\ action = Rejection

Load ==
  /\ stage = "declared"
  /\ stage' = IF ToolOk(tool) THEN "loaded" ELSE "refused"
  /\ UNCHANGED <<tool, call, action>>

Submit(sent) ==
  /\ stage = "loaded"
  /\ stage' = "called"
  /\ call' = sent
  /\ action' = Canonicalize(tool, sent)
  /\ UNCHANGED tool

AdmissionNext == Load \/ \E sent \in Calls(tool.arg) \cup {Omitted} : Submit(sent)

AdmissionSpec == AdmissionInit /\ [][AdmissionNext]_admissionVars

----------------------------------------------------------------------------
Acted == stage = "called" /\ action \notin {Rejection, Failure}

\* A bundle that loads has no call that fails: each becomes an action or a
\* recorded refusal, except where an optional argument is the resource.
CallsEndInAVerdict ==
  action = Failure => call = Omitted /\ tool.optional /\ tool.from

\* What runs is what was checked: the text handed to the runner, read again,
\* is the very value that was decided on, for every kind of argument.
WireReadsBack ==
  Acted /\ action.value # Omitted =>
    CanonicalValue(tool.arg, WireValue(action.value)) = action.value

\* Whatever dots and slashes a call uses, and however the sandbox itself is
\* spelt, the file opened, step by step from the root, lies in the sandbox.
PathStaysInside ==
  Acted /\ tool.arg.kind = "path" /\ action.value # Omitted /\ tool.arg.confined =>
    IsPrefix(Walk(tool.arg.under), Walk(WireValue(action.value).segments))

\* A host, or an id with dots in it, is under an allowlist exactly when it is a
\* listed one or ends in a dot and a listed one; listing a top-level label alone
\* lists nothing.
AllowlistedMeansBeneath ==
  Acted /\ tool.parents /\ tool.arg.kind # "path" =>
    (Beneath(action, Listed) <=>
       \E d \in Listed : Len(d) >= 2 /\ IsSuffix(d, action.resource))

\* An amount is exact: in minor units it is what was written, to the digit.
MoneyIsExact ==
  Acted /\ tool.arg.kind = "money" /\ call # Omitted =>
    action.value.minor * 10 ^ Len(call.digits) =
      (call.whole * 10 ^ Len(call.digits) + Number(call.digits)) * 10 ^ Exponent[call.currency]

\* Once a call is allowed its reservation is written: what its budget says is
\* an amount the ledger accepts.
ReservationFits == Acted => Reservation(tool, action) \in Nat

\* The store a call is decided on has no entity twice, whatever facts came
\* with the snapshot: the engine refuses one that has.
NoEntityTwice ==
  Acted =>
    \A facts \in SUBSET (Uids("Account", Opened \cup {action.resource})
                           \cup Uids("HostSuffix", Listed)) :
      FactsOk(facts) =>
        /\ facts \cap Uids("HostSuffix", Listed) = {}
        /\ tool.parents =>
             <<tool.type, action.resource>> \notin facts \cup Uids("HostSuffix", Listed)
=============================================================================
