-------------------------- MODULE RunbookDefinitions --------------------------
(***************************************************************************)
(* The reviewed changes of core/runbooks: catalog.py, extended.py and       *)
(* typed.py, from the form to the verdict on a rollback.                    *)
(*                                                                          *)
(* A definition looks at one or two objects of the router: its steps write  *)
(* some fields, the baseline projects some, each post-check compares some.  *)
(* What is written, captured and compared differs from one definition to    *)
(* the next, and MikroMCP (external) may find an object there already.      *)
(* RouterOS (external) reports a value in a spelling of its own, whatever   *)
(* it was sent; the post-checks compare what was typed with what it reports.*)
(* ReadyChange has the executor with its journals, losses and history;      *)
(* here it is reliable and does one change at a time.                       *)
(***************************************************************************)
EXTENDS Naturals, Sequences, SequencesExt

CONSTANTS
  MaxDrifts,  \* bound: changes by somebody else
  MaxPorts    \* bound: ports named in a bridge form

ASSUME DefinitionBounds == MaxDrifts \in Nat /\ MaxPorts \in Nat

-----------------------------------------------------------------------------
(* The catalog.  An object is what a definition finds by name or comment:    *)
(*   set       the fields a step writes, of those optional the ones a form   *)
(*             may leave empty                                               *)
(*   captured  the fields of the baseline                                    *)
(*   applied   the fields verify_apply compares with the plan                *)
(*   restored  the fields verify_rollback compares with the baseline         *)

Object(set, optional, captured, applied, restored) ==
  [set |-> set, optional |-> optional, captured |-> captured, applied |-> applied,
   restored |-> restored]

\* Nothing but being there.
Presence(set) == Object(set, {}, {}, {}, {})

WanPppoe ==
  LET written == {"interface", "user", "service-name", "add-default-route", "dial-on-demand"}
      same    == {"interface", "user"}
  IN  [client |-> Object(written, {"service-name"}, written \cup {"disabled"}, same, same)]

\* "port" is one the plan adds, "other" a member it does not name.
LanBridge ==
  [bridge |-> Object({"comment", "disabled"}, {"comment"}, {"comment", "disabled"}, {}, {}),
   port |-> Presence({}), other |-> Presence({})]

WanNat ==
  LET same == {"chain", "action", "out-interface", "src-address"}
      all  == same \cup {"disabled"}
  IN  [rule |-> Object(all, {"src-address"}, all, same, same)]

AdminServices ==
  LET flag == {"disabled"}
  IN  [api |-> Object(flag, {}, flag, flag, flag), telnet |-> Object(flag, {}, flag, flag, flag)]

\* A dry run of the step tells whether the address is there.
IpAddress == [address |-> Presence({"comment", "disabled"})]

AddressListEntry ==
  LET all == {"timeout", "disabled", "comment"}
  IN  [entry |-> Object({"timeout", "comment"}, {"timeout", "comment"}, all, {}, all)]

LanDhcp ==
  LET pool   == {"ranges", "next-pool"}
      written == {"interface", "address-pool", "lease-time", "comment"}
      server == written \cup {"disabled"}
  IN  [pool |-> Object({"ranges"}, {}, pool, {"ranges"}, pool),
       server |-> Object(written, {"lease-time", "comment"}, server,
                         {"interface", "address-pool"}, server)]

DnsResolver ==
  LET all == {"servers", "allow-remote-requests", "cache-max-ttl"}
  IN  [settings |-> Object(all, {"cache-max-ttl"}, all, all, all)]

WireGuard ==
  LET interface == {"listen-port", "mtu", "comment", "disabled"}
      written   == {"allowed-address", "endpoint-address", "comment"}
      peer      == written \cup {"disabled"}
  IN  [interface |-> Object(interface \ {"disabled"}, {"comment"}, interface,
                            {"listen-port", "mtu"}, interface),
       peer |-> Object(written, {"endpoint-address", "comment"}, peer,
                       {"allowed-address"}, peer)]

\* Mutant: the fingerprint covers the .id RouterOS gives a record when it is made.
TypedVolatile ==
  LET all == {"value", "comment", "id"}
  IN  [record |-> Object({"value"}, {}, all, {"value"}, all)]

\* A typed change: a dry run must find nothing left to do, and a fingerprint of the
\* configuration, without the volatile fields, must be that of the baseline.
Typed ==
  LET all == {"value", "comment"} IN [record |-> Object({"value"}, {}, all, {"value"}, all)]

Catalog ==
  [wan_pppoe |-> WanPppoe, lan_bridge |-> LanBridge, wan_nat |-> WanNat,
   admin_services |-> AdminServices, ip_address |-> IpAddress,
   address_list_entry |-> AddressListEntry, lan_dhcp |-> LanDhcp, dns_resolver |-> DnsResolver,
   wireguard_peer |-> WireGuard, typed |-> Typed, typed_remove |-> Typed]

Definition == DOMAIN Catalog
Objects(d) == DOMAIN Catalog[d]
IsTyped(d) == d \in {"typed", "typed_remove"}

\* build_steps: the objects the steps write, in order.
StepsOf(d) ==
  CASE d = "lan_bridge"     -> <<"bridge", "port">>
    [] d = "admin_services" -> <<"api", "telnet">>
    [] d = "lan_dhcp"       -> <<"pool", "server">>
    [] d = "wireguard_peer" -> <<"interface", "peer">>
    [] OTHER                -> <<CHOOSE o \in Objects(d) : TRUE>>

\* What only a person may fill in, and what must be filled in.
HumanOnly(d) ==
  CASE d = "wan_pppoe" -> {"password"} [] d = "lan_dhcp" -> {"networkConfirmed"} [] OTHER -> {}

\* Settings and services are always there.
Permanent(d) == d \in {"dns_resolver", "admin_services"}
\* The values a form takes in several spellings ("051820", "10.0.0.1/24", "86400"), as far as
\* a post-check or a look-up compares them as they were typed.
Respellable(d) ==
  CASE d = "wan_nat"            -> {"src-address"}
    [] d = "address_list_entry" -> {"address"}
    [] d = "lan_dhcp"           -> {"ranges"}
    [] d = "dns_resolver"       -> {"servers", "cache-max-ttl"}
    [] d = "wireguard_peer"     -> {"listen-port", "mtu", "allowed-address"}
    [] OTHER                    -> {}

\* What a listing does not show while its parent is not there.
Parent(d, o) ==
  CASE d = "lan_bridge" /\ o # "bridge"   -> "bridge"
    [] d = "wireguard_peer" /\ o = "peer" -> "interface"
    [] OTHER                              -> o

-----------------------------------------------------------------------------

VARIABLES
  definition, \* the definition at work
  phase,      \* where the change is
  form,       \* what only a person may fill in and the form holds
  ticked,     \* ... and a person put there
  size,       \* the ports named in a bridge form
  filled,     \* the optional fields are filled in
  respelled,  \* the values that are typed in another spelling than RouterOS reports
  baseline,   \* the router when RunbookPlan.baseline was read
  journal,    \* what MikroMCP snapshotted before each step, in order
  undone,     \* how many of them were put back, from the last
  skipped,    \* the steps that left the router as it was
  live,       \* the objects on the router; an empty record is none
  drifts,     \* changes by somebody else
  counted,    \* a timeout of an address-list entry has counted down
  kept,       \* MikroMCP left an object it found, or a field the form left empty, as it was
  careless    \* MikroMCP may report a step it did not do

plan    == <<definition, form, ticked, size, filled, respelled>>
carried == <<journal, undone, skipped>>
world   == <<drifts, counted, kept, careless>>
vars    == <<plan, phase, baseline, carried, live, world>>

None == [f \in {} |-> "old"]
Fields(d, o) == Catalog[d][o].set \cup Catalog[d][o].captured \cup {"id"}

\* What a listing shows of an object, looked for by the name or the address that was typed.
There(d, state, o) ==
  state[o] # None /\ state[Parent(d, o)] # None /\ "address" \notin respelled

\* A field is as found, as planned, as RouterOS fills it, or as somebody else left it.
Values  == {"old", "new", "default", "odd"}
Written(d, o) == Catalog[d][o].set \ (IF filled THEN {} ELSE Catalog[d][o].optional)

\* What may be there: nothing, something else, the same, or the same but for one field.
Same(d, o) == [f \in Fields(d, o) |-> "new"]
Found(d, o) ==
  {[f \in Fields(d, o) |-> "old"], Same(d, o)}
    \cup {[Same(d, o) EXCEPT ![f] = "old"] : f \in Fields(d, o)}
    \cup (IF Permanent(d) THEN {} ELSE {None})

States(d) ==
  {s \in [Objects(d) -> UNION {Found(d, o) : o \in Objects(d)}] :
     \A o \in Objects(d) : s[o] \in Found(d, o)}

Init ==
  /\ definition \in Definition /\ live \in States(definition)
  /\ phase = "idle" /\ form = {} /\ ticked = {} /\ size = 0 /\ filled \in BOOLEAN
  /\ respelled = {} /\ baseline = live /\ journal = <<>> /\ undone = 0 /\ skipped = {}
  /\ drifts = 0 /\ counted = FALSE /\ kept = FALSE /\ careless \in BOOLEAN

-----------------------------------------------------------------------------
(* The form.                                                                 *)

\* Mutant: the model's values are taken as they are.
SanitizedRaw(d, raw) == raw
\* sanitize_proposal: what only a person may fill in is dropped.
Sanitized(d, raw) == raw \ HumanOnly(d)

\* /pppoe and the like, or a proposal of the model; a typed one needs no form.
Open ==
  /\ phase = "idle" /\ ~IsTyped(definition)
  /\ phase' = "form" /\ ticked' = {}
  /\ \E raw \in SUBSET HumanOnly(definition), n \in 0..MaxPorts :
       /\ form' = Sanitized(definition, raw)
       /\ size' = IF definition = "lan_bridge" THEN n ELSE 0
  /\ UNCHANGED <<definition, filled, respelled, baseline, carried, live, world>>

FillIn ==
  /\ phase = "form" /\ form # HumanOnly(definition)
  /\ form' = HumanOnly(definition) /\ ticked' = HumanOnly(definition)
  /\ UNCHANGED <<definition, size, filled, respelled, phase, baseline, carried, live, world>>

\* A bridge has at least one and at most nine ports.
ValidPorts(d, n) == d = "lan_bridge" => n \in 1..9

\* parse_submission and validate, which takes any spelling: an error leaves the form as it is.
Submit ==
  /\ phase = "form" /\ HumanOnly(definition) \subseteq form /\ ValidPorts(definition, size)
  /\ phase' = IF 1 + size > 10 THEN "refused" ELSE "planning"
  /\ respelled' \in SUBSET Respellable(definition)
  /\ UNCHANGED <<definition, form, ticked, size, filled, baseline, carried, live, world>>

Propose ==
  /\ phase = "idle" /\ IsTyped(definition) /\ phase' = "planning"
  /\ UNCHANGED <<plan, baseline, carried, live, world>>

-----------------------------------------------------------------------------
(* Plan and apply.                                                           *)

\* capture_baseline, and a dry run that MikroMCP finds viable.  Removing what is not there
\* would fail.
Planned ==
  /\ phase = "planning" /\ phase' = "approval"
  /\ definition = "typed_remove" => live.record # None
  /\ baseline' = live
  /\ UNCHANGED <<plan, carried, live, world>>

Cancelled ==
  /\ phase \in {"planning", "approval"} /\ phase' = "cancelled"
  /\ UNCHANGED <<plan, baseline, carried, live, world>>

\* _amend_pending_runbook: the form comes back with its values; a typed plan is dropped.
Amend ==
  /\ phase = "approval" /\ phase' = IF IsTyped(definition) THEN "cancelled" ELSE "form"
  /\ UNCHANGED <<plan, baseline, carried, live, world>>

\* One step of apply_plan: the object is made, brought in line, or left as it is.  "new" is
\* the value of the form in any spelling: int() of a port and RouterOS agree on what it means.
Created(d, o) ==
  [f \in Fields(d, o) |-> IF f \in Written(d, o) THEN "new" ELSE "default"]
Updated(d, o) == [f \in Fields(d, o) |-> IF f \in Written(d, o) THEN "new" ELSE live[o][f]]

Step ==
  /\ phase \in {"approval", "applying"} /\ Len(journal) < Len(StepsOf(definition))
  /\ phase' = "applying"
  /\ LET o == StepsOf(definition)[Len(journal) + 1] IN
       /\ journal' = Append(journal, live[o])
       /\ \/ live' = [live EXCEPT ![o] = IF definition = "typed_remove" THEN None
                                         ELSE IF @ = None THEN Created(definition, o)
                                         ELSE Updated(definition, o)]
             /\ kept' = (kept \/ (live[o] # None /\ ~filled /\ ~Permanent(definition)))
             /\ UNCHANGED skipped
          \/ live[o] # None /\ definition # "typed_remove" /\ kept' = TRUE
             /\ skipped' = skipped \cup {Len(journal) + 1} /\ UNCHANGED live
          \/ careless /\ skipped' = skipped \cup {Len(journal) + 1} /\ UNCHANGED <<live, kept>>
  /\ UNCHANGED <<plan, baseline, undone, drifts, counted, careless>>

\* What a field must be for verify_apply: what was typed, where it was filled in; the DNS
\* one is compared with the empty string where it was not.
Wanted(d, o, f) ==
  IF f \in Written(d, o) THEN IF f \in respelled THEN "typed" ELSE "new"
  ELSE IF d = "dns_resolver" THEN "empty" ELSE "default"

\* Mutant: only one object is looked for.
ApplyVerdictFirst(d) ==
  LET o == StepsOf(d)[1] IN There(d, live, o) /\ \A f \in Catalog[d][o].applied :
                                                   live[o][f] = Wanted(d, o, f)
\* verify_apply.
ApplyVerdict(d) ==
  IF d = "typed_remove" THEN live.record = None
  ELSE \A o \in ToSet(StepsOf(d)) :
         There(d, live, o) /\ \A f \in Catalog[d][o].applied : live[o][f] = Wanted(d, o, f)

Check ==
  /\ phase = "applying" /\ Len(journal) = Len(StepsOf(definition))
  /\ phase' = IF ApplyVerdict(definition) THEN "verified" ELSE "unverified"
  /\ UNCHANGED <<plan, baseline, carried, live, world>>

-----------------------------------------------------------------------------
(* Rollback.                                                                 *)

\* A record made again has a new .id.
PutBack(record) == IF record = None THEN None ELSE [record EXCEPT !.id = "odd"]

\* The journals in reverse order; careless, MikroMCP may report one it did not undo.
UndoStep ==
  /\ phase \in {"verified", "unverified", "undoing"} /\ undone < Len(journal)
  /\ phase' = "undoing" /\ undone' = undone + 1
  /\ LET k == Len(journal) - undone
         o == StepsOf(definition)[k] IN
       \/ live' = [live EXCEPT ![o] = IF @ = None THEN PutBack(journal[k]) ELSE journal[k]]
       \/ careless /\ UNCHANGED live
  /\ UNCHANGED <<plan, baseline, journal, skipped, world>>

\* Mutant: the fields of an object are not looked at.
RestoredFieldsNone(d, o) == {}
RestoredFields(d, o) == Catalog[d][o].restored

\* verify_rollback: the same objects, the same fields as in the baseline.
RollbackVerdict(d, state) ==
  \A o \in Objects(d) :
    /\ There(d, state, o) = There(d, baseline, o)
    /\ There(d, state, o) => \A f \in RestoredFields(d, o) : state[o][f] = baseline[o][f]

CheckUndone ==
  /\ phase = "undoing" /\ undone = Len(journal)
  /\ phase' = IF RollbackVerdict(definition, live) THEN "undone" ELSE "notUndone"
  /\ UNCHANGED <<plan, baseline, carried, live, world>>

-----------------------------------------------------------------------------
(* The world.  It holds still while a plan is carried out or undone.         *)

Waiting == phase \in {"approval", "verified", "unverified"}

Drift ==
  /\ Waiting /\ drifts < MaxDrifts /\ drifts' = drifts + 1
  /\ \E o \in Objects(definition) :
       \/ \E f \in Fields(definition, o) :
            live[o] # None /\ live' = [live EXCEPT ![o][f] = "odd"]
       \/ ~Permanent(definition) /\ live[o] # None /\ live' = [live EXCEPT ![o] = None]
       \/ live[o] = None
          /\ live' = [live EXCEPT ![o] = [f \in Fields(definition, o) |-> "odd"]]
  /\ UNCHANGED <<plan, phase, baseline, carried, counted, kept, careless>>

\* The timeout of a firewall address-list entry runs.
CountDown ==
  /\ Waiting /\ definition = "address_list_entry" /\ live.entry # None
  /\ live' = [live EXCEPT !.entry.timeout = "odd"] /\ counted' = TRUE
  /\ UNCHANGED <<plan, phase, baseline, carried, drifts, kept, careless>>

Next ==
  \/ Open \/ FillIn \/ Submit \/ Propose \/ Planned \/ Cancelled \/ Amend
  \/ Step \/ Check \/ UndoStep \/ CheckUndone \/ Drift \/ CountDown

Spec == Init /\ [][Next]_vars

-----------------------------------------------------------------------------
(* Properties                                                                *)

\* Where a step left the router as it was, because MikroMCP found an object or only said it
\* did the step, the change is reported as verified only if the router had all that the
\* post-check compares before that step: nothing that was still to be done goes unnoticed
\* (catalog.py:338-358, extended.py:428-446, 710-728).
SkippedWasThere ==
  phase = "verified" =>
    \A k \in skipped :
      LET o == StepsOf(definition)[k] IN
      IF definition = "typed_remove" THEN journal[k] = None
      ELSE /\ journal[k] # None
           /\ \A f \in Catalog[definition][o].applied : journal[k][f] = Wanted(definition, o, f)

\* The router as the snapshots of the steps have it.
StepAt(o) == CHOOSE k \in DOMAIN StepsOf(definition) : StepsOf(definition)[k] = o
Snapshots ==
  [o \in Objects(definition) |->
     IF o \in ToSet(StepsOf(definition)) THEN journal[StepAt(o)] ELSE live[o]]

\* The baseline is read when the change is planned, a snapshot when its step is carried out.
\* If somebody changed what verify_rollback compares in between, a rollback puts the change
\* back and must not be reported as verified (base.py:415), unless MikroMCP did not do what
\* it said.
RollbackSeesDrift ==
  phase = "undone" /\ ~careless =>
    \A o \in Objects(definition) :
      /\ There(definition, Snapshots, o) = There(definition, baseline, o)
      /\ There(definition, Snapshots, o) =>
           \A f \in Catalog[definition][o].restored : Snapshots[o][f] = baseline[o][f]

\* The same object, maybe with another .id.
Alike(o) ==
  /\ (live[o] = None) <=> (baseline[o] = None)
  /\ live[o] # None => \A f \in Fields(definition, o) \ {"id"} : live[o][f] = baseline[o][f]

\* No false alarm: a submission that passes the form fits one plan; and with a MikroMCP that
\* does what it reports, and nobody else about, an apply verifies, and a rollback verifies and
\* leaves every field as it was, compared or not (typed.py:46-49).  The exceptions the code
\* makes for an apply: a value typed in another spelling than RouterOS reports, and an empty
\* cache TTL of DNS; for a rollback: a timeout that ran.
CleanRunSucceeds ==
  /\ phase # "refused"
  /\ ~careless /\ drifts = 0 /\ ~counted =>
       /\ phase = "unverified" =>
            kept \/ respelled # {} \/ (definition = "dns_resolver" /\ ~filled)
       /\ phase # "notUndone"
       /\ phase = "undone" => \A o \in Objects(definition) : Alike(o)

\* What only a person may say was said by one before a plan is built, also when the model
\* proposed it (base.py:153-162, extended.py:330-337).
HumanConfirms ==
  phase \notin {"idle", "form", "refused"} => HumanOnly(definition) \subseteq ticked

===============================================================================
