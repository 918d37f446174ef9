----------------------- MODULE RunbookDefinitionsProofs -----------------------
(***************************************************************************)
(* For every scenario, whatever the router already holds, and for any       *)
(* number of changes by somebody else: no step left undone and no change in *)
(* between goes unnoticed, and a clean run gets its verdict.                *)
(***************************************************************************)
EXTENDS RunbookDefinitions, SequenceTheorems, TLAPS

-------------------------------------------------------------------------------
(* What the proofs need of the catalog.                                       *)

Stepped(d) == {StepsOf(d)[k] : k \in DOMAIN StepsOf(d)}

\* Each step writes an object of its own, and what it is listed under is written too.
GoodSteps(d) ==
  /\ Len(StepsOf(d)) \in Nat /\ DOMAIN StepsOf(d) = 1..Len(StepsOf(d))
  /\ Stepped(d) \subseteq Objects(d)
  /\ \A i, j \in DOMAIN StepsOf(d) : StepsOf(d)[i] = StepsOf(d)[j] => i = j
  /\ \A o \in Objects(d) : Parent(d, o) \in Objects(d)
  /\ \A o \in Stepped(d) : Parent(d, o) \in Stepped(d)

\* A post-check compares nothing the plan does not say, a rollback nothing RouterOS assigns.
GoodFields(d) ==
  /\ \A o \in Objects(d) : "id" \notin Catalog[d][o].restored
                           /\ Catalog[d][o].restored \subseteq Catalog[d][o].captured
  /\ \A o \in Stepped(d) : Catalog[d][o].applied \subseteq Catalog[d][o].set
  /\ Permanent(d) /\ d # "dns_resolver" =>
       \A o \in Objects(d) : Catalog[d][o].optional = {}

\* Which ones have one object only.
GoodNames(d) ==
  /\ d = "typed_remove" => Objects(d) = {"record"}
  /\ d = "address_list_entry" => Objects(d) = {"entry"}

GoodDefinition(d) == GoodSteps(d) /\ GoodFields(d) /\ GoodNames(d)

-------------------------------------------------------------------------------
(* The invariants.                                                            *)

Records(d) == (UNION {[Fields(d, o) -> Values] : o \in Objects(d)}) \cup {None}
IsObject(d, o, record) == record = None \/ record \in [Fields(d, o) -> Values]

Phases == {"idle", "form", "refused", "planning", "approval", "cancelled", "applying", "verified",
           "unverified", "undoing", "undone", "notUndone"}
Begun    == {"applying", "verified", "unverified", "undoing"}
Backward == {"undoing", "undone", "notUndone"}

\* A router's objects have the fields of the definition; there is a journal for each step
\* done and not undone.
WorldInv ==
  /\ definition \in Definition /\ phase \in Phases /\ filled \in BOOLEAN
  /\ careless \in BOOLEAN /\ kept \in BOOLEAN /\ counted \in BOOLEAN /\ drifts \in Nat
  /\ live = [o \in Objects(definition) |-> live[o]]
  /\ \A o \in Objects(definition) : IsObject(definition, o, live[o])
                                    /\ IsObject(definition, o, baseline[o])
  /\ baseline = [o \in Objects(definition) |-> baseline[o]]
  /\ journal \in Seq(Records(definition)) /\ Len(journal) <= Len(StepsOf(definition))
  /\ \A k \in DOMAIN journal : IsObject(definition, StepsOf(definition)[k], journal[k])
  /\ undone \in 0..Len(journal) /\ skipped \subseteq DOMAIN journal
  /\ phase \in {"idle", "form", "refused", "planning", "approval"} => journal = <<>>
  /\ phase \in {"applying", "verified", "unverified"} => undone = 0
  /\ phase \in {"verified", "unverified"} \cup Backward => Len(journal) = Len(StepsOf(definition))

\* What a person has to say, a person said.
FormInv ==
  /\ form \subseteq ticked /\ HumanConfirms
  /\ phase # "refused"
  /\ definition # "lan_bridge" => size = 0
  /\ size \in Nat

\* A step that was skipped left its object as its snapshot has it.
SkipInv ==
  /\ phase = "applying" => \A k \in skipped : live[StepsOf(definition)[k]] = journal[k]
  /\ SkippedWasThere

\* A record is as another, maybe with another .id.
Like(d, o, record, other) ==
  /\ (record = None) <=> (other = None)
  /\ record # None => \A f \in Fields(d, o) \ {"id"} : record[f] = other[f]

\* A verified rollback is one whose verdict holds of the snapshots.
SeesDrift == phase = "undone" /\ ~careless => RollbackVerdict(definition, Snapshots)

\* What was put back is as its snapshot has it.
PutBackInv ==
  /\ ~careless /\ phase \in Backward =>
       \A k \in DOMAIN journal : k > Len(journal) - undone =>
         Like(definition, StepsOf(definition)[k], live[StepsOf(definition)[k]], journal[k])
  /\ SeesDrift

Clean == ~careless /\ drifts = 0 /\ ~counted

\* A step that was carried out left its object as planned.
AsPlanned(o) ==
  IF definition = "typed_remove" THEN live[o] = None
  ELSE /\ live[o] # None
       /\ \A f \in Catalog[definition][o].applied : live[o][f] = Wanted(definition, o, f)

MadeInv ==
  Clean /\ ~kept /\ respelled = {} /\ (definition = "dns_resolver" => filled) =>
    /\ phase = "applying" => \A k \in DOMAIN journal : AsPlanned(StepsOf(definition)[k])
    /\ phase # "unverified"

Standing == {StepsOf(definition)[k] : k \in 1..(Len(journal) - undone)}

\* A journal has what the baseline has, and what is not written, or undone, is as it was.
BackInv ==
  Clean =>
    /\ phase \in Begun \cup {"approval"} =>
         /\ \A k \in DOMAIN journal : journal[k] = baseline[StepsOf(definition)[k]]
         /\ \A o \in Objects(definition) \ Standing :
              IF phase = "undoing" THEN Alike(o) ELSE live[o] = baseline[o]
    /\ phase # "notUndone"
    /\ phase = "undone" => \A o \in Objects(definition) : Alike(o)

DefInv == WorldInv /\ FormInv /\ SkipInv /\ PutBackInv /\ MadeInv /\ BackInv

LEMMA CatalogIs ==
  /\ Definition = {"wan_pppoe", "lan_bridge", "wan_nat", "admin_services", "ip_address",
                   "address_list_entry", "lan_dhcp", "dns_resolver", "wireguard_peer", "typed",
                   "typed_remove"}
  /\ Catalog["wan_pppoe"] = WanPppoe /\ Catalog["lan_bridge"] = LanBridge
  /\ Catalog["wan_nat"] = WanNat /\ Catalog["admin_services"] = AdminServices
  /\ Catalog["ip_address"] = IpAddress /\ Catalog["address_list_entry"] = AddressListEntry
  /\ Catalog["lan_dhcp"] = LanDhcp /\ Catalog["dns_resolver"] = DnsResolver
  /\ Catalog["wireguard_peer"] = WireGuard /\ Catalog["typed"] = Typed
  /\ Catalog["typed_remove"] = Typed
BY DEF Definition, Catalog

LEMMA GoodPppoe == GoodDefinition("wan_pppoe")
<1> DEFINE d == "wan_pppoe"
<1>1. Objects(d) = {"client"} /\ StepsOf(d) = <<"client">>
  BY CatalogIs DEF Objects, StepsOf, WanPppoe
<1>2. GoodSteps(d)
  BY <1>1 DEF GoodSteps, Stepped, Parent
<1>3. GoodFields(d)
  BY <1>1, CatalogIs DEF GoodFields, Stepped, Permanent, WanPppoe, Object
<1>4. GoodNames(d)
  BY <1>1 DEF GoodNames
<1> QED
  BY <1>2, <1>3, <1>4 DEF GoodDefinition

LEMMA GoodBridge == GoodDefinition("lan_bridge")
<1> DEFINE d == "lan_bridge"
<1>1. Objects(d) = {"bridge", "port", "other"} /\ StepsOf(d) = <<"bridge", "port">>
  BY CatalogIs DEF Objects, StepsOf, LanBridge
<1>2. GoodSteps(d)
  BY <1>1 DEF GoodSteps, Stepped, Parent
<1>3. GoodFields(d)
  BY <1>1, CatalogIs DEF GoodFields, Stepped, Permanent, LanBridge, Presence, Object
<1>4. GoodNames(d)
  BY <1>1 DEF GoodNames
<1> QED
  BY <1>2, <1>3, <1>4 DEF GoodDefinition

LEMMA GoodNat == GoodDefinition("wan_nat")
<1> DEFINE d == "wan_nat"
<1>1. Objects(d) = {"rule"} /\ StepsOf(d) = <<"rule">>
  BY CatalogIs DEF Objects, StepsOf, WanNat
<1>2. GoodSteps(d)
  BY <1>1 DEF GoodSteps, Stepped, Parent
<1>3. GoodFields(d)
  BY <1>1, CatalogIs DEF GoodFields, Stepped, Permanent, WanNat, Object
<1>4. GoodNames(d)
  BY <1>1 DEF GoodNames
<1> QED
  BY <1>2, <1>3, <1>4 DEF GoodDefinition

LEMMA GoodServices == GoodDefinition("admin_services")
<1> DEFINE d == "admin_services"
<1>1. Objects(d) = {"api", "telnet"} /\ StepsOf(d) = <<"api", "telnet">>
  BY CatalogIs DEF Objects, StepsOf, AdminServices
<1>2. GoodSteps(d)
  BY <1>1 DEF GoodSteps, Stepped, Parent
<1>3. GoodFields(d)
  BY <1>1, CatalogIs DEF GoodFields, Stepped, Permanent, AdminServices, Object
<1>4. GoodNames(d)
  BY <1>1 DEF GoodNames
<1> QED
  BY <1>2, <1>3, <1>4 DEF GoodDefinition

LEMMA GoodAddress == GoodDefinition("ip_address")
<1> DEFINE d == "ip_address"
<1>1. Objects(d) = {"address"} /\ StepsOf(d) = <<"address">>
  BY CatalogIs DEF Objects, StepsOf, IpAddress
<1>2. GoodSteps(d)
  BY <1>1 DEF GoodSteps, Stepped, Parent
<1>3. GoodFields(d)
  BY <1>1, CatalogIs DEF GoodFields, Stepped, Permanent, IpAddress, Presence, Object
<1>4. GoodNames(d)
  BY <1>1 DEF GoodNames
<1> QED
  BY <1>2, <1>3, <1>4 DEF GoodDefinition

LEMMA GoodListEntry == GoodDefinition("address_list_entry")
<1> DEFINE d == "address_list_entry"
<1>1. Objects(d) = {"entry"} /\ StepsOf(d) = <<"entry">>
  BY CatalogIs DEF Objects, StepsOf, AddressListEntry
<1>2. GoodSteps(d)
  BY <1>1 DEF GoodSteps, Stepped, Parent
<1>3. GoodFields(d)
  BY <1>1, CatalogIs DEF GoodFields, Stepped, Permanent, AddressListEntry, Object
<1>4. GoodNames(d)
  BY <1>1 DEF GoodNames
<1> QED
  BY <1>2, <1>3, <1>4 DEF GoodDefinition

LEMMA GoodDhcp == GoodDefinition("lan_dhcp")
<1> DEFINE d == "lan_dhcp"
<1>1. Objects(d) = {"pool", "server"} /\ StepsOf(d) = <<"pool", "server">>
  BY CatalogIs DEF Objects, StepsOf, LanDhcp
<1>2. GoodSteps(d)
  BY <1>1 DEF GoodSteps, Stepped, Parent
<1>3. GoodFields(d)
  BY <1>1, CatalogIs DEF GoodFields, Stepped, Permanent, LanDhcp, Object
<1>4. GoodNames(d)
  BY <1>1 DEF GoodNames
<1> QED
  BY <1>2, <1>3, <1>4 DEF GoodDefinition

LEMMA GoodDns == GoodDefinition("dns_resolver")
<1> DEFINE d == "dns_resolver"
<1>1. Objects(d) = {"settings"} /\ StepsOf(d) = <<"settings">>
  BY CatalogIs DEF Objects, StepsOf, DnsResolver
<1>2. GoodSteps(d)
  BY <1>1 DEF GoodSteps, Stepped, Parent
<1>3. GoodFields(d)
  BY <1>1, CatalogIs DEF GoodFields, Stepped, Permanent, DnsResolver, Object
<1>4. GoodNames(d)
  BY <1>1 DEF GoodNames
<1> QED
  BY <1>2, <1>3, <1>4 DEF GoodDefinition

LEMMA GoodWireGuard == GoodDefinition("wireguard_peer")
<1> DEFINE d == "wireguard_peer"
<1>1. Objects(d) = {"interface", "peer"} /\ StepsOf(d) = <<"interface", "peer">>
  BY CatalogIs DEF Objects, StepsOf, WireGuard
<1>2. GoodSteps(d)
  BY <1>1 DEF GoodSteps, Stepped, Parent
<1>3. GoodFields(d)
  BY <1>1, CatalogIs DEF GoodFields, Stepped, Permanent, WireGuard, Object
<1>4. GoodNames(d)
  BY <1>1 DEF GoodNames
<1> QED
  BY <1>2, <1>3, <1>4 DEF GoodDefinition

LEMMA GoodTyped == GoodDefinition("typed")
<1> DEFINE d == "typed"
<1>1. Objects(d) = {"record"} /\ StepsOf(d) = <<"record">>
  BY CatalogIs DEF Objects, StepsOf, Typed
<1>2. GoodSteps(d)
  BY <1>1 DEF GoodSteps, Stepped, Parent
<1>3. GoodFields(d)
  BY <1>1, CatalogIs DEF GoodFields, Stepped, Permanent, Typed, Object
<1>4. GoodNames(d)
  BY <1>1 DEF GoodNames
<1> QED
  BY <1>2, <1>3, <1>4 DEF GoodDefinition

LEMMA GoodRemove == GoodDefinition("typed_remove")
<1> DEFINE d == "typed_remove"
<1>1. Objects(d) = {"record"} /\ StepsOf(d) = <<"record">>
  BY CatalogIs DEF Objects, StepsOf, Typed
<1>2. GoodSteps(d)
  BY <1>1 DEF GoodSteps, Stepped, Parent
<1>3. GoodFields(d)
  BY <1>1, CatalogIs DEF GoodFields, Stepped, Permanent, Typed, Object
<1>4. GoodNames(d)
  BY <1>1 DEF GoodNames
<1> QED
  BY <1>2, <1>3, <1>4 DEF GoodDefinition

LEMMA CatalogGood ==
  ASSUME NEW d \in Definition
  PROVE  GoodDefinition(d)
BY CatalogIs, GoodPppoe, GoodBridge, GoodNat, GoodServices, GoodAddress, GoodListEntry, GoodDhcp,
   GoodDns, GoodWireGuard, GoodTyped, GoodRemove

-------------------------------------------------------------------------------
(* What one step does to one object.                                          *)

LEMMA FieldFacts ==
  ASSUME NEW d, NEW o
  PROVE  /\ "id" \in Fields(d, o)
         /\ Catalog[d][o].set \subseteq Fields(d, o)
         /\ Catalog[d][o].captured \subseteq Fields(d, o)
         /\ Written(d, o) \subseteq Catalog[d][o].set
         /\ filled \in BOOLEAN /\ filled => Written(d, o) = Catalog[d][o].set
         /\ Catalog[d][o].optional = {} => Written(d, o) = Catalog[d][o].set
BY DEF Fields, Written

LEMMA NoneFacts ==
  ASSUME NEW d, NEW o, NEW record \in [Fields(d, o) -> Values]
  PROVE  record # None
<1>1. "id" \in DOMAIN record
  BY FieldFacts
<1>2. DOMAIN None = {}
  BY DEF None
<1> QED
  BY <1>1, <1>2

LEMMA RecordsFacts ==
  ASSUME NEW d, NEW o \in Objects(d), NEW record, IsObject(d, o, record)
  PROVE  record \in Records(d)
<1> DEFINE shape(p) == [Fields(d, p) -> Values]
           all == {shape(p) : p \in Objects(d)}
<1>1. Records(d) = (UNION all) \cup {None}
  BY DEF Records
<1>2. record = None \/ record \in shape(o)
  BY DEF IsObject
<1> HIDE DEF shape
<1>3. shape(o) \in all
  OBVIOUS
<1> HIDE DEF all
<1> QED
  BY <1>1, <1>2, <1>3

LEMMA CreatedFacts ==
  ASSUME NEW d, NEW o
  PROVE  /\ Created(d, o) \in [Fields(d, o) -> Values]
         /\ \A f \in Fields(d, o) :
              Created(d, o)[f] = IF f \in Written(d, o) THEN "new" ELSE "default"
BY DEF Created, Values

LEMMA UpdatedFacts ==
  ASSUME NEW d, NEW o, live[o] \in [Fields(d, o) -> Values]
  PROVE  /\ Updated(d, o) \in [Fields(d, o) -> Values]
         /\ \A f \in Fields(d, o) :
              Updated(d, o)[f] = IF f \in Written(d, o) THEN "new" ELSE live[o][f]
BY DEF Updated, Values

LEMMA PutBackFacts ==
  ASSUME NEW d, NEW o, NEW record, IsObject(d, o, record)
  PROVE  /\ IsObject(d, o, PutBack(record))
         /\ (PutBack(record) = None) <=> (record = None)
         /\ record # None => \A f \in Fields(d, o) \ {"id"} : PutBack(record)[f] = record[f]
<1>1. CASE record = None
  BY <1>1 DEF PutBack, IsObject
<1>2. CASE record \in [Fields(d, o) -> Values] /\ record # None
  <2>1. PutBack(record) = [record EXCEPT !["id"] = "odd"]
    BY <1>2 DEF PutBack
  <2>2. /\ PutBack(record) \in [Fields(d, o) -> Values]
        /\ \A f \in Fields(d, o) \ {"id"} : PutBack(record)[f] = record[f]
    BY <1>2, <2>1, FieldFacts DEF Values
  <2>3. PutBack(record) # None
    BY <2>2, NoneFacts
  <2> QED
    BY <1>2, <2>2, <2>3 DEF IsObject
<1> QED
  BY <1>1, <1>2 DEF IsObject

\* A step of apply_plan: which object it is about, its journal, and what becomes of it.
StepOf(o, n) ==
  /\ n = Len(journal) + 1 /\ n \in DOMAIN StepsOf(definition) /\ o = StepsOf(definition)[n]
  /\ o \in Objects(definition)
  /\ journal' \in Seq(Records(definition)) /\ Len(journal') = n /\ journal'[n] = live[o]
  /\ \A k \in 1..(n - 1) : journal'[k] = journal[k]
  /\ live' = [p \in Objects(definition) |-> live'[p]]
  /\ \A p \in Objects(definition) \ {o} : live'[p] = live[p]
  /\ IsObject(definition, o, live[o]) /\ IsObject(definition, o, live'[o])
  /\ kept' \in BOOLEAN /\ (kept => kept')
  /\ skipped' = skipped \/ (skipped' = skipped \cup {n} /\ live' = live)
  /\ ~careless /\ ~kept' =>
       /\ live'[o] = IF definition = "typed_remove" THEN None
                     ELSE IF live[o] = None THEN Created(definition, o)
                     ELSE Updated(definition, o)
       /\ live[o] = None \/ filled \/ Permanent(definition) \/ definition = "typed_remove"

LEMMA StepFacts ==
  ASSUME WorldInv, Step
  PROVE  \E o, n : StepOf(o, n)
<1> DEFINE n == Len(journal) + 1
           o == StepsOf(definition)[n]
<1>0. /\ definition \in Definition /\ GoodSteps(definition)
      /\ journal \in Seq(Records(definition)) /\ Len(journal) \in Nat
      /\ live = [p \in Objects(definition) |-> live[p]] /\ kept \in BOOLEAN
      /\ careless \in BOOLEAN /\ filled \in BOOLEAN
      /\ \A p \in Objects(definition) : IsObject(definition, p, live[p])
  BY CatalogGood DEF WorldInv, GoodDefinition
<1>1. n \in DOMAIN StepsOf(definition) /\ o \in Objects(definition)
  BY <1>0 DEF Step, GoodSteps, Stepped
<1> HIDE DEF o
<1>2. live[o] \in Records(definition) /\ IsObject(definition, o, live[o])
  BY <1>0, <1>1, RecordsFacts
<1>3. journal' = Append(journal, live[o])
  BY DEF Step, o
<1>4. /\ journal' \in Seq(Records(definition)) /\ Len(journal') = n /\ journal'[n] = live[o]
      /\ \A k \in 1..(n - 1) : journal'[k] = journal[k]
  BY <1>0, <1>2, <1>3
<1>5. \/ /\ live' = [live EXCEPT ![o] = IF definition = "typed_remove" THEN None
                                       ELSE IF @ = None THEN Created(definition, o)
                                       ELSE Updated(definition, o)]
         /\ kept' = (kept \/ (live[o] # None /\ ~filled /\ ~Permanent(definition)))
      \/ live[o] # None /\ definition # "typed_remove" /\ kept' = TRUE /\ UNCHANGED live
      \/ careless /\ UNCHANGED <<live, kept>>
  BY DEF Step, o
<1>9. skipped' = skipped \/ (skipped' = skipped \cup {n} /\ live' = live)
  BY DEF Step
<1>6. CASE /\ live' = [live EXCEPT ![o] = IF definition = "typed_remove" THEN None
                                       ELSE IF @ = None THEN Created(definition, o)
                                       ELSE Updated(definition, o)]
           /\ kept' = (kept \/ (live[o] # None /\ ~filled /\ ~Permanent(definition)))
  <2> DEFINE new == IF definition = "typed_remove" THEN None
                    ELSE IF live[o] = None THEN Created(definition, o)
                    ELSE Updated(definition, o)
  <2>1. IsObject(definition, o, new)
    BY <1>2, CreatedFacts, UpdatedFacts DEF IsObject
  <2>2. live' = [live EXCEPT ![o] = new]
    BY <1>6
  <2> HIDE DEF new
  <2>3. /\ live'[o] = new /\ live' = [p \in Objects(definition) |-> live'[p]]
        /\ \A p \in Objects(definition) \ {o} : live'[p] = live[p]
    BY <1>0, <1>1, <2>2
  <2>4. /\ kept' \in BOOLEAN /\ (kept => kept')
        /\ ~kept' => live[o] = None \/ filled \/ Permanent(definition)
    BY <1>0, <1>6
  <2>5. live'[o] = IF definition = "typed_remove" THEN None
                   ELSE IF live[o] = None THEN Created(definition, o)
                   ELSE Updated(definition, o)
    BY <2>3 DEF new
  <2> QED
    BY <1>1, <1>2, <1>4, <1>9, <2>1, <2>3, <2>4, <2>5 DEF StepOf, o
<1>7. CASE \/ live[o] # None /\ definition # "typed_remove" /\ kept' = TRUE /\ UNCHANGED live
           \/ careless /\ UNCHANGED <<live, kept>>
  <2>1. /\ live' = live /\ kept' \in BOOLEAN /\ (kept => kept') /\ ~(~careless /\ ~kept')
    BY <1>0, <1>7
  <2> QED
    BY <1>0, <1>1, <1>2, <1>4, <1>9, <2>1 DEF StepOf, o
<1> QED
  BY <1>5, <1>6, <1>7

\* A step back: the last journal still standing, and its object is as it says, or it was not
\* done.
UndoOf(o, n) ==
  /\ n = Len(journal) - undone /\ n \in DOMAIN journal /\ n \in DOMAIN StepsOf(definition)
  /\ o = StepsOf(definition)[n] /\ o \in Objects(definition)
  /\ IsObject(definition, o, journal[n])
  /\ undone' = undone + 1 /\ undone' \in 0..Len(journal)
  /\ live' = [p \in Objects(definition) |-> live'[p]]
  /\ \A p \in Objects(definition) \ {o} : live'[p] = live[p]
  /\ IsObject(definition, o, live'[o])
  /\ ~careless => live'[o] = IF live[o] = None THEN PutBack(journal[n]) ELSE journal[n]

LEMMA UndoFacts ==
  ASSUME WorldInv, UndoStep
  PROVE  \E o, n : UndoOf(o, n)
<1> DEFINE n == Len(journal) - undone
           o == StepsOf(definition)[n]
           back == IF live[o] = None THEN PutBack(journal[n]) ELSE journal[n]
<1>0. /\ definition \in Definition /\ GoodSteps(definition)
      /\ journal \in Seq(Records(definition)) /\ Len(journal) \in Nat
      /\ undone \in 0..Len(journal) /\ undone < Len(journal)
      /\ Len(journal) <= Len(StepsOf(definition))
      /\ live = [p \in Objects(definition) |-> live[p]]
      /\ careless \in BOOLEAN
      /\ \A p \in Objects(definition) : IsObject(definition, p, live[p])
  BY CatalogGood DEF WorldInv, GoodDefinition, UndoStep
<1>1. /\ n \in DOMAIN journal /\ n \in DOMAIN StepsOf(definition)
      /\ undone + 1 \in 0..Len(journal)
  BY <1>0 DEF GoodSteps
<1>2. o \in Objects(definition) /\ IsObject(definition, o, journal[n])
  BY <1>0, <1>1 DEF GoodSteps, Stepped, WorldInv
<1>3. IsObject(definition, o, back)
  BY <1>2, PutBackFacts
<1>7. /\ \/ live' = [live EXCEPT ![o] = back]
         \/ careless /\ live' = live
      /\ undone' = undone + 1
  BY DEF UndoStep
<1> HIDE DEF o, back
<1>8. /\ live' = [p \in Objects(definition) |-> live'[p]]
      /\ \A p \in Objects(definition) \ {o} : live'[p] = live[p]
      /\ IsObject(definition, o, live'[o])
      /\ ~careless => live'[o] = back
  BY <1>0, <1>2, <1>3, <1>7
<1> QED
  BY <1>1, <1>2, <1>7, <1>8 DEF UndoOf, o, back

-------------------------------------------------------------------------------
(* WorldInv.                                                                  *)

LEMMA WorldInit ==
  ASSUME Init
  PROVE  WorldInv
<1> DEFINE all == UNION {Found(definition, p) : p \in Objects(definition)}
<1>1. /\ definition \in Definition /\ live \in States(definition)
      /\ phase = "idle" /\ filled \in BOOLEAN /\ baseline = live /\ journal = <<>>
      /\ drifts = 0 /\ counted = FALSE /\ kept = FALSE /\ careless \in BOOLEAN
      /\ undone = 0 /\ skipped = {}
  BY DEF Init
<1>2. live \in [Objects(definition) -> all]
      /\ \A o \in Objects(definition) : live[o] \in Found(definition, o)
  BY <1>1 DEF States
<1> HIDE DEF all
<1>3. ASSUME NEW o \in Objects(definition)
      PROVE  IsObject(definition, o, live[o])
  <2>1. \/ live[o] \in {[f \in Fields(definition, o) |-> "old"], Same(definition, o)}
        \/ \E f \in Fields(definition, o) : live[o] = [Same(definition, o) EXCEPT ![f] = "old"]
        \/ live[o] = None
    BY <1>2, <1>3 DEF Found
  <2>2. Same(definition, o) \in [Fields(definition, o) -> Values]
    BY DEF Same, Values
  <2>3. ASSUME NEW f \in Fields(definition, o)
        PROVE  [Same(definition, o) EXCEPT ![f] = "old"] \in [Fields(definition, o) -> Values]
    BY <2>2 DEF Values
  <2>4. [f \in Fields(definition, o) |-> "old"] \in [Fields(definition, o) -> Values]
    BY DEF Values
  <2> QED
    BY <2>1, <2>2, <2>3, <2>4 DEF IsObject
<1>4. live = [o \in Objects(definition) |-> live[o]]
  BY <1>2
<1>5. Len(StepsOf(definition)) \in Nat
  BY <1>1, CatalogGood DEF GoodDefinition, GoodSteps
<1>6. journal \in Seq(Records(definition)) /\ Len(journal) = 0 /\ DOMAIN journal = {}
  BY <1>1
<1>7. baseline = [o \in Objects(definition) |-> baseline[o]]
      /\ \A o \in Objects(definition) : IsObject(definition, o, baseline[o])
  BY <1>1, <1>3, <1>4
<1>8. Len(journal) <= Len(StepsOf(definition)) /\ drifts \in Nat
  <2>1. drifts = 0 /\ Len(journal) = 0
    BY <1>1, <1>6
  <2> QED
    BY <1>5, <2>1
<1>9. /\ phase \in Phases /\ kept \in BOOLEAN /\ counted \in BOOLEAN
      /\ phase \notin {"verified", "unverified"} \cup Backward
  BY <1>1 DEF Phases, Backward
<1>10. undone \in 0..Len(journal)
  <2>1. undone = 0 /\ Len(journal) = 0
    BY <1>1, <1>6
  <2> QED
    BY <2>1
<1> QED
  BY <1>1, <1>3, <1>4, <1>6, <1>7, <1>8, <1>9, <1>10 DEF WorldInv

\* Most actions are not about the objects.
LEMMA WorldStays ==
  ASSUME WorldInv, definition' = definition, filled' = filled, careless' = careless,
         live' = live, journal' = journal, baseline' \in {baseline, live},
         undone' = undone, skipped' = skipped,
         kept' = kept, counted' = counted, drifts' = drifts, phase' \in Phases,
         phase' \in {"idle", "form", "refused", "planning", "approval"} => journal = <<>>,
         phase' \in {"applying", "verified", "unverified"} => undone = 0,
         phase' \in {"verified", "unverified"} \cup Backward =>
           Len(journal) = Len(StepsOf(definition))
  PROVE  WorldInv'
BY DEF WorldInv

LEMMA WorldStep ==
  ASSUME WorldInv, [Next]_vars
  PROVE  WorldInv'
<1> USE DEF plan, world, carried, Backward
<1>1. CASE Open
  BY <1>1, WorldStays DEF Open, WorldInv, Phases
<1>2. CASE FillIn
  BY <1>2, WorldStays DEF FillIn, WorldInv, Phases
<1>3. CASE Submit
  BY <1>3, WorldStays DEF Submit, WorldInv, Phases
<1>4. CASE Propose
  BY <1>4, WorldStays DEF Propose, WorldInv, Phases
<1>5. CASE Planned
  BY <1>5, WorldStays DEF Planned, WorldInv, Phases
<1>6. CASE Cancelled
  BY <1>6, WorldStays DEF Cancelled, WorldInv, Phases
<1>7. CASE Amend
  BY <1>7, WorldStays DEF Amend, WorldInv, Phases
<1>8. CASE Step
  <2>1. PICK o, n : StepOf(o, n)
    BY <1>8, StepFacts
  <2>2. /\ definition' = definition /\ filled' = filled /\ careless' = careless
        /\ baseline' = baseline /\ counted' = counted /\ drifts' = drifts /\ phase' = "applying"
        /\ undone' = undone /\ phase \in {"approval", "applying"}
    BY <1>8 DEF Step
  <2>3. DOMAIN StepsOf(definition) = 1..Len(StepsOf(definition))
        /\ Len(StepsOf(definition)) \in Nat /\ Len(journal) \in Nat
    BY CatalogGood DEF WorldInv, GoodDefinition, GoodSteps
  <2>4. \A p \in Objects(definition) : IsObject(definition, p, live'[p])
    BY <2>1 DEF StepOf, WorldInv
  <2>5. \A k \in DOMAIN journal' : IsObject(definition, StepsOf(definition)[k], journal'[k])
    BY <2>1, <2>3 DEF StepOf, WorldInv
  <2>6. Len(journal') <= Len(StepsOf(definition))
    BY <2>1, <2>3 DEF StepOf
  <2>7. undone' = 0 /\ undone' \in 0..Len(journal')
    <3>1. phase = "approval" => journal = <<>> /\ undone \in 0..Len(journal)
      BY DEF WorldInv
    <3>2. phase = "applying" => undone = 0
      BY DEF WorldInv
    <3>3. undone = 0
      BY <2>2, <3>1, <3>2
    <3>4. Len(journal') \in Nat
      BY <2>1, <2>3 DEF StepOf
    <3> QED
      BY <2>2, <3>3, <3>4
  <2>8. skipped' \subseteq DOMAIN journal'
    <3>1. /\ DOMAIN journal = 1..Len(journal) /\ DOMAIN journal' = 1..(Len(journal) + 1)
          /\ skipped \subseteq DOMAIN journal /\ n = Len(journal) + 1
      BY <2>1, <2>3 DEF StepOf, WorldInv
    <3>2. skipped' \subseteq skipped \cup {n}
      BY <2>1 DEF StepOf
    <3> QED
      BY <2>3, <3>1, <3>2
  <2> QED
    BY <2>1, <2>2, <2>4, <2>5, <2>6, <2>7, <2>8 DEF StepOf, WorldInv, Phases
<1>9. CASE Check
  BY <1>9, WorldStays DEF Check, WorldInv, Phases
<1>10. CASE UndoStep
  <2>1. PICK o, n : UndoOf(o, n)
    BY <1>10, UndoFacts
  <2>2. /\ definition' = definition /\ filled' = filled /\ careless' = careless /\ kept' = kept
        /\ baseline' = baseline /\ counted' = counted /\ drifts' = drifts /\ phase' = "undoing"
        /\ journal' = journal /\ skipped' = skipped
        /\ phase \in {"verified", "unverified", "undoing"}
    BY <1>10 DEF UndoStep
  <2>3. DOMAIN StepsOf(definition) = 1..Len(StepsOf(definition))
        /\ Len(StepsOf(definition)) \in Nat /\ Len(journal) \in Nat
    BY CatalogGood DEF WorldInv, GoodDefinition, GoodSteps
  <2>4. \A p \in Objects(definition) : IsObject(definition, p, live'[p])
    BY <2>1 DEF UndoOf, WorldInv
  <2>5. Len(journal) = Len(StepsOf(definition))
    BY <2>2 DEF WorldInv
  <2> QED
    BY <2>1, <2>2, <2>4, <2>5 DEF UndoOf, WorldInv, Phases
<1>11. CASE CheckUndone
  BY <1>11, WorldStays DEF CheckUndone, WorldInv, Phases
<1>12. CASE Drift
  <2>1. /\ definition' = definition /\ filled' = filled /\ careless' = careless /\ kept' = kept
        /\ baseline' = baseline /\ counted' = counted /\ drifts' = drifts + 1
        /\ journal' = journal /\ phase' = phase /\ undone' = undone /\ skipped' = skipped
    BY <1>12 DEF Drift, Waiting
  <2>2. PICK o \in Objects(definition) :
       \/ \E f \in Fields(definition, o) :
            live[o] # None /\ live' = [live EXCEPT ![o][f] = "odd"]
       \/ ~Permanent(definition) /\ live[o] # None /\ live' = [live EXCEPT ![o] = None]
       \/ live[o] = None
          /\ live' = [live EXCEPT ![o] = [f \in Fields(definition, o) |-> "odd"]]
    BY <1>12 DEF Drift
  <2>3. \E record : IsObject(definition, o, record) /\ live' = [live EXCEPT ![o] = record]
    <3>1. CASE \E f \in Fields(definition, o) :
                 live[o] # None /\ live' = [live EXCEPT ![o][f] = "odd"]
      <4>1. PICK f \in Fields(definition, o) : live' = [live EXCEPT ![o][f] = "odd"]
        BY <3>1
      <4>2. live' = [live EXCEPT ![o] = [live[o] EXCEPT ![f] = "odd"]]
        BY <4>1
      <4>3. [live[o] EXCEPT ![f] = "odd"] \in [Fields(definition, o) -> Values]
        BY <3>1 DEF WorldInv, IsObject, Values
      <4> QED
        BY <4>2, <4>3 DEF IsObject
    <3>2. CASE live' = [live EXCEPT ![o] = None]
      BY <3>2 DEF IsObject
    <3>3. CASE live' = [live EXCEPT ![o] = [f \in Fields(definition, o) |-> "odd"]]
      <4>1. [f \in Fields(definition, o) |-> "odd"] \in [Fields(definition, o) -> Values]
        BY DEF Values
      <4> QED
        BY <3>3, <4>1 DEF IsObject
    <3> QED
      BY <2>2, <3>1, <3>2, <3>3
  <2>4. PICK record : IsObject(definition, o, record) /\ live' = [live EXCEPT ![o] = record]
    BY <2>3
  <2>5. /\ live' = [p \in Objects(definition) |-> live'[p]]
        /\ \A p \in Objects(definition) : IsObject(definition, p, live'[p])
    BY <2>4 DEF WorldInv
  <2> QED
    BY <2>1, <2>5 DEF WorldInv, Phases
<1>13. CASE CountDown
  <2>1. /\ definition' = definition /\ filled' = filled /\ careless' = careless /\ kept' = kept
        /\ baseline' = baseline /\ counted' = TRUE /\ drifts' = drifts
        /\ journal' = journal /\ phase' = phase /\ undone' = undone /\ skipped' = skipped
        /\ definition = "address_list_entry"
        /\ live.entry # None /\ live' = [live EXCEPT !.entry.timeout = "odd"]
    BY <1>13 DEF CountDown
  <2>2. Objects(definition) = {"entry"}
    BY <2>1, CatalogGood DEF WorldInv, GoodDefinition, GoodNames
  <2>3. live["entry"] \in [Fields(definition, "entry") -> Values]
    BY <2>1, <2>2 DEF WorldInv, IsObject
  <2>4. live' = [live EXCEPT !["entry"] = [live["entry"] EXCEPT !["timeout"] = "odd"]]
    BY <2>1
  <2>5. [live["entry"] EXCEPT !["timeout"] = "odd"] \in [Fields(definition, "entry") -> Values]
    BY <2>3 DEF Values
  <2>6. /\ live' = [p \in Objects(definition) |-> live'[p]]
        /\ \A p \in Objects(definition) : IsObject(definition, p, live'[p])
    BY <2>2, <2>4, <2>5 DEF WorldInv, IsObject
  <2> QED
    BY <2>1, <2>6 DEF WorldInv, Phases
<1>14. CASE UNCHANGED vars
  BY <1>14, WorldStays DEF vars, WorldInv
<1> QED
  BY <1>1, <1>2, <1>3, <1>4, <1>5, <1>6, <1>7, <1>8, <1>9, <1>10, <1>11, <1>12, <1>13, <1>14
     DEF Next

-------------------------------------------------------------------------------
(* FormInv.                                                                   *)

LEMMA FormInit ==
  ASSUME Init
  PROVE  FormInv
BY DEF Init, FormInv, HumanConfirms

LEMMA FormStep ==
  ASSUME FormInv, [Next]_vars, DefinitionBounds
  PROVE  FormInv'
<1> USE DEF plan, world, carried, FormInv, HumanConfirms
<1>1. CASE Open
  <2>1. /\ form' = {} /\ ticked' = {} /\ phase' = "form"
        /\ size' \in Nat /\ (definition # "lan_bridge" => size' = 0)
    BY <1>1 DEF Open, Sanitized, DefinitionBounds
  <2> QED
    BY <1>1, <2>1 DEF Open
<1>2. CASE FillIn
  BY <1>2 DEF FillIn
<1>3. CASE Submit
  <2>1. size <= 9
    BY <1>3 DEF Submit, ValidPorts
  <2>2. phase' = "planning" /\ HumanOnly(definition) \subseteq form
    BY <1>3, <2>1 DEF Submit
  <2> QED
    BY <1>3, <2>2 DEF Submit
<1>4. CASE Propose
  <2>1. HumanOnly(definition) = {} /\ phase' = "planning"
    BY <1>4 DEF Propose, IsTyped, HumanOnly
  <2> QED
    BY <1>4, <2>1 DEF Propose
<1>5. CASE Planned
  BY <1>5 DEF Planned
<1>6. CASE Cancelled
  BY <1>6 DEF Cancelled
<1>7. CASE Amend
  BY <1>7 DEF Amend
<1>8. CASE Step
  BY <1>8 DEF Step
<1>9. CASE Check
  BY <1>9 DEF Check
<1>10. CASE UndoStep
  BY <1>10 DEF UndoStep
<1>11. CASE CheckUndone
  BY <1>11 DEF CheckUndone
<1>12. CASE Drift
  BY <1>12 DEF Drift, Waiting
<1>13. CASE CountDown
  BY <1>13 DEF CountDown
<1>14. CASE UNCHANGED vars
  BY <1>14 DEF vars
<1> QED
  BY <1>1, <1>2, <1>3, <1>4, <1>5, <1>6, <1>7, <1>8, <1>9, <1>10, <1>11, <1>12, <1>13, <1>14
     DEF Next

-------------------------------------------------------------------------------
(* SkipInv: a step that was skipped, and the verdict over it.                 *)

LEMMA SkipInit ==
  ASSUME Init
  PROVE  SkipInv
BY DEF Init, SkipInv, SkippedWasThere

LEMMA SkipStep ==
  ASSUME WorldInv, SkipInv, [Next]_vars
  PROVE  SkipInv'
<1> USE DEF plan, world, carried
<1>0. /\ definition \in Definition /\ GoodSteps(definition) /\ GoodNames(definition)
      /\ skipped \subseteq DOMAIN journal /\ Len(journal) \in Nat
      /\ DOMAIN journal = 1..Len(journal)
      /\ journal \in Seq(Records(definition)) /\ Len(journal) <= Len(StepsOf(definition))
  BY CatalogGood DEF WorldInv, GoodDefinition
<1>1. CASE phase' \notin {"applying", "verified"}
  BY <1>1 DEF SkipInv, SkippedWasThere
<1>2. CASE Step
  <2>1. PICK o, n : StepOf(o, n)
    BY <1>2, StepFacts
  <2>2. /\ phase' = "applying" /\ phase \in {"approval", "applying"} /\ definition' = definition
        /\ phase = "approval" => journal = <<>>
    BY <1>2 DEF Step, WorldInv
  <2>3. ASSUME NEW k \in skipped
        PROVE  live'[StepsOf(definition)[k]] = journal'[k]
    <3>1. k \in 1..Len(journal) /\ n = Len(journal) + 1 /\ k # n
      BY <1>0, <2>1 DEF StepOf
    <3>2. phase = "applying"
      <4>1. phase = "approval" => k \in DOMAIN <<>>
        BY <1>0, <2>2
      <4> QED
        BY <2>2, <4>1
    <3>3. live[StepsOf(definition)[k]] = journal[k]
      BY <3>2 DEF SkipInv
    <3>4. /\ k \in DOMAIN StepsOf(definition) /\ n \in DOMAIN StepsOf(definition)
          /\ StepsOf(definition)[k] # o
          /\ StepsOf(definition)[k] \in Objects(definition)
      BY <1>0, <2>1, <3>1 DEF StepOf, GoodSteps, Stepped
    <3>5. journal'[k] = journal[k]
      BY <2>1, <3>1 DEF StepOf
    <3> QED
      BY <2>1, <3>3, <3>4, <3>5 DEF StepOf
  <2>4. live' = live => live'[StepsOf(definition)[n]] = journal'[n]
    BY <2>1 DEF StepOf
  <2>5. skipped' = skipped \/ (skipped' = skipped \cup {n} /\ live' = live)
    BY <2>1 DEF StepOf
  <2>6. \A k \in skipped' : live'[StepsOf(definition)[k]] = journal'[k]
    BY <2>3, <2>4, <2>5
  <2> QED
    BY <2>2, <2>6 DEF SkipInv, SkippedWasThere
<1>3. CASE Check /\ phase' = "verified"
  <2>1. /\ definition' = definition /\ live' = live /\ filled' = filled /\ journal' = journal
        /\ skipped' = skipped /\ respelled' = respelled /\ ApplyVerdict(definition)
        /\ phase = "applying" /\ Len(journal) = Len(StepsOf(definition))
    BY <1>3 DEF Check
  <2>2. ASSUME NEW k \in skipped
        PROVE  LET o == StepsOf(definition)[k] IN
               IF definition = "typed_remove" THEN journal[k] = None
               ELSE /\ journal[k] # None
                    /\ \A f \in Catalog[definition][o].applied :
                         journal[k][f] = Wanted(definition, o, f)
    <3> DEFINE o == StepsOf(definition)[k]
    <3>1. /\ live[o] = journal[k] /\ k \in DOMAIN StepsOf(definition)
          /\ o \in Stepped(definition) /\ o \in Objects(definition)
      BY <1>0, <2>1 DEF SkipInv, GoodSteps, Stepped
    <3>2. CASE definition = "typed_remove"
      <4>1. o = "record" /\ live["record"] = None
        BY <1>0, <2>1, <3>1, <3>2 DEF ApplyVerdict, GoodNames
      <4> QED
        BY <3>1, <3>2, <4>1
    <3>3. CASE definition # "typed_remove"
      <4>1. ToSet(StepsOf(definition)) = Stepped(definition)
        BY DEF ToSet, Stepped
      <4>2. /\ There(definition, live, o)
            /\ \A f \in Catalog[definition][o].applied : live[o][f] = Wanted(definition, o, f)
        BY <2>1, <3>1, <3>3, <4>1 DEF ApplyVerdict
      <4> QED
        BY <3>1, <3>3, <4>2 DEF There
    <3> QED
      BY <3>2, <3>3
  <2>3. SkippedWasThere'
    BY <2>1, <2>2 DEF SkippedWasThere, Wanted, Written
  <2> QED
    BY <1>3, <2>3 DEF SkipInv
<1>4. CASE (CountDown \/ Drift) /\ phase' \in {"applying", "verified"}
  <2>1. /\ definition' = definition /\ filled' = filled /\ respelled' = respelled
        /\ journal' = journal /\ skipped' = skipped /\ phase' = phase /\ phase # "applying"
    BY <1>4 DEF CountDown, Drift, Waiting
  <2> QED
    BY <2>1 DEF SkipInv, SkippedWasThere, Wanted, Written
<1>5. CASE UNCHANGED vars
  BY <1>5 DEF vars, SkipInv, SkippedWasThere, Wanted, Written
<1>6. ASSUME Open \/ FillIn \/ Submit \/ Propose \/ Planned \/ Cancelled \/ Amend \/ UndoStep
               \/ CheckUndone
      PROVE  phase' \notin {"applying", "verified"}
  BY <1>6 DEF Open, FillIn, Submit, Propose, Planned, Cancelled, Amend, UndoStep, CheckUndone
<1>7. CASE Check /\ phase' # "verified"
  BY <1>7 DEF Check, SkipInv, SkippedWasThere
<1> QED
  BY <1>1, <1>2, <1>3, <1>4, <1>5, <1>6, <1>7 DEF Next

-------------------------------------------------------------------------------
(* PutBackInv: what a rollback put back, and the verdict over it.             *)

LEMMA PutBackInit ==
  ASSUME Init
  PROVE  PutBackInv
BY DEF Init, PutBackInv, SeesDrift, Backward

\* verify_rollback looks at nothing but what is put back.
LEMMA SnapshotVerdict ==
  ASSUME WorldInv, Len(journal) = Len(StepsOf(definition)), RollbackVerdict(definition, live),
         \A k \in DOMAIN journal :
           Like(definition, StepsOf(definition)[k], live[StepsOf(definition)[k]], journal[k])
  PROVE  RollbackVerdict(definition, Snapshots)
<1>0. /\ definition \in Definition /\ GoodSteps(definition) /\ GoodFields(definition)
      /\ Len(journal) \in Nat /\ DOMAIN journal = DOMAIN StepsOf(definition)
  BY CatalogGood DEF WorldInv, GoodDefinition, GoodSteps
<1>1. ASSUME NEW o \in Objects(definition)
      PROVE  Like(definition, o, live[o], Snapshots[o])
  <2>1. CASE o \in ToSet(StepsOf(definition))
    <3>1. PICK k \in DOMAIN StepsOf(definition) : StepsOf(definition)[k] = o
      BY <2>1 DEF ToSet
    <3>2. StepAt(o) \in DOMAIN StepsOf(definition) /\ StepsOf(definition)[StepAt(o)] = o
      BY <3>1 DEF StepAt
    <3>3. Snapshots[o] = journal[StepAt(o)]
      BY <1>1, <2>1 DEF Snapshots
    <3> QED
      BY <1>0, <3>2, <3>3
  <2>2. CASE o \notin ToSet(StepsOf(definition))
    <3>1. Snapshots[o] = live[o]
      BY <1>1, <2>2 DEF Snapshots
    <3> QED
      BY <3>1 DEF Like
  <2> QED
    BY <2>1, <2>2
<1>2. ASSUME NEW o \in Objects(definition)
      PROVE  /\ There(definition, Snapshots, o) = There(definition, baseline, o)
             /\ There(definition, Snapshots, o) => \A f \in RestoredFields(definition, o) :
                                                    Snapshots[o][f] = baseline[o][f]
  <2>1. Parent(definition, o) \in Objects(definition)
        /\ RestoredFields(definition, o) \subseteq Fields(definition, o) \ {"id"}
    BY <1>0, <1>2, FieldFacts DEF GoodSteps, GoodFields, RestoredFields
  <2>2. There(definition, Snapshots, o) = There(definition, live, o)
    BY <1>1, <1>2, <2>1 DEF There, Like
  <2>3. /\ There(definition, live, o) = There(definition, baseline, o)
        /\ There(definition, live, o) => \A f \in RestoredFields(definition, o) :
                                          live[o][f] = baseline[o][f]
    BY <1>2 DEF RollbackVerdict
  <2>4. There(definition, live, o) => \A f \in RestoredFields(definition, o) :
                                        live[o][f] = Snapshots[o][f]
    BY <1>1, <1>2, <2>1 DEF There, Like
  <2> QED
    BY <2>2, <2>3, <2>4
<1> QED
  BY <1>2 DEF RollbackVerdict

LEMMA PutBackStep ==
  ASSUME WorldInv, PutBackInv, [Next]_vars
  PROVE  PutBackInv'
<1> USE DEF plan, world, carried
<1>0. /\ definition \in Definition /\ GoodSteps(definition) /\ careless \in BOOLEAN
      /\ Len(journal) \in Nat /\ undone \in 0..Len(journal)
      /\ DOMAIN journal = 1..Len(journal) /\ journal \in Seq(Records(definition))
  BY CatalogGood DEF WorldInv, GoodDefinition
<1>1. CASE phase' \notin Backward
  BY <1>1 DEF PutBackInv, SeesDrift, Backward
<1>2. CASE UndoStep
  <2>1. PICK o, n : UndoOf(o, n)
    BY <1>2, UndoFacts
  <2>2. /\ phase' = "undoing" /\ definition' = definition /\ careless' = careless
        /\ journal' = journal /\ phase \in {"verified", "unverified", "undoing"}
        /\ phase \in {"verified", "unverified"} => undone = 0
        /\ Len(journal) = Len(StepsOf(definition))
    BY <1>2 DEF UndoStep, WorldInv, Backward
  <2>3. ASSUME ~careless, NEW k \in DOMAIN journal, k > Len(journal) - undone'
        PROVE  Like(definition, StepsOf(definition)[k], live'[StepsOf(definition)[k]], journal[k])
    <3>1. n = Len(journal) - undone /\ undone' = undone + 1
      BY <2>1 DEF UndoOf
    <3>2. CASE k = n
      <4> DEFINE saved == journal[n]
      <4>1. /\ StepsOf(definition)[k] = o /\ IsObject(definition, o, saved)
            /\ live'[o] = PutBack(saved) \/ live'[o] = saved
        BY <2>1, <2>3, <3>2 DEF UndoOf
      <4> HIDE DEF saved
      <4>2. /\ (PutBack(saved) = None) <=> (saved = None)
            /\ saved # None =>
                 \A f \in Fields(definition, o) \ {"id"} : PutBack(saved)[f] = saved[f]
        <5>1. IsObject(definition, o, saved) /\ IsObject(definition, o, PutBack(saved))
          BY <4>1, PutBackFacts
        <5>2. (PutBack(saved) = None) <=> (saved = None)
          BY <5>1, PutBackFacts
        <5>3. saved # None =>
                 \A f \in Fields(definition, o) \ {"id"} : PutBack(saved)[f] = saved[f]
          BY <5>1, PutBackFacts
        <5> QED
          BY <5>2, <5>3
      <4>3. Like(definition, o, live'[o], saved)
        BY <4>1, <4>2 DEF Like
      <4> QED
        BY <3>2, <4>1, <4>3 DEF saved
    <3>3. CASE k # n
      <4>1. k > Len(journal) - undone
        BY <1>0, <2>3, <3>1, <3>3
      <4>2. undone # 0 /\ phase = "undoing"
        BY <1>0, <2>2, <4>1
      <4>3. Like(definition, StepsOf(definition)[k], live[StepsOf(definition)[k]], journal[k])
        BY <2>3, <4>1, <4>2 DEF PutBackInv, Backward
      <4>4. /\ k \in DOMAIN StepsOf(definition) /\ n \in DOMAIN StepsOf(definition)
            /\ StepsOf(definition)[k] # o /\ StepsOf(definition)[k] \in Objects(definition)
        BY <1>0, <2>1, <2>2, <3>3 DEF UndoOf, GoodSteps, Stepped
      <4>5. live'[StepsOf(definition)[k]] = live[StepsOf(definition)[k]]
        BY <2>1, <4>4 DEF UndoOf
      <4> QED
        BY <4>3, <4>5
    <3> QED
      BY <3>2, <3>3
  <2> QED
    BY <2>2, <2>3 DEF PutBackInv, SeesDrift
<1>3. CASE CheckUndone
  <2>1. /\ definition' = definition /\ live' = live /\ baseline' = baseline
        /\ journal' = journal /\ undone' = undone /\ careless' = careless
        /\ respelled' = respelled /\ phase = "undoing" /\ undone = Len(journal)
        /\ phase' = IF RollbackVerdict(definition, live) THEN "undone" ELSE "notUndone"
    BY <1>3 DEF CheckUndone
  <2>2. ASSUME ~careless, NEW k \in DOMAIN journal
        PROVE  Like(definition, StepsOf(definition)[k], live[StepsOf(definition)[k]], journal[k])
    <3>1. k > Len(journal) - undone
      BY <1>0, <2>1, <2>2
    <3> QED
      BY <2>1, <2>2, <3>1 DEF PutBackInv, Backward
  <2>3. ASSUME ~careless, phase' = "undone"
        PROVE  RollbackVerdict(definition, Snapshots)
    <3>1. Len(journal) = Len(StepsOf(definition))
      BY <2>1 DEF WorldInv, Backward
    <3> QED
      BY <2>1, <2>2, <2>3, <3>1, SnapshotVerdict
  <2>4. RollbackVerdict(definition, Snapshots)' = RollbackVerdict(definition, Snapshots)
    BY <2>1 DEF RollbackVerdict, There, Snapshots, StepAt
  <2>5. SeesDrift'
    BY <2>1, <2>3, <2>4 DEF SeesDrift
  <2> QED
    BY <2>1, <2>2, <2>5 DEF PutBackInv
<1>4. CASE UNCHANGED vars
  <2>1. /\ definition' = definition /\ live' = live /\ baseline' = baseline
        /\ journal' = journal /\ undone' = undone /\ careless' = careless
        /\ respelled' = respelled /\ phase' = phase
    BY <1>4 DEF vars
  <2>2. RollbackVerdict(definition, Snapshots)' = RollbackVerdict(definition, Snapshots)
    BY <2>1 DEF RollbackVerdict, There, Snapshots, StepAt
  <2>3. SeesDrift'
    BY <2>1, <2>2 DEF PutBackInv, SeesDrift
  <2> QED
    BY <2>1, <2>3 DEF PutBackInv
<1>5. ASSUME Open \/ FillIn \/ Submit \/ Propose \/ Planned \/ Cancelled \/ Amend \/ Step
               \/ Check \/ Drift \/ CountDown
      PROVE  phase' \notin Backward
  BY <1>5 DEF Open, FillIn, Submit, Propose, Planned, Cancelled, Amend, Step, Check, Drift,
              CountDown, Waiting, Backward
<1> QED
  BY <1>1, <1>2, <1>3, <1>4, <1>5 DEF Next

-------------------------------------------------------------------------------
(* MadeInv.                                                                   *)

\* What makes a run clean is decided once.
LEMMA CleanFacts ==
  ASSUME WorldInv, [Next]_vars
  PROVE  /\ definition' = definition /\ filled' = filled
         /\ Clean' => Clean /\ ~Drift /\ ~CountDown
         /\ ~kept' => ~kept
         /\ respelled' # respelled => phase' \in {"planning", "refused"}
<1> USE DEF plan, world, carried, Clean
<1>0. drifts \in Nat
  BY DEF WorldInv
<1>1. CASE Open \/ FillIn \/ Submit \/ Propose \/ Planned \/ Cancelled \/ Amend \/ Check
           \/ UndoStep \/ CheckUndone \/ UNCHANGED vars
  <2>1. /\ definition' = definition /\ filled' = filled /\ careless' = careless
        /\ drifts' = drifts /\ counted' = counted /\ kept' = kept
        /\ respelled' # respelled => phase' \in {"planning", "refused"}
    BY <1>1 DEF Open, FillIn, Submit, Propose, Planned, Cancelled, Amend, Check, UndoStep,
                CheckUndone, vars
  <2>2. ASSUME Clean'
        PROVE  ~Drift /\ ~CountDown
    <3>1. ~CountDown
      BY <2>2 DEF CountDown
    <3>2. ~Drift
      <4>1. Drift => drifts' = drifts + 1
        BY DEF Drift
      <4>2. drifts + 1 # drifts
        BY <1>0
      <4> QED
        BY <2>1, <4>1, <4>2
    <3> QED
      BY <3>1, <3>2
  <2> QED
    BY <2>1, <2>2
<1>2. CASE Step
  <2>1. PICK o, n : StepOf(o, n)
    BY <1>2, StepFacts
  <2>2. /\ definition' = definition /\ filled' = filled /\ careless' = careless
        /\ drifts' = drifts /\ counted' = counted /\ phase' = "applying"
        /\ respelled' = respelled
    BY <1>2 DEF Step
  <2>3. ~Drift /\ ~CountDown
    BY <2>2 DEF Drift, CountDown, Waiting
  <2> QED
    BY <2>1, <2>2, <2>3 DEF StepOf
<1>3. CASE Drift
  <2>1. definition' = definition /\ filled' = filled /\ kept' = kept /\ drifts' = drifts + 1
        /\ respelled' = respelled
    BY <1>3 DEF Drift
  <2>2. drifts' # 0
    BY <1>0, <2>1
  <2> QED
    BY <2>1, <2>2
<1>4. CASE CountDown
  BY <1>4 DEF CountDown
<1> QED
  BY <1>1, <1>2, <1>3, <1>4 DEF Next

LEMMA MadeInit ==
  ASSUME Init
  PROVE  MadeInv
BY DEF Init, MadeInv

\* A step of a MikroMCP that does what it reports leaves the object as planned.
LEMMA StepAsPlanned ==
  ASSUME WorldInv, NEW o, NEW n, StepOf(o, n), ~careless, ~kept', definition' = definition,
         filled' = filled, definition = "dns_resolver" => filled, respelled = {},
         respelled' = respelled
  PROVE  AsPlanned(o)'
<1>1. /\ definition \in Definition /\ o \in Stepped(definition) /\ o \in Objects(definition)
      /\ filled \in BOOLEAN
  BY DEF StepOf, WorldInv, Stepped
<1>2. GoodFields(definition)
  BY <1>1, CatalogGood DEF GoodDefinition
<1>3. /\ Catalog[definition][o].applied \subseteq Catalog[definition][o].set
      /\ Catalog[definition][o].set \subseteq Fields(definition, o)
  BY <1>1, <1>2, FieldFacts DEF GoodFields
<1>4. /\ live'[o] = IF definition = "typed_remove" THEN None
                    ELSE IF live[o] = None THEN Created(definition, o)
                    ELSE Updated(definition, o)
      /\ live[o] = None \/ filled \/ Permanent(definition) \/ definition = "typed_remove"
  BY DEF StepOf
<1>5. \A f : Wanted(definition, o, f)' = Wanted(definition, o, f)
  BY DEF Wanted, Written
<1>6. CASE definition = "typed_remove"
  BY <1>4, <1>6 DEF AsPlanned
<1>7. CASE definition # "typed_remove" /\ live[o] = None
  <2>1. live'[o] # None
    BY <1>4, <1>7, CreatedFacts, NoneFacts
  <2>2. ASSUME NEW f \in Catalog[definition][o].applied
        PROVE  live'[o][f] = Wanted(definition, o, f)
    <3>1. live'[o][f] = IF f \in Written(definition, o) THEN "new" ELSE "default"
      BY <1>3, <1>4, <1>7, CreatedFacts
    <3>2. definition = "dns_resolver" => f \in Written(definition, o)
      BY <1>3, FieldFacts
    <3> QED
      BY <3>1, <3>2 DEF Wanted
  <2> QED
    BY <1>5, <1>7, <2>1, <2>2 DEF AsPlanned
<1>8. CASE definition # "typed_remove" /\ live[o] # None
  <2>1. live[o] \in [Fields(definition, o) -> Values]
    BY <1>8 DEF StepOf, IsObject
  <2>2. live'[o] # None
    BY <1>4, <1>8, <2>1, UpdatedFacts, NoneFacts
  <2>3. Written(definition, o) = Catalog[definition][o].set
    BY <1>1, <1>2, <1>4, <1>8, FieldFacts DEF GoodFields
  <2>4. ASSUME NEW f \in Catalog[definition][o].applied
        PROVE  live'[o][f] = Wanted(definition, o, f)
    BY <1>3, <1>4, <1>8, <2>1, <2>3, UpdatedFacts DEF Wanted
  <2> QED
    BY <1>5, <1>8, <2>2, <2>4 DEF AsPlanned
<1> QED
  BY <1>6, <1>7, <1>8

\* When every step left its object as planned, verify_apply says so.
LEMMA AsPlannedVerdict ==
  ASSUME definition \in Definition, respelled = {},
         \A k \in DOMAIN StepsOf(definition) : AsPlanned(StepsOf(definition)[k])
  PROVE  ApplyVerdict(definition)
<1>1. GoodSteps(definition) /\ GoodNames(definition)
  BY CatalogGood DEF GoodDefinition
<1>2. \A o \in Stepped(definition) : AsPlanned(o) /\ Parent(definition, o) \in Stepped(definition)
  BY <1>1 DEF GoodSteps, Stepped
<1>3. ToSet(StepsOf(definition)) = Stepped(definition)
  BY DEF ToSet, Stepped
<1>4. CASE definition = "typed_remove"
  <2>1. StepsOf(definition) = <<CHOOSE o \in Objects(definition) : TRUE>>
    BY <1>4 DEF StepsOf
  <2>2. 1 \in DOMAIN StepsOf(definition) /\ StepsOf(definition)[1] \in Stepped(definition)
    BY <2>1 DEF Stepped
  <2>3. StepsOf(definition)[1] = "record"
    BY <1>1, <1>4, <2>2 DEF GoodSteps, GoodNames
  <2>4. live["record"] = None
    BY <1>2, <1>4, <2>2, <2>3 DEF AsPlanned
  <2> QED
    BY <1>4, <2>4 DEF ApplyVerdict
<1>5. CASE definition # "typed_remove"
  BY <1>2, <1>3, <1>5 DEF ApplyVerdict, AsPlanned, There
<1> QED
  BY <1>4, <1>5

LEMMA MadeStep ==
  ASSUME WorldInv, MadeInv, [Next]_vars
  PROVE  MadeInv'
<1> SUFFICES ASSUME Clean', ~kept', respelled' = {}, (definition = "dns_resolver" => filled)'
             PROVE  /\ phase' = "applying" =>
                         \A k \in DOMAIN journal' : AsPlanned(StepsOf(definition)[k])'
                    /\ phase' # "unverified"
  BY DEF MadeInv
<1>1. /\ definition' = definition /\ filled' = filled /\ ~kept /\ Clean
      /\ (definition = "dns_resolver" => filled) /\ ~Drift /\ ~CountDown
  BY CleanFacts
<1>0. CASE respelled' # respelled
  BY <1>0, CleanFacts
<1> SUFFICES ASSUME respelled' = respelled
             PROVE  /\ phase' = "applying" =>
                         \A k \in DOMAIN journal' : AsPlanned(StepsOf(definition)[k])'
                    /\ phase' # "unverified"
  BY <1>0
<1>2. /\ phase = "applying" => \A k \in DOMAIN journal : AsPlanned(StepsOf(definition)[k])
      /\ phase # "unverified"
  BY <1>1 DEF MadeInv
<1>3. definition \in Definition /\ GoodSteps(definition)
  BY CatalogGood DEF WorldInv, GoodDefinition
<1>4. CASE Step
  <2>1. PICK o, n : StepOf(o, n)
    BY <1>4, StepFacts
  <2>2. AsPlanned(o)'
    BY <1>1, <2>1, StepAsPlanned DEF Clean
  <2>3. /\ phase' = "applying" /\ phase \in {"approval", "applying"}
        /\ Len(journal) \in Nat /\ DOMAIN journal = 1..Len(journal)
        /\ DOMAIN journal' = 1..n /\ n = Len(journal) + 1
        /\ n \in DOMAIN StepsOf(definition) /\ o = StepsOf(definition)[n]
    BY <1>4, <2>1 DEF Step, StepOf, WorldInv
  <2>4. phase = "approval" => DOMAIN journal = {}
    BY DEF WorldInv
  <2>5. ASSUME NEW k \in 1..Len(journal)
        PROVE  AsPlanned(StepsOf(definition)[k])'
    <3>1. AsPlanned(StepsOf(definition)[k])
      BY <1>2, <2>3, <2>4, <2>5
    <3>2. /\ k \in DOMAIN StepsOf(definition) /\ StepsOf(definition)[k] # o
          /\ StepsOf(definition)[k] \in Objects(definition)
      BY <1>3, <2>3, <2>5 DEF GoodSteps, Stepped
    <3>3. live'[StepsOf(definition)[k]] = live[StepsOf(definition)[k]]
      BY <2>1, <3>2 DEF StepOf
    <3> QED
      BY <1>1, <3>1, <3>3 DEF AsPlanned, Wanted, Written
  <2>6. \A k \in 1..n : k = n \/ k \in 1..Len(journal)
    BY <2>3
  <2> QED
    BY <1>1, <2>2, <2>3, <2>5, <2>6
<1>5. CASE Check
  <2>1. /\ phase = "applying" /\ Len(journal) = Len(StepsOf(definition))
        /\ phase' = IF ApplyVerdict(definition) THEN "verified" ELSE "unverified"
    BY <1>5 DEF Check
  <2>2. DOMAIN journal = DOMAIN StepsOf(definition)
    BY <1>3, <2>1 DEF GoodSteps, WorldInv
  <2>3. ApplyVerdict(definition)
    BY <1>2, <1>3, <2>1, <2>2, AsPlannedVerdict
  <2> QED
    BY <2>1, <2>3
<1>6. CASE UNCHANGED vars
  BY <1>1, <1>2, <1>6 DEF vars, plan, carried, AsPlanned, Wanted, Written
<1>7. CASE Open \/ FillIn \/ Submit \/ Propose \/ Planned \/ Cancelled \/ Amend \/ UndoStep
           \/ CheckUndone
  BY <1>7 DEF Open, FillIn, Submit, Propose, Planned, Cancelled, Amend, UndoStep, CheckUndone
<1> QED
  BY <1>1, <1>4, <1>5, <1>6, <1>7 DEF Next

-------------------------------------------------------------------------------
(* BackInv.                                                                   *)

LEMMA BackInit ==
  ASSUME Init
  PROVE  BackInv
BY DEF Init, BackInv, Begun

\* When every object is as in the baseline, maybe with another .id, verify_rollback says so.
LEMMA AlikeVerdict ==
  ASSUME definition \in Definition, \A o \in Objects(definition) : Alike(o)
  PROVE  RollbackVerdict(definition, live)
<1>1. /\ \A o \in Objects(definition) : /\ Parent(definition, o) \in Objects(definition)
                                       /\ "id" \notin Catalog[definition][o].restored
                                       /\ Catalog[definition][o].restored
                                            \subseteq Catalog[definition][o].captured
  BY CatalogGood DEF GoodDefinition, GoodSteps, GoodFields
<1>2. ASSUME NEW o \in Objects(definition)
      PROVE  /\ There(definition, live, o) = There(definition, baseline, o)
             /\ There(definition, live, o) => \A f \in RestoredFields(definition, o) :
                                               live[o][f] = baseline[o][f]
  <2>1. RestoredFields(definition, o) \subseteq Fields(definition, o) \ {"id"}
    BY <1>1, <1>2, FieldFacts DEF RestoredFields
  <2>2. Alike(o) /\ Alike(Parent(definition, o))
    BY <1>1, <1>2
  <2> QED
    BY <2>1, <2>2 DEF Alike, There
<1> QED
  BY <1>2 DEF RollbackVerdict

LEMMA BackStep ==
  ASSUME WorldInv, BackInv, [Next]_vars
  PROVE  BackInv'
<1> DEFINE Undoing == \A o \in Objects(definition) \ Standing :
                        IF phase = "undoing" THEN Alike(o) ELSE live[o] = baseline[o]
           Back == /\ \A k \in DOMAIN journal : journal[k] = baseline[StepsOf(definition)[k]]
                   /\ Undoing
<1> SUFFICES ASSUME Clean'
             PROVE  /\ (phase \in Begun \cup {"approval"} => Back)'
                    /\ phase' # "notUndone"
                    /\ phase' = "undone" => \A o \in Objects(definition)' : Alike(o)'
  BY DEF BackInv
<1>1. definition' = definition /\ Clean /\ ~Drift /\ ~CountDown
  BY CleanFacts
<1>2. /\ (phase \in Begun \cup {"approval"} => Back) /\ phase # "notUndone"
      /\ phase = "undone" => \A o \in Objects(definition) : Alike(o)
  BY <1>1 DEF BackInv
<1>3. /\ definition \in Definition /\ GoodSteps(definition)
      /\ Len(journal) \in Nat /\ undone \in 0..Len(journal)
  BY CatalogGood DEF WorldInv, GoodDefinition
<1>4. CASE Planned
  <2>1. phase' = "approval" /\ journal' = <<>> /\ baseline' = live /\ live' = live
    BY <1>4 DEF Planned, WorldInv, carried
  <2>2. DOMAIN journal' = {}
    BY <2>1
  <2> QED
    BY <2>1, <2>2
<1>5. CASE Step
  <2>1. PICK o, n : StepOf(o, n)
    BY <1>5, StepFacts
  <2>2. /\ phase' = "applying" /\ phase \in {"approval", "applying"} /\ baseline' = baseline
        /\ Len(journal) \in Nat /\ DOMAIN journal = 1..Len(journal)
        /\ DOMAIN journal' = 1..n /\ Len(journal') = n /\ n = Len(journal) + 1
        /\ n \in DOMAIN StepsOf(definition) /\ o = StepsOf(definition)[n]
        /\ undone' = undone /\ undone = 0
    <3>1. phase = "applying" => undone = 0
      BY DEF WorldInv
    <3>2. phase = "approval" => undone = 0
      <4>1. phase = "approval" => journal = <<>> /\ undone \in 0..Len(journal)
        BY DEF WorldInv
      <4> QED
        BY <4>1
    <3> QED
      BY <1>5, <2>1, <3>1, <3>2 DEF Step, StepOf, WorldInv
  <2>3. /\ \A k \in DOMAIN journal : journal[k] = baseline[StepsOf(definition)[k]]
        /\ \A p \in Objects(definition) \ Standing : live[p] = baseline[p]
    BY <1>2, <2>2 DEF Begun
  <2>4. o \notin Standing /\ o \in Objects(definition)
    BY <1>3, <2>1, <2>2 DEF Standing, GoodSteps, StepOf
  <2>5. \A k \in DOMAIN journal' : journal'[k] = baseline[StepsOf(definition)[k]]
    <3>1. \A k \in 1..n : k = n \/ k \in 1..Len(journal)
      BY <2>2
    <3> QED
      BY <2>1, <2>2, <2>3, <2>4, <3>1 DEF StepOf
  <2>6. Standing \cup {o} \subseteq Standing'
    BY <1>1, <2>2 DEF Standing
  <2>7. \A p \in Objects(definition) \ Standing' : live'[p] = baseline[p]
    BY <2>1, <2>3, <2>6 DEF StepOf
  <2> QED
    BY <1>1, <2>2, <2>5, <2>7
<1>6. CASE Check
  <2>1. /\ phase = "applying" /\ phase' \in {"verified", "unverified"}
        /\ live' = live /\ baseline' = baseline /\ journal' = journal /\ undone' = undone
    BY <1>6 DEF Check, carried
  <2> QED
    BY <1>1, <1>2, <2>1 DEF Begun, Standing
<1>7. CASE UndoStep
  <2>1. PICK o, n : UndoOf(o, n)
    BY <1>7, UndoFacts
  <2>2. /\ phase' = "undoing" /\ phase \in {"verified", "unverified", "undoing"}
        /\ baseline' = baseline /\ journal' = journal
        /\ n = Len(journal) - undone /\ undone' = undone + 1
        /\ n \in DOMAIN journal /\ o = StepsOf(definition)[n] /\ n \in DOMAIN StepsOf(definition)
    BY <1>7, <2>1 DEF UndoStep, UndoOf
  <2>3. Back
    BY <1>2, <2>2 DEF Begun
  <2>4. \A k \in DOMAIN journal' : journal'[k] = baseline[StepsOf(definition)[k]]
    BY <2>2, <2>3
  <2>5. Standing \subseteq Standing' \cup {o}
    <3>1. Len(journal') - undone' = n - 1 /\ Len(journal) - undone = n /\ n \in Nat
      BY <1>3, <2>2
    <3>2. \A k \in 1..n : k \in 1..(n - 1) \/ k = n
      BY <3>1
    <3> QED
      BY <1>1, <2>2, <3>1, <3>2 DEF Standing
  <2>6. /\ live'[o] = IF live[o] = None THEN PutBack(journal[n]) ELSE journal[n]
        /\ IsObject(definition, o, journal[n]) /\ journal[n] = baseline[o]
    BY <1>1, <2>1, <2>2, <2>3 DEF UndoOf, Clean
  <2>7. /\ (live'[o] = None) <=> (baseline[o] = None)
        /\ live'[o] # None => \A f \in Fields(definition, o) \ {"id"} : live'[o][f] = baseline[o][f]
    <3> DEFINE saved == journal[n]
    <3>1. /\ IsObject(definition, o, saved) /\ saved = baseline[o]
          /\ live'[o] = PutBack(saved) \/ live'[o] = saved
      BY <2>6
    <3> HIDE DEF saved
    <3>2. /\ (PutBack(saved) = None) <=> (saved = None)
          /\ saved # None =>
               \A f \in Fields(definition, o) \ {"id"} : PutBack(saved)[f] = saved[f]
      <4>1. IsObject(definition, o, saved) /\ IsObject(definition, o, PutBack(saved))
        BY <3>1, PutBackFacts
      <4>2. (PutBack(saved) = None) <=> (saved = None)
        BY <4>1, PutBackFacts
      <4>3. saved # None =>
               \A f \in Fields(definition, o) \ {"id"} : PutBack(saved)[f] = saved[f]
        BY <4>1, PutBackFacts
      <4> QED
        BY <4>2, <4>3
    <3> QED
      BY <3>1, <3>2
  <2>8. ASSUME NEW p \in Objects(definition) \ Standing', p # o
        PROVE  /\ (live'[p] = None) <=> (baseline[p] = None)
               /\ live'[p] # None =>
                    \A f \in Fields(definition, p) \ {"id"} : live'[p][f] = baseline[p][f]
    <3>1. p \in Objects(definition) \ Standing /\ live'[p] = live[p]
      BY <2>1, <2>5, <2>8 DEF UndoOf
    <3>2. Alike(p) \/ live[p] = baseline[p]
      BY <2>3, <3>1
    <3> QED
      BY <3>1, <3>2 DEF Alike
  <2>9. \A p \in Objects(definition) \ Standing' : Alike(p)'
    BY <1>1, <2>2, <2>7, <2>8 DEF Alike
  <2> QED
    BY <1>1, <2>2, <2>4, <2>9
<1>8. CASE CheckUndone
  <2>1. /\ phase = "undoing" /\ undone = Len(journal) /\ live' = live /\ baseline' = baseline
        /\ phase' = IF RollbackVerdict(definition, live) THEN "undone" ELSE "notUndone"
    BY <1>8 DEF CheckUndone
  <2>2. Standing = {}
    <3>1. Len(journal) - undone = 0
      BY <1>3, <2>1
    <3> QED
      BY <3>1 DEF Standing
  <2>3. \A o \in Objects(definition) : Alike(o)
    BY <1>2, <2>1, <2>2 DEF Begun
  <2>4. phase' = "undone"
    BY <1>3, <2>1, <2>3, AlikeVerdict
  <2> QED
    BY <1>1, <2>1, <2>3, <2>4 DEF Begun, Alike
<1>9. CASE UNCHANGED vars
  BY <1>1, <1>2, <1>9 DEF vars, plan, carried, Alike, Standing
<1>10. CASE Open \/ FillIn \/ Submit \/ Propose \/ Cancelled \/ Amend
  <2>1. phase' \notin Begun \cup {"approval", "notUndone", "undone"}
    BY <1>10 DEF Open, FillIn, Submit, Propose, Cancelled, Amend, Begun
  <2> QED
    BY <2>1
<1> QED
  BY <1>1, <1>4, <1>5, <1>6, <1>7, <1>8, <1>9, <1>10 DEF Next

-------------------------------------------------------------------------------
(* The theorems.                                                              *)

LEMMA DefAlways == Spec => []DefInv
<1>1. Init => DefInv
  BY WorldInit, FormInit, SkipInit, PutBackInit, MadeInit, BackInit DEF DefInv
<1>2. DefInv /\ [Next]_vars => DefInv'
  BY WorldStep, FormStep, SkipStep, PutBackStep, MadeStep, BackStep, DefinitionBounds DEF DefInv
<1> QED
  BY <1>1, <1>2, PTL DEF Spec

\* No step that left the router as it was is taken for done, whatever MikroMCP says and whatever
\* it found: the post-check passes only where nothing it compares was left to do (verify_apply of
\* catalog.py, extended.py and typed.py).
THEOREM SkippedStepsSeen == Spec => []SkippedWasThere
<1>1. DefInv => SkippedWasThere
  BY DEF DefInv, SkipInv
<1> QED
  BY <1>1, DefAlways, PTL

\* A change somebody else made between the reading of the baseline and the step, in what
\* verify_rollback compares, keeps the rollback from being reported as verified.
THEOREM DriftSeen == Spec => []RollbackSeesDrift
<1>1. DefInv => RollbackSeesDrift
  BY DEF DefInv, PutBackInv, SeesDrift, RollbackSeesDrift, RollbackVerdict, RestoredFields
<1> QED
  BY <1>1, DefAlways, PTL

\* For each definition, whatever the router held before: a clean apply verifies, but for the
\* spellings and the empty TTL; its rollback verifies and leaves every field as it was; and
\* what passes the form of a bridge fits one plan.
THEOREM NoFalseAlarm == Spec => []CleanRunSucceeds
<1>1. DefInv => CleanRunSucceeds
  <2> SUFFICES ASSUME DefInv
               PROVE  CleanRunSucceeds
    OBVIOUS
  <2>1. /\ WorldInv /\ phase # "refused"
        /\ Clean => phase # "notUndone"
        /\ Clean /\ phase = "undone" => \A o \in Objects(definition) : Alike(o)
        /\ Clean /\ ~kept /\ respelled = {} /\ (definition = "dns_resolver" => filled) => phase # "unverified"
    BY DEF DefInv, FormInv, MadeInv, BackInv
  <2> QED
    BY <2>1 DEF CleanRunSucceeds, Clean
<1> QED
  BY <1>1, DefAlways, PTL

\* No plan is built before a person said what only a person may say, also when the model
\* proposed the change (sanitize_proposal).
THEOREM PersonConfirms == Spec => []HumanConfirms
<1>1. DefInv => HumanConfirms
  BY DEF DefInv, FormInv
<1> QED
  BY <1>1, DefAlways, PTL

===============================================================================
