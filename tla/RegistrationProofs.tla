-------------------------- MODULE RegistrationProofs --------------------------
(***************************************************************************)
(* For any routers, any number of attempts and any faults: the types, that  *)
(* MikroMCP is never told to accept a certificate nobody confirmed, and     *)
(* that the files fit together as long as one attempt runs at a time.       *)
(***************************************************************************)
EXTENDS Registration, TLAPS

\* There is a router.
LEMMA SomeoneIsRouter == Someone \in Routers
BY RegistrationBounds DEF Someone

\* An empty disk is a state of the disk.
LEMMA NothingTyped == Nothing \in Disks /\ Nothing.routers \in Entries
BY DEF Nothing, Disks, Entries, Unknown, NoPair, Absent, Secrets

\* Replacing one file leaves a state of the disk.
LEMMA DiskFile ==
  ASSUME NEW d \in Disks
  PROVE  /\ \A v \in Entries : [d EXCEPT !.routers = v] \in Disks
         /\ \A v \in SUBSET Routers : [d EXCEPT !.allowed = v] \in Disks
         /\ \A v \in SUBSET Routers : [d EXCEPT !.dotenv = v] \in Disks
         /\ \A v \in [Routers -> [user : Secrets, pass : Secrets]] :
              [d EXCEPT !.vault = v] \in Disks
         /\ \A v \in Nat : [d EXCEPT !.key = v] \in Disks
BY DEF Disks

\* A half of a pair is set in the vault.
LEMMA StoredTyped ==
  ASSUME TypeOK, NEW r \in Routers, NEW half \in {"user", "pass"},
         NEW who \in {0} \cup Attempt, Store(r, half, who)
  PROVE  /\ disk' \in Disks /\ keysMade' \in Nat /\ sshHosts' = sshHosts
         /\ disk'.routers = disk.routers
<1> DEFINE key == IF disk.key = 0 THEN keysMade + 1 ELSE disk.key
           new == [of |-> who, key |-> key]
<1>1. disk \in Disks /\ keysMade \in Nat /\ disk.key \in Nat
  BY DEF TypeOK, Disks
<1>2. key \in Nat
  BY <1>1
<1>3. new \in Secrets
  BY <1>2 DEF Secrets
<1>4. disk' = [disk EXCEPT !.key = key, !.vault[r][half] = new]
  BY DEF Store, Stored
<1> HIDE DEF key, new
<1>5. [disk.vault EXCEPT ![r][half] = new] \in [Routers -> [user : Secrets, pass : Secrets]]
  <2>1. disk.vault \in [Routers -> [user : Secrets, pass : Secrets]]
    BY <1>1 DEF Disks
  <2>2. [disk.vault[r] EXCEPT ![half] = new] \in [user : Secrets, pass : Secrets]
    BY <1>3, <2>1
  <2> QED
    BY <2>1, <2>2
<1>6. disk' \in Disks /\ disk'.routers = disk.routers
  BY <1>1, <1>2, <1>4, <1>5 DEF Disks
<1> QED
  BY <1>1, <1>6 DEF Store

\* The locals of threads that are gone are typed.
LEMMA ForgetTyped ==
  ASSUME TypeOK, NEW A, Forget(A)
  PROVE  /\ router' \in [Attempt -> Routers] /\ seen' \in [Attempt -> {0} \cup Certs]
         /\ known' \in [Attempt -> BOOLEAN] /\ snap' \in [Attempt -> Disks]
         /\ routers' \in [Attempt -> Entries] /\ env' \in [Attempt -> SUBSET Routers]
         /\ moving' \in [Attempt -> Routers]
<1>1. router' \in [Attempt -> Routers] /\ moving' \in [Attempt -> Routers]
  BY SomeoneIsRouter DEF Forget, TypeOK
<1>2. seen' \in [Attempt -> {0} \cup Certs] /\ known' \in [Attempt -> BOOLEAN]
  BY DEF Forget, TypeOK
<1>3. snap' \in [Attempt -> Disks] /\ routers' \in [Attempt -> Entries]
  BY NothingTyped DEF Forget, TypeOK
<1>4. env' \in [Attempt -> SUBSET Routers]
  BY DEF Forget, TypeOK
<1> QED
  BY <1>1, <1>2, <1>3, <1>4

--------------------------------------------------------------------------------

\* The first state is typed, whatever was registered before.
LEMMA TypeInit == Init => TypeOK
<1> SUFFICES ASSUME Init PROVE TypeOK
  OBVIOUS
<1>1. \A r \in Routers : Old(r) \in Disks /\ Current(r) \in Disks
  BY NothingTyped DEF Old, Current, Nothing, Disks, Entries, Unknown, NoPair, Absent, Secrets,
     Certs
<1>2. Targets \subseteq Routers
  BY SomeoneIsRouter DEF Targets
<1>3. disk \in Disks
  BY <1>1, <1>2, NothingTyped DEF Init
<1>4. disk.key \in Nat /\ \A r \in Routers : disk.routers[r].pin \in {0} \cup Certs
  BY <1>3 DEF Disks, Entries
<1>5. confirmed \in [Routers -> SUBSET Certs] /\ cert \in [Routers -> Certs]
  BY <1>4 DEF Init, Certs
<1>6. at \in [Attempt -> Steps] /\ router \in [Attempt -> Routers]
      /\ moving \in [Attempt -> Routers]
  BY SomeoneIsRouter DEF Init, Steps, Ended
<1>7. snap \in [Attempt -> Disks] /\ routers \in [Attempt -> Entries]
  BY NothingTyped DEF Init
<1>8. seen \in [Attempt -> {0} \cup Certs] /\ known \in [Attempt -> BOOLEAN]
      /\ env \in [Attempt -> SUBSET Routers]
  BY DEF Init
<1>9. attempts \in 0..MaxAttempts /\ keysMade \in Nat
  BY <1>4, RegistrationBounds DEF Init
<1>10. busy \in BOOLEAN /\ asking \in {0} \cup Attempt /\ chat = {} /\ trusting = {}
       /\ sshHosts = {} /\ faults \in Faults
  BY DEF Init
<1> QED
  BY <1>3, <1>5, <1>6, <1>7, <1>8, <1>9, <1>10 DEF TypeOK

\* Two named steps are steps.
LEMMA StepsNamed ==
  /\ Ended \subseteq Steps /\ DOMAIN AfterFile \subseteq Steps
  /\ DOMAIN AfterFile = {"routers", "allowed", "dotenv", "vault", "key"}
  /\ \A f \in DOMAIN AfterFile : AfterFile[f] \in Steps
BY DEF Steps, Ended, AfterFile

\* Preparing and the question.
LEMMA TypePreparing ==
  ASSUME TypeOK, NEW a \in Attempt,
         Capture(a) \/ CaptureFails(a) \/ Lookup(a) \/ Review(a) \/ Snapshot(a) \/ Load(a)
  PROVE  TypeOK'
<1> USE DEF Go, files, screen, ghost, Steps, Ended
<1>0. disk.routers \in Entries /\ disk.dotenv \in SUBSET Routers
  BY DEF TypeOK, Disks
<1>1. CASE Capture(a)
  BY <1>1 DEF Capture, TypeOK
<1>2. CASE CaptureFails(a)
  BY <1>2 DEF CaptureFails, TypeOK
<1>3. CASE Lookup(a)
  BY <1>3 DEF Lookup, TypeOK
<1>4. CASE Review(a)
  <2>1. at' \in [Attempt -> Steps] /\ asking' \in {0} \cup Attempt
    BY <1>4 DEF Review, TypeOK
  <2>2. \E A : Forget(A)
    BY <1>4 DEF Review
  <2> QED
    BY <1>4, <2>1, <2>2, ForgetTyped DEF Review, TypeOK
<1>5. CASE Snapshot(a)
  BY <1>5 DEF Snapshot, TypeOK
<1>6. CASE Load(a)
  BY <1>0, <1>6 DEF Load, TypeOK
<1> QED
  BY <1>1, <1>2, <1>3, <1>4, <1>5, <1>6

\* persist.
LEMMA TypePersisting ==
  ASSUME TypeOK, NEW a \in Attempt,
         \/ \E r \in Routers : Migrated(a, r) \/ MigrateUser(a, r)
         \/ MigratePass(a) \/ StoreUser(a) \/ StorePass(a)
         \/ WriteRouters(a) \/ WriteAllowed(a) \/ WriteDotenv(a)
  PROVE  TypeOK'
<1> USE DEF Go, files, screen, ghost, Steps, Ended
<1>0. router[a] \in Routers /\ moving[a] \in Routers /\ seen[a] \in {0} \cup Certs
      /\ routers[a] \in Entries /\ env[a] \in SUBSET Routers /\ disk \in Disks
  BY DEF TypeOK
<1>1. ASSUME NEW r \in Routers, Migrated(a, r) PROVE TypeOK'
  BY <1>0, <1>1 DEF Migrated, TypeOK
<1>2. ASSUME NEW r \in Routers, MigrateUser(a, r) PROVE TypeOK'
  BY <1>2, StoredTyped DEF MigrateUser, TypeOK
<1>3. CASE MigratePass(a)
  <2>1. disk' \in Disks /\ keysMade' \in Nat /\ sshHosts' = sshHosts
    BY <1>0, <1>3, StoredTyped DEF MigratePass
  <2> QED
    BY <1>0, <1>3, <2>1 DEF MigratePass, TypeOK
<1>4. CASE StoreUser(a)
  <2>1. disk' \in Disks /\ keysMade' \in Nat /\ sshHosts' = sshHosts
    BY <1>0, <1>4, StoredTyped DEF StoreUser
  <2> QED
    BY <1>4, <2>1 DEF StoreUser, TypeOK
<1>5. CASE StorePass(a)
  <2>1. disk' \in Disks /\ keysMade' \in Nat /\ sshHosts' = sshHosts
    BY <1>0, <1>5, StoredTyped DEF StorePass
  <2> QED
    BY <1>0, <1>5, <2>1 DEF StorePass, TypeOK
<1>6. CASE WriteRouters(a)
  <2>1. [routers[a] EXCEPT ![router[a]] = [pin |-> seen[a], ssh |-> FALSE]] \in Entries
    BY <1>0 DEF Entries
  <2>2. routers' \in [Attempt -> Entries] /\ routers'[a] \in Entries
    BY <1>6, <2>1 DEF WriteRouters, TypeOK
  <2>3. disk' \in Disks
    BY <1>0, <1>6, <2>2, DiskFile DEF WriteRouters
  <2> QED
    BY <1>6, <2>2, <2>3 DEF WriteRouters, TypeOK
<1>7. CASE WriteAllowed(a)
  <2>1. disk' \in Disks
    BY <1>0, <1>7, DiskFile DEF WriteAllowed, In
  <2> QED
    BY <1>7, <2>1 DEF WriteAllowed, TypeOK
<1>8. CASE WriteDotenv(a)
  <2>1. disk' \in Disks
    BY <1>0, <1>8, DiskFile DEF WriteDotenv
  <2> QED
    BY <1>8, <2>1 DEF WriteDotenv, TypeOK
<1> QED
  BY <1>1, <1>2, <1>3, <1>4, <1>5, <1>6, <1>7, <1>8

\* Failures, verification, and the clean-up.
LEMMA TypeVerifying ==
  ASSUME TypeOK, NEW a \in Attempt,
         \/ VaultUnreadable(a) \/ WriteFails(a) \/ Environment(a) \/ Verified(a)
         \/ NotVerified(a) \/ PutBack(a) \/ PutBackFails(a)
         \/ ShowError(a) \/ ShowConnected(a)
  PROVE  TypeOK'
<1> USE DEF Go, files, screen, ghost
<1>0. disk \in Disks /\ router[a] \in Routers /\ snap[a] \in Disks
      /\ keysMade \in Nat /\ at \in [Attempt -> Steps]
  BY DEF TypeOK
<1>1. CASE VaultUnreadable(a) \/ WriteFails(a) \/ NotVerified(a)
  BY <1>1 DEF VaultUnreadable, WriteFails, NotVerified, TypeOK, Steps, AfterFile
<1>2. CASE Verified(a)
  BY <1>2 DEF Verified, TypeOK, Steps
<1>3. CASE Environment(a)
  <2> DEFINE left == {r \in In(disk.routers) \cap disk.dotenv : ~HasPair(disk, r)}
             key  == IF left # {} /\ disk.key = 0 THEN keysMade + 1 ELSE disk.key
             pair == [user |-> [of |-> 0, key |-> key], pass |-> [of |-> 0, key |-> key]]
             new  == [r \in Routers |-> IF r \in left THEN pair ELSE disk.vault[r]]
  <2>1. key \in Nat
    BY <1>0 DEF Disks
  <2> HIDE DEF left
  <2>2. pair \in [user : Secrets, pass : Secrets]
    BY <2>1 DEF Secrets
  <2> HIDE DEF pair
  <2>3. new \in [Routers -> [user : Secrets, pass : Secrets]]
    BY <1>0, <2>2 DEF Disks
  <2>4. disk' = [disk EXCEPT !.dotenv = @ \ In(disk.routers), !.key = key, !.vault = new]
    BY <1>0, <1>3 DEF Environment, Disks, left, pair
  <2>5. keysMade' \in Nat
    BY <1>0, <1>3, <2>1 DEF Environment, left
  <2> HIDE DEF key, new
  <2>6. disk' \in Disks
    BY <1>0, <2>1, <2>3, <2>4 DEF Disks
  <2> QED
    BY <1>3, <2>5, <2>6 DEF Environment, TypeOK, Steps
<1>4. CASE PutBack(a)
  <2>1. at[a] \in {"routers", "allowed", "dotenv", "vault", "key"}
        /\ at' \in [Attempt -> Steps]
    BY <1>0, <1>4, StepsNamed DEF PutBack
  <2>2. disk' \in Disks
    <3>1. disk' = [disk EXCEPT ![at[a]] = snap[a][at[a]]]
      BY <1>4 DEF PutBack
    <3>2. CASE at[a] = "routers"
      BY <1>0, <3>1, <3>2 DEF Disks
    <3>3. CASE at[a] = "allowed"
      BY <1>0, <3>1, <3>3 DEF Disks
    <3>4. CASE at[a] = "dotenv"
      BY <1>0, <3>1, <3>4 DEF Disks
    <3>5. CASE at[a] = "vault"
      BY <1>0, <3>1, <3>5 DEF Disks
    <3>6. CASE at[a] = "key"
      BY <1>0, <3>1, <3>6 DEF Disks
    <3> QED
      BY <2>1, <3>2, <3>3, <3>4, <3>5, <3>6
  <2> QED
    BY <1>4, <2>1, <2>2 DEF PutBack, TypeOK
<1>5. CASE PutBackFails(a)
  BY <1>5 DEF PutBackFails, TypeOK, Steps
<1>6. CASE ShowError(a)
  <2>1. at' \in [Attempt -> Steps] /\ Forget({a})
    BY <1>6 DEF ShowError, TypeOK, Steps, Ended
  <2> QED
    BY <1>6, <2>1, ForgetTyped DEF ShowError, TypeOK
<1>7. CASE ShowConnected(a)
  <2>1. at' \in [Attempt -> Steps] /\ Forget({a}) /\ chat' \subseteq Routers
    BY <1>0, <1>7 DEF ShowConnected, TypeOK, Steps, Ended
  <2> QED
    BY <1>7, <2>1, ForgetTyped DEF ShowConnected, TypeOK
<1> QED
  BY <1>1, <1>2, <1>3, <1>4, <1>5, <1>6, <1>7

\* What a behaviour deals with are routers.
LEMMA TargetsAreRouters == Targets \subseteq Routers
BY SomeoneIsRouter DEF Targets

\* The operator, the chat and the world.
LEMMA TypeAround ==
  ASSUME TypeOK,
         \/ \E r \in Targets : Connect(r) \/ TrustSsh(r) \/ TrustedSsh(r) \/ CertChanges(r)
         \/ Trusted \/ Refused \/ LeaveChat \/ Kill \/ KillTrusting
  PROVE  TypeOK'
<1> USE DEF Go, files, thread, screen, ghost
<1>1. ASSUME NEW r \in Routers, Connect(r) PROVE TypeOK'
  <2>1. attempts' \in 1..MaxAttempts /\ attempts' \in 0..MaxAttempts
    BY <1>1, RegistrationBounds DEF Connect, TypeOK
  <2>2. at' \in [Attempt -> Steps] /\ router' \in [Attempt -> Routers]
    BY <1>1 DEF Connect, TypeOK, Steps
  <2> QED
    BY <1>1, <2>1, <2>2 DEF Connect, TypeOK
<1>2. ASSUME NEW r \in Routers, TrustSsh(r) PROVE TypeOK'
  <2>0. disk \in Disks /\ disk.routers \in Entries
    BY DEF TypeOK, Disks
  <2>1. [disk.routers EXCEPT ![r].ssh = TRUE] \in Entries
    BY <2>0 DEF Entries
  <2>2. disk' = [disk EXCEPT !.routers = [disk.routers EXCEPT ![r].ssh = TRUE]]
    BY <1>2, <2>0 DEF TrustSsh, Disks
  <2>3. disk' \in Disks
    BY <2>0, <2>1, <2>2, DiskFile
  <2> QED
    BY <1>2, <2>3 DEF TrustSsh, TypeOK
<1>3. ASSUME NEW r \in Routers, TrustedSsh(r) PROVE TypeOK'
  BY <1>3 DEF TrustedSsh, TypeOK
<1>4. ASSUME NEW r \in Routers, CertChanges(r) PROVE TypeOK'
  BY <1>4 DEF CertChanges, TypeOK, Certs
<1>5. CASE Trusted
  <2>1. asking \in Attempt /\ router[asking] \in Routers /\ seen[asking] \in {0} \cup Certs
    BY <1>5 DEF Trusted, TypeOK
  <2>2. at' \in [Attempt -> Steps]
    BY <1>5 DEF Trusted, TypeOK, Steps
  <2> QED
    BY <1>5, <2>1, <2>2 DEF Trusted, TypeOK
<1>6. CASE Refused
  <2>1. at' \in [Attempt -> Steps] /\ Forget({asking})
    BY <1>6 DEF Refused, TypeOK, Steps, Ended
  <2> QED
    BY <1>6, <2>1, ForgetTyped DEF Refused, TypeOK
<1>7. CASE LeaveChat
  BY <1>7 DEF LeaveChat, TypeOK
<1>8. CASE Kill
  <2>1. at' \in [Attempt -> Steps] /\ Forget(Running)
    BY <1>8 DEF Kill, TypeOK, Steps, Ended
  <2> QED
    BY <1>8, <2>1, ForgetTyped DEF Kill, TypeOK
<1>9. CASE KillTrusting
  BY <1>9 DEF KillTrusting, TypeOK
<1> QED
  BY <1>1, <1>2, <1>3, <1>4, <1>5, <1>6, <1>7, <1>8, <1>9, TargetsAreRouters

\* Every step keeps the types.
LEMMA TypeStep == TypeOK /\ [Next]_vars => TypeOK'
<1> SUFFICES ASSUME TypeOK, [Next]_vars PROVE TypeOK'
  OBVIOUS
<1>1. ASSUME NEW a \in Attempt, Works(a) PROVE TypeOK'
  BY <1>1, TypePreparing, TypePersisting, TypeVerifying DEF Works
<1>2. CASE UNCHANGED vars
  BY <1>2 DEF vars, files, thread, screen, ghost, TypeOK
<1> QED
  BY <1>1, <1>2, TypeAround DEF Next

\* Every variable keeps its type, whatever overlaps, fails or is killed.
THEOREM TypeCorrect == Spec => []TypeOK
BY TypeInit, TypeStep, PTL DEF Spec

-----------------------------------------------------------------------------
(* PinConfirmed: a fingerprint gets into routers.yaml from a thread that was *)
(* let through, from the copy of the file it loaded, or from its snapshot,   *)
(* and fingerprints of all three were confirmed.                             *)

\* A state of routers.yaml with confirmed fingerprints only.
Clean(file) == \A r \in Routers : file[r].pin \in {0} \cup confirmed[r]

\* The steps between the operator's consent, or a pin that matched, and the write.
Consented == {"snapshot", "load", "migrate", "migratePass", "storePass", "writeRouters"}

PinInv ==
  /\ Clean(disk.routers)
  /\ \A a \in Attempt : Clean(snap[a].routers)
  /\ \A a \in Attempt : Clean(routers[a])
  /\ \A a \in Attempt : at[a] \in Consented \/ (at[a] = "review" /\ known[a]) =>
       seen[a] \in {0} \cup confirmed[router[a]]

\* Nothing is registered that was not confirmed before.
LEMMA PinInit == Init => PinInv
<1> SUFFICES ASSUME Init PROVE PinInv
  OBVIOUS
<1>1. Clean(disk.routers)
  BY DEF Init, Clean
<1>2. Clean(Nothing.routers)
  BY DEF Clean, Nothing, Unknown
<1> QED
  BY <1>1, <1>2 DEF Init, PinInv, Clean, Consented

\* Threads that go away leave nothing behind that was not confirmed.
LEMMA ForgetClean ==
  ASSUME TypeOK, PinInv, NEW A, Forget(A), confirmed' = confirmed, disk' = disk,
         \A b \in Attempt \ A : at'[b] = at[b] \/ at'[b] = "asked"
                                \/ (at[b] = "review" /\ known[b] /\ at'[b] = "snapshot"),
         \A b \in Attempt \cap A : at'[b] \notin Consented \cup {"review"}
  PROVE  PinInv'
<1>1. Clean(Nothing.routers)
  BY DEF Clean, Nothing, Unknown
<1>2. Clean(disk.routers)' /\ \A a \in Attempt : Clean(snap[a].routers)'
      /\ Clean(routers[a])'
  BY <1>1 DEF PinInv, Clean, Forget
<1>3. ASSUME NEW b \in Attempt,
             at'[b] \in Consented \/ (at'[b] = "review" /\ known'[b])
      PROVE  seen'[b] \in {0} \cup confirmed'[router'[b]]
  <2>1. b \notin A
    BY <1>3
  <2>2. seen'[b] = seen[b] /\ router'[b] = router[b] /\ (known'[b] <=> known[b])
    BY <2>1 DEF Forget
  <2>3. at[b] \in Consented \/ (at[b] = "review" /\ known[b])
    BY <1>3, <2>1, <2>2 DEF Consented
  <2> QED
    BY <2>2, <2>3 DEF PinInv
<1> QED
  BY <1>2, <1>3 DEF PinInv

\* A thread whose locals but at stay as they are, and that leaves routers.yaml alone.
LEMMA QuietClean ==
  ASSUME TypeOK, PinInv, NEW a \in Attempt, NEW step, Go(a, step),
         disk'.routers = disk.routers, confirmed' = confirmed,
         UNCHANGED <<snap, routers, router, seen, known>>,
         step \in Consented => at[a] \in Consented, step # "review"
  PROVE  PinInv'
<1>1. Clean(disk.routers)' /\ \A b \in Attempt : Clean(snap[b].routers)'
      /\ Clean(routers[b])'
  BY DEF PinInv, Clean
<1>2. ASSUME NEW b \in Attempt,
             at'[b] \in Consented \/ (at'[b] = "review" /\ known'[b])
      PROVE  at[b] \in Consented \/ (at[b] = "review" /\ known[b])
  <2>1. at'[b] = IF b = a THEN step ELSE at[b]
    BY DEF Go, TypeOK
  <2> QED
    BY <1>2, <2>1
<1> QED
  BY <1>1, <1>2 DEF PinInv

\* The actions that fetch, compare, copy or write a fingerprint.
LEMMA PinMoves ==
  ASSUME TypeOK, PinInv, NEW a \in Attempt,
         Capture(a) \/ Lookup(a) \/ Review(a) \/ Snapshot(a) \/ Load(a) \/ WriteRouters(a)
           \/ PutBack(a)
  PROVE  PinInv'
<1> USE DEF Go, files, screen, ghost
<1>1. CASE Capture(a)
  BY <1>1 DEF Capture, PinInv, Clean, TypeOK, Consented
<1>2. CASE Lookup(a)
  <2>1. Clean(disk.routers)' /\ \A b \in Attempt : Clean(snap[b].routers)'
        /\ Clean(routers[b])'
    BY <1>2 DEF Lookup, PinInv, Clean
  <2>2. router[a] \in Routers /\ disk.routers[router[a]].pin \in {0} \cup confirmed[router[a]]
    BY DEF TypeOK, PinInv, Clean
  <2>3. at'[a] = "review" /\ known'[a] => seen[a] = disk.routers[router[a]].pin
    BY <1>2 DEF Lookup, TypeOK
  <2>4. at'[a] \notin Consented
    BY <1>2 DEF Lookup, TypeOK, Consented
  <2>5. \A b \in Attempt \ {a} : at'[b] = at[b] /\ (known'[b] <=> known[b])
    BY <1>2 DEF Lookup, TypeOK
  <2>6. seen' = seen /\ router' = router /\ confirmed' = confirmed
    BY <1>2 DEF Lookup
  <2>7. ASSUME NEW b \in Attempt,
               at'[b] \in Consented \/ (at'[b] = "review" /\ known'[b])
        PROVE  seen'[b] \in {0} \cup confirmed'[router'[b]]
    <3>1. CASE b = a
      BY <2>2, <2>3, <2>4, <2>6, <2>7, <3>1
    <3>2. CASE b # a
      BY <2>5, <2>6, <2>7, <3>2 DEF PinInv
    <3> QED
      BY <3>1, <3>2
  <2> QED
    BY <2>1, <2>7 DEF PinInv
<1>3. CASE Review(a)
  <2>1. CASE known[a] = TRUE
    <3>1. Forget({}) /\ at[a] = "review" /\ at' = [at EXCEPT ![a] = "snapshot"]
          /\ confirmed' = confirmed /\ disk' = disk
      BY <1>3, <2>1 DEF Review
    <3>2. \A b \in Attempt : at'[b] = at[b] \/ (b = a /\ at'[b] = "snapshot")
      BY <3>1 DEF TypeOK
    <3> QED
      BY <2>1, <3>1, <3>2, ForgetClean
  <2>2. CASE known[a] = FALSE
    <3>1. Forget({asking}) /\ confirmed' = confirmed /\ disk' = disk
          /\ \A b \in Attempt : at'[b] = IF b = a THEN "asked"
                                         ELSE IF b = asking THEN "dropped" ELSE at[b]
      BY <1>3, <2>2 DEF Review
    <3> QED
      BY <3>1, ForgetClean DEF Consented
  <2>3. known[a] \in BOOLEAN
    BY DEF TypeOK
  <2> QED
    BY <2>1, <2>2, <2>3
<1>4. CASE Snapshot(a)
  BY <1>4 DEF Snapshot, PinInv, Clean, TypeOK, Consented
<1>5. CASE Load(a)
  BY <1>5 DEF Load, PinInv, Clean, TypeOK, Consented
<1>6. CASE WriteRouters(a)
  <2>1. router[a] \in Routers /\ seen[a] \in {0} \cup confirmed[router[a]]
    BY <1>6 DEF WriteRouters, PinInv, TypeOK, Consented
  <2>2. routers' = [routers EXCEPT ![a] =
                      [routers[a] EXCEPT ![router[a]] = [pin |-> seen[a], ssh |-> FALSE]]]
        /\ routers[a] \in Entries
    BY <1>6 DEF WriteRouters, TypeOK
  <2>3. \A r \in Routers : routers'[a][r].pin = IF r = router[a] THEN seen[a]
                                                ELSE routers[a][r].pin
    BY <2>1, <2>2 DEF TypeOK, Entries
  <2>4. Clean(routers'[a])
    BY <2>1, <2>3 DEF PinInv, Clean
  <2>5. disk'.routers = routers'[a] /\ confirmed' = confirmed
    BY <1>6 DEF WriteRouters, TypeOK, Disks
  <2>6. \A b \in Attempt : b # a => routers'[b] = routers[b]
    BY <2>2
  <2>7. Clean(disk.routers)' /\ \A b \in Attempt : Clean(snap[b].routers)'
        /\ Clean(routers[b])'
    BY <1>6, <2>4, <2>5, <2>6 DEF WriteRouters, PinInv, Clean
  <2>8. \A b \in Attempt : at'[b] = at[b] \/ at'[b] = "writeAllowed"
    BY <1>6 DEF WriteRouters, TypeOK
  <2> QED
    BY <1>6, <2>7, <2>8 DEF WriteRouters, PinInv, Consented
<1>7. CASE PutBack(a)
  <2>1. disk' = [disk EXCEPT ![at[a]] = snap[a][at[a]]] /\ disk \in Disks
        /\ snap[a] \in Disks /\ at[a] \in {"routers", "allowed", "dotenv", "vault", "key"}
    BY <1>7, StepsNamed DEF PutBack, TypeOK
  <2>2. disk'.routers = disk.routers \/ disk'.routers = snap[a].routers
    BY <2>1 DEF Disks
  <2>3. UNCHANGED <<router, seen, known, snap, routers, confirmed>>
        /\ at' = [at EXCEPT ![a] = AfterFile[at[a]]]
    BY <1>7 DEF PutBack
  <2>4. \A b \in Attempt : at'[b] = at[b] \/ at'[b] \notin Consented \cup {"review"}
    BY <2>1, <2>3 DEF AfterFile, TypeOK, Consented
  <2>5. Clean(disk.routers)' /\ \A b \in Attempt : Clean(snap[b].routers)'
        /\ Clean(routers[b])'
    BY <2>2, <2>3 DEF PinInv, Clean
  <2> QED
    BY <2>3, <2>4, <2>5 DEF PinInv
<1> QED
  BY <1>1, <1>2, <1>3, <1>4, <1>5, <1>6, <1>7

\* The rest of what a thread does leaves fingerprints alone.
LEMMA PinWorks ==
  ASSUME TypeOK, PinInv, NEW a \in Attempt, Works(a)
  PROVE  PinInv'
<1> USE DEF files, screen, ghost
<1>0. disk \in Disks
  BY DEF TypeOK
<1>1. CASE CaptureFails(a) \/ VaultUnreadable(a) \/ WriteFails(a) \/ Verified(a)
           \/ NotVerified(a) \/ PutBackFails(a)
  BY <1>1, QuietClean DEF CaptureFails, VaultUnreadable, WriteFails, Verified, NotVerified,
     PutBackFails, Consented
<1>2. CASE WriteAllowed(a) \/ WriteDotenv(a) \/ Environment(a)
  <2>1. disk'.routers = disk.routers
    BY <1>0, <1>2 DEF WriteAllowed, WriteDotenv, Environment, Disks
  <2> QED
    BY <1>2, <2>1, QuietClean DEF WriteAllowed, WriteDotenv, Environment, Consented
<1>3. ASSUME NEW r \in Routers, Migrated(a, r) PROVE PinInv'
  BY <1>3 DEF Migrated, PinInv, Clean
<1>4. ASSUME NEW r \in Routers, MigrateUser(a, r) PROVE PinInv'
  <2>1. disk'.routers = disk.routers
    BY <1>4, StoredTyped DEF MigrateUser
  <2> QED
    BY <1>4, <2>1, QuietClean DEF MigrateUser, Consented
<1>5. CASE MigratePass(a)
  <2>1. disk'.routers = disk.routers
    BY <1>5, StoredTyped DEF MigratePass, TypeOK
  <2> QED
    BY <1>5, <2>1, QuietClean DEF MigratePass, Consented
<1>6. CASE StoreUser(a) \/ StorePass(a)
  <2>1. disk'.routers = disk.routers
    BY <1>6, StoredTyped DEF StoreUser, StorePass, TypeOK
  <2> QED
    BY <1>6, <2>1, QuietClean DEF StoreUser, StorePass, Consented
<1>7. CASE ShowError(a) \/ ShowConnected(a)
  <2>1. \A b \in Attempt \ {a} : at'[b] = at[b]
    BY <1>7 DEF ShowError, ShowConnected, Go, TypeOK
  <2>2. at'[a] \notin Consented \cup {"review"}
    BY <1>7 DEF ShowError, ShowConnected, Go, TypeOK, Consented
  <2>3. Forget({a}) /\ confirmed' = confirmed /\ disk' = disk
    BY <1>7 DEF ShowError, ShowConnected
  <2> QED
    BY <2>1, <2>2, <2>3, ForgetClean
<1> QED
  BY <1>1, <1>2, <1>3, <1>4, <1>5, <1>6, <1>7, PinMoves DEF Works

\* Consent only ever adds a fingerprint; the chat and the world touch none.
LEMMA PinAround ==
  ASSUME TypeOK, PinInv,
         \/ \E r \in Targets : Connect(r) \/ TrustSsh(r) \/ TrustedSsh(r) \/ CertChanges(r)
         \/ Trusted \/ Refused \/ LeaveChat \/ Kill \/ KillTrusting
  PROVE  PinInv'
<1> USE DEF files, thread, screen, ghost
<1>1. ASSUME NEW r \in Routers, Connect(r) PROVE PinInv'
  <2>1. \A b \in Attempt : \/ at'[b] = at[b] /\ router'[b] = router[b]
                           \/ at'[b] = "capture"
    BY <1>1 DEF Connect, Go, TypeOK
  <2> QED
    BY <1>1, <2>1 DEF Connect, PinInv, Clean, Consented
<1>2. ASSUME NEW r \in Routers, TrustSsh(r) PROVE PinInv'
  <2>1. \A q \in Routers : disk'.routers[q].pin = disk.routers[q].pin
    BY <1>2 DEF TrustSsh, TypeOK, Disks, Entries
  <2> QED
    BY <1>2, <2>1 DEF TrustSsh, PinInv, Clean
<1>3. ASSUME NEW r \in Routers, TrustedSsh(r) \/ CertChanges(r) PROVE PinInv'
  BY <1>3 DEF TrustedSsh, CertChanges, PinInv, Clean
<1>4. CASE Trusted
  <2>1. asking \in Attempt /\ router[asking] \in Routers
    BY <1>4 DEF Trusted, TypeOK
  <2>2. /\ \A r \in Routers : confirmed[r] \subseteq confirmed'[r]
        /\ seen[asking] \in confirmed'[router[asking]]
    BY <1>4, <2>1 DEF Trusted, TypeOK
  <2>3. UNCHANGED <<disk, router, seen, known, snap, routers>>
        /\ \A b \in Attempt \ {asking} : at'[b] = at[b]
    BY <1>4, <2>1 DEF Trusted, Go, TypeOK
  <2>4. Clean(disk.routers)' /\ \A b \in Attempt : Clean(snap[b].routers)'
        /\ Clean(routers[b])'
    BY <2>2, <2>3 DEF PinInv, Clean
  <2>5. \A b \in Attempt : router[b] \in Routers
    BY DEF TypeOK
  <2> QED
    BY <2>2, <2>3, <2>4, <2>5 DEF PinInv
<1>5. CASE Refused
  <2>1. /\ \A b \in Attempt \ {asking} : at'[b] = at[b]
        /\ \A b \in Attempt \cap {asking} : at'[b] = "refused"
    BY <1>5 DEF Refused, Go, TypeOK
  <2> QED
    BY <1>5, <2>1, ForgetClean DEF Refused, Consented
<1>6. CASE LeaveChat \/ KillTrusting
  BY <1>6 DEF LeaveChat, KillTrusting, PinInv, Clean
<1>7. CASE Kill
  <2>1. \A b \in Attempt : at'[b] = IF b \in Running THEN "killed" ELSE at[b]
    BY <1>7 DEF Kill
  <2> QED
    BY <1>7, <2>1, ForgetClean DEF Kill, Consented
<1> QED
  BY <1>1, <1>2, <1>3, <1>4, <1>5, <1>6, <1>7, TargetsAreRouters

\* Every step keeps what is confirmed.
LEMMA PinStep == TypeOK /\ PinInv /\ [Next]_vars => PinInv'
<1> SUFFICES ASSUME TypeOK, PinInv, [Next]_vars PROVE PinInv'
  OBVIOUS
<1>1. CASE UNCHANGED vars
  BY <1>1 DEF vars, files, thread, screen, ghost, PinInv, Clean
<1> QED
  BY <1>1, PinWorks, PinAround DEF Next

\* Whatever overlaps, fails, is restored or is killed, for any number of attempts: MikroMCP
\* is told to accept only certificates the operator confirmed for that router.
THEOREM PinsConfirmed == Spec => []PinConfirmed
<1>1. PinInv => PinConfirmed
  BY DEF PinInv, Clean, PinConfirmed
<1> QED
  BY <1>1, PinInit, PinStep, TypeCorrect, PTL DEF Spec

-----------------------------------------------------------------------------
(* One attempt at a time.  A thread that fails puts its snapshot back file   *)
(* by file, and may be killed, or its disk may fail, between any two: what   *)
(* is on disk must fit together after each.                                  *)

Alone  == "overlap" \notin faults
Halves == {"user", "pass"}

Persisting == {"migrate", "migratePass", "storePass", "writeRouters", "writeAllowed",
               "writeDotenv"}
Verifying  == {"environment", "inspect", "verified"}
Undoable   == {"load"} \cup Persisting \cup Verifying \cup DOMAIN AfterFile

\* Every ciphertext in the vault is one the key file opens.
Fitting(d) == \A r \in Routers, f \in Halves : d.vault[r][f].key \in {0, d.key}

\* Every registered router has a login, in the vault or in .env.
Served(d) == \A r \in In(d.routers) : HasPair(d, r) \/ r \in d.dotenv

\* Nothing that is in the vault of d is missing in that of e.
Grows(d, e) ==
  \A r \in Routers, f \in Halves : d.vault[r][f].key # 0 => e.vault[r][f].key # 0

\* The files of d can be replaced by those of the snapshot s one by one.
Restorable(s, d) ==
  /\ Fitting(s) /\ Served(s) /\ s.key \in {0, d.key}
  /\ Grows(s, d) /\ In(s.routers) \subseteq In(d.routers)

\* One thread runs, and none under a chat.
SoloInv ==
  /\ \A a, b \in Running : a = b
  /\ chat # {} => Running = {}
  /\ trusting \subseteq chat
  /\ asking # 0 => at[asking] = "asked"

\* What a thread has put back is as in its snapshot.
BackOf(a) ==
  /\ at[a] \in Undoable => Restorable(snap[a], disk)
  /\ at[a] \in {"allowed", "dotenv", "vault", "key", "restored"} =>
       disk.routers = snap[a].routers
  /\ at[a] \in {"dotenv", "vault", "key", "restored"} => disk.allowed = snap[a].allowed
  /\ at[a] \in {"vault", "key", "restored"} => disk.dotenv = snap[a].dotenv
  /\ at[a] \in {"key", "restored"} => disk.vault = snap[a].vault
  /\ at[a] = "restored" => disk.key = snap[a].key

\* What a thread has loaded is what is on disk, but for the logins it took out of .env,
\* which are in the vault.
CopyOf(a) ==
  /\ at[a] \in Persisting =>
       /\ routers[a] = disk.routers
       /\ \A r \in In(routers[a]) \ env[a] : HasPair(disk, r)
  /\ at[a] = "migratePass" => disk.vault[moving[a]].user.key # 0
  /\ at[a] \in {"lookup", "review", "asked", "snapshot", "load"} \cup Persisting =>
       seen[a] \in Certs

\* What a thread has written for its own router.
Login(a, half) == disk.vault[router[a]][half].of = a /\ disk.vault[router[a]][half].key # 0
OwnOf(a) ==
  /\ at[a] \in {"storePass", "writeRouters", "writeAllowed", "writeDotenv"} \cup Verifying =>
       Login(a, "user")
  /\ at[a] \in {"writeRouters", "writeAllowed", "writeDotenv"} \cup Verifying =>
       Login(a, "pass")
  /\ at[a] \in {"writeAllowed", "writeDotenv"} \cup Verifying =>
       disk.routers[router[a]].pin = seen[a]
  /\ at[a] \in {"writeDotenv"} \cup Verifying => In(disk.routers) \subseteq disk.allowed
  /\ at[a] \in {"inspect", "verified"} => disk.dotenv \cap In(disk.routers) = {}

FilesOf(a) == BackOf(a) /\ CopyOf(a) /\ OwnOf(a)
DiskInv    == Fitting(disk) /\ Served(disk)
FilesInv   == DiskInv /\ \A a \in Attempt : FilesOf(a)
AloneInv   == Alone => SoloInv /\ FilesInv

\* What was registered before fits together.
LEMMA AloneInit == Init => AloneInv
<1> SUFFICES ASSUME Init PROVE SoloInv /\ FilesInv
  BY DEF AloneInv
<1>1. SoloInv
  BY DEF Init, SoloInv, Running, Ended
<1>2. \A a \in Attempt : at[a] = "new"
  BY DEF Init
<1>3. \A a \in Attempt : FilesOf(a)
  BY <1>2 DEF FilesOf, BackOf, CopyOf, OwnOf, Undoable, Persisting, Verifying, AfterFile
<1>4. Fitting(Nothing) /\ Served(Nothing)
  BY DEF Fitting, Served, Nothing, In, Unknown, NoPair, Absent, Halves
<1>5. ASSUME NEW r \in Routers PROVE Fitting(Old(r)) /\ Served(Old(r))
  BY DEF Fitting, Served, Old, Nothing, In, Unknown, NoPair, Absent, Halves
<1>6. ASSUME NEW r \in Routers PROVE Fitting(Current(r)) /\ Served(Current(r))
  <2>1. Current(r).routers = Old(r).routers /\ Current(r).key = 1
        /\ Current(r).vault = [Nothing.vault EXCEPT ![r] =
              [user |-> [of |-> 0, key |-> 1], pass |-> [of |-> 0, key |-> 1]]]
    BY DEF Current, Old, Nothing
  <2>2. Fitting(Current(r))
    BY <2>1 DEF Fitting, Nothing, NoPair, Absent, Halves
  <2>3. \A q \in Routers : Old(r).routers[q].pin # 0 => q = r
    BY DEF Old, Nothing, Unknown
  <2>4. HasPair(Current(r), r)
    BY <2>1 DEF HasPair, Nothing
  <2> QED
    BY <2>1, <2>2, <2>3, <2>4 DEF Served, In
<1>7. DiskInv
  BY <1>4, <1>5, <1>6, TargetsAreRouters DEF Init, DiskInv
<1> QED
  BY <1>1, <1>3, <1>7 DEF FilesInv

\* A thread that is not between its snapshot and the end of its clean-up, nor past the
\* certificate, is owed nothing.
LEMMA FilesIdle ==
  ASSUME NEW a \in Attempt, at'[a] \in Ended \cup {"capture", "report"}
  PROVE  FilesOf(a)'
BY DEF FilesOf, BackOf, CopyOf, OwnOf, Ended, Undoable, Persisting, Verifying, AfterFile

\* When a thread does something, it is the only one.
LEMMA WorksAlone ==
  ASSUME TypeOK, SoloInv, NEW a \in Attempt, Works(a)
  PROVE  /\ a \in Running /\ chat = {} /\ trusting = {}
         /\ \A b \in Attempt \ {a} : at[b] \in Ended /\ at'[b] = at[b]
         /\ at[a] # "asked" => asking = 0
<1>1. at[a] \notin Ended
  BY DEF Works, Capture, CaptureFails, Lookup, Review, Snapshot, Load, Migrated, MigrateUser,
     MigratePass, StoreUser, StorePass, WriteRouters, WriteAllowed, WriteDotenv,
     VaultUnreadable, WriteFails, Environment, Verified, NotVerified, PutBack, PutBackFails,
     ShowError, ShowConnected, AfterFile, Ended
<1>2. a \in Running /\ \A b \in Attempt \ {a} : at[b] \in Ended
  BY <1>1 DEF Running, SoloInv
<1>3. asking # 0 => asking = a
  BY <1>2 DEF SoloInv, TypeOK, Ended
<1>4. \A b \in Attempt \ {a} : at'[b] = at[b]
  <2>1. CASE Review(a)
    <3>1. 0 \notin Attempt /\ known[a] \in BOOLEAN /\ at \in [Attempt -> Steps]
      BY DEF Attempt, TypeOK
    <3>2. CASE known[a] = TRUE
      BY <2>1, <3>1, <3>2 DEF Review, Go
    <3>3. CASE known[a] = FALSE
      BY <1>3, <2>1, <3>1, <3>3 DEF Review
    <3> QED
      BY <3>1, <3>2, <3>3
  <2>2. CASE \E step : Go(a, step)
    BY <2>2 DEF Go, TypeOK
  <2>3. CASE \E r \in Routers : Migrated(a, r)
    BY <2>3 DEF Migrated
  <2> QED
    BY <2>1, <2>2, <2>3 DEF Works, Capture, CaptureFails, Lookup, Snapshot, Load, MigrateUser,
       MigratePass, StoreUser, StorePass, WriteRouters, WriteAllowed, WriteDotenv,
       VaultUnreadable, WriteFails, Environment, Verified, NotVerified, PutBack,
       PutBackFails, ShowError, ShowConnected
<1>5. chat = {} /\ trusting = {}
  BY <1>2 DEF SoloInv
<1> QED
  BY <1>2, <1>3, <1>4, <1>5 DEF SoloInv

\* One thread stays one thread, and none runs under a chat.
LEMMA SoloWorks ==
  ASSUME TypeOK, SoloInv, NEW a \in Attempt, Works(a)
  PROVE  SoloInv'
<1>1. /\ chat = {} /\ trusting = {}
      /\ asking # 0 => asking = a /\ at[a] = "asked"
      /\ \A b \in Attempt \ {a} : at'[b] \in Ended
  BY WorksAlone DEF SoloInv, TypeOK, Running, Ended
<1>2. \A b, c \in Running' : b = c
  BY <1>1 DEF Running
<1>3. CASE ShowConnected(a)
  BY <1>1, <1>2, <1>3 DEF ShowConnected, SoloInv, Running, Go, TypeOK, Ended
<1>4. CASE Review(a)
  <2>1. UNCHANGED <<chat, trusting>> /\ at[a] = "review" /\ known[a] \in BOOLEAN
    BY <1>4 DEF Review, TypeOK
  <2>2. asking = 0
    BY <1>1, <2>1
  <2>3. CASE known[a] = TRUE
    BY <1>1, <1>2, <1>4, <2>1, <2>2, <2>3 DEF Review, SoloInv
  <2>4. CASE known[a] = FALSE
    <3>1. asking' = a /\ at'[a] = "asked"
      BY <1>4, <2>4 DEF Review
    <3> QED
      BY <1>1, <1>2, <2>1, <3>1 DEF SoloInv
  <2> QED
    BY <2>1, <2>3, <2>4
<1>5. CASE ~ShowConnected(a) /\ ~Review(a)
  <2>1. at[a] # "asked"
    BY <1>5 DEF Works, Capture, CaptureFails, Lookup, Snapshot, Load, Migrated, MigrateUser,
       MigratePass, StoreUser, StorePass, WriteRouters, WriteAllowed, WriteDotenv,
       VaultUnreadable, WriteFails, Environment, Verified, NotVerified, PutBack,
       PutBackFails, ShowError, AfterFile
  <2>2. UNCHANGED <<chat, trusting, asking>>
    BY <1>5 DEF Works, Capture, CaptureFails, Lookup, Snapshot, Load, Migrated, MigrateUser,
       MigratePass, StoreUser, StorePass, WriteRouters, WriteAllowed, WriteDotenv,
       VaultUnreadable, WriteFails, Environment, Verified, NotVerified, PutBack,
       PutBackFails, ShowError, screen
  <2>3. asking = 0
    BY <1>1, <2>1
  <2> QED
    BY <1>1, <1>2, <2>2, <2>3 DEF SoloInv
<1> QED
  BY <1>3, <1>4, <1>5

LEMMA SoloAround ==
  ASSUME TypeOK, Alone, SoloInv,
         \/ \E r \in Targets : Connect(r) \/ TrustSsh(r) \/ TrustedSsh(r) \/ CertChanges(r)
         \/ Trusted \/ Refused \/ LeaveChat \/ Kill \/ KillTrusting
  PROVE  SoloInv'
<1> USE DEF files, thread, screen, ghost
<1>1. ASSUME NEW r \in Routers, Connect(r) PROVE SoloInv'
  <2>1. Running = {} /\ chat = {} /\ asking = 0
    BY <1>1 DEF Connect, Alone
  <2>2. \A b \in Attempt \ {attempts'} : at'[b] \in Ended
    BY <1>1, <2>1 DEF Connect, Go, Running, TypeOK
  <2>3. UNCHANGED <<chat, trusting, asking>>
    BY <1>1 DEF Connect
  <2> QED
    BY <2>1, <2>2, <2>3 DEF SoloInv, Running
<1>2. ASSUME NEW r \in Routers, TrustSsh(r) \/ TrustedSsh(r) \/ CertChanges(r) PROVE SoloInv'
  <2>1. UNCHANGED <<at, chat, asking>> /\ trusting' \subseteq chat
    BY <1>2 DEF TrustSsh, TrustedSsh, CertChanges, SoloInv
  <2> QED
    BY <2>1 DEF SoloInv, Running
<1>3. CASE Trusted \/ Refused
  <2>1. asking \in Running /\ \A b \in Attempt \ {asking} : at'[b] = at[b]
    BY <1>3 DEF Trusted, Refused, Go, SoloInv, TypeOK, Running, Ended
  <2>2. \A b \in Attempt \ {asking} : b \notin Running'
    BY <2>1 DEF SoloInv, Running
  <2>3. asking' = 0 /\ UNCHANGED <<chat, trusting>> /\ chat = {}
    BY <1>3, <2>1 DEF Trusted, Refused, SoloInv
  <2> QED
    BY <2>2, <2>3 DEF SoloInv, Running
<1>4. CASE LeaveChat \/ KillTrusting
  BY <1>4 DEF LeaveChat, KillTrusting, SoloInv, Running
<1>5. CASE Kill
  BY <1>5 DEF Kill, SoloInv, Running, Ended
<1> QED
  BY <1>1, <1>2, <1>3, <1>4, <1>5, TargetsAreRouters

--------------------------------------------------------------------------------

\* A snapshot stays good while the vault only grows, under the key it has, and no router
\* is taken away.
LEMMA StillRestorable ==
  ASSUME NEW s, NEW d, NEW e, Restorable(s, d), Grows(d, e),
         d.key # 0 => e.key = d.key, In(d.routers) \subseteq In(e.routers)
  PROVE  Restorable(s, e)
<1>1. s.key \in {0, e.key}
  BY DEF Restorable
<1>2. Grows(s, e)
  BY DEF Restorable, Grows
<1> QED
  BY <1>1, <1>2 DEF Restorable

\* A vault that grew has the pairs it had.
LEMMA PairsKept ==
  ASSUME NEW d, NEW e, Grows(d, e), NEW r \in Routers, HasPair(d, r)
  PROVE  HasPair(e, r)
BY DEF Grows, HasPair, Halves

\* Setting one half of a pair: the vault grows, everything in it still fits the key, and
\* the other files stay.
LEMMA StoredFacts ==
  ASSUME TypeOK, Fitting(disk), NEW r \in Routers, NEW half \in Halves,
         NEW who \in {0} \cup Attempt, Store(r, half, who)
  PROVE  /\ UNCHANGED <<disk.routers, disk.allowed, disk.dotenv>>
         /\ disk.key # 0 => disk'.key = disk.key
         /\ disk'.vault[r][half].of = who /\ disk'.vault[r][half].key # 0
         /\ \A q \in Routers, f \in Halves :
              q # r \/ f # half => disk'.vault[q][f] = disk.vault[q][f]
         /\ Grows(disk, disk') /\ Fitting(disk')
<1> DEFINE key == IF disk.key = 0 THEN keysMade + 1 ELSE disk.key
           new == [of |-> who, key |-> key]
<1>1. /\ disk \in Disks /\ keysMade \in Nat /\ disk.key \in Nat
      /\ disk.vault \in [Routers -> [user : Secrets, pass : Secrets]]
  BY DEF TypeOK, Disks
<1>2. key # 0 /\ (disk.key # 0 => key = disk.key)
  BY <1>1
<1>3. new.of = who /\ new.key = key
  OBVIOUS
<1>4. disk' = [disk EXCEPT !.key = key, !.vault[r][half] = new]
  BY DEF Store, Stored
<1> HIDE DEF key, new
<1>5. disk'.key = key /\ disk'.vault = [disk.vault EXCEPT ![r][half] = new]
      /\ UNCHANGED <<disk.routers, disk.allowed, disk.dotenv>>
  BY <1>1, <1>4 DEF Disks
<1>6. disk'.vault[r] = [disk.vault[r] EXCEPT ![half] = new]
      /\ \A q \in Routers \ {r} : disk'.vault[q] = disk.vault[q]
  BY <1>1, <1>5
<1>7. disk'.vault[r][half] = new
      /\ \A f \in Halves \ {half} : disk'.vault[r][f] = disk.vault[r][f]
  BY <1>1, <1>6 DEF Halves
<1>8. \A q \in Routers, f \in Halves : q # r \/ f # half => disk'.vault[q][f] = disk.vault[q][f]
  BY <1>6, <1>7
<1>9. Grows(disk, disk')
  BY <1>2, <1>3, <1>7, <1>8 DEF Grows
<1>10. Fitting(disk')
  BY <1>2, <1>3, <1>5, <1>7, <1>8 DEF Fitting
<1> QED
  BY <1>2, <1>3, <1>5, <1>7, <1>8, <1>9, <1>10

\* While the vault grows and routers.yaml and .env stay, every router keeps its login.
LEMMA StillServed ==
  ASSUME NEW d, NEW e, Served(d), Grows(d, e), e.routers = d.routers, e.dotenv = d.dotenv
  PROVE  Served(e)
BY PairsKept DEF Served, In

\* The invariant follows when the step keeps the disk in order and the thread that makes it
\* is owed what it should be; the others have ended.
LEMMA FilesByOne ==
  ASSUME TypeOK, SoloInv, NEW a \in Attempt, Works(a), DiskInv', FilesOf(a)'
  PROVE  FilesInv'
<1>1. ASSUME NEW b \in Attempt, b # a PROVE FilesOf(b)'
  BY <1>1, WorksAlone, FilesIdle
<1> QED
  BY <1>1 DEF FilesInv

\* Steps that only move on or read: preparing, giving up, an inspection.
LEMMA FilesQuiet ==
  ASSUME TypeOK, SoloInv, FilesInv, NEW a \in Attempt,
         \/ Capture(a) \/ CaptureFails(a) \/ Lookup(a) \/ Review(a)
         \/ VaultUnreadable(a) \/ WriteFails(a) \/ Verified(a) \/ NotVerified(a)
         \/ PutBackFails(a) \/ ShowError(a) \/ ShowConnected(a)
  PROVE  DiskInv' /\ FilesOf(a)'
<1> USE DEF Go, files, screen, ghost
<1>0. Works(a)
  BY DEF Works
<1>1. disk' = disk
  BY DEF Capture, CaptureFails, Lookup, Review, VaultUnreadable, WriteFails, Verified,
     NotVerified, PutBackFails, ShowError, ShowConnected
<1>2. DiskInv'
  BY <1>1 DEF FilesInv, DiskInv, Fitting, Served, HasPair, In
<1>3. FilesOf(a)
  BY DEF FilesInv
<1>4. CASE CaptureFails(a) \/ PutBackFails(a) \/ ShowError(a) \/ ShowConnected(a)
  <2>1. at'[a] \in Ended \cup {"capture", "report"}
    BY <1>4 DEF CaptureFails, PutBackFails, ShowError, ShowConnected, TypeOK, Ended
  <2> QED
    BY <1>2, <2>1, FilesIdle
<1>5. CASE Capture(a) \/ Lookup(a) \/ Review(a)
  <2>1. at'[a] \in {"lookup", "review", "asked", "snapshot", "report"}
        /\ at[a] \in {"capture", "lookup", "review"}
    <3>1. CASE Review(a)
      <4>1. known[a] \in BOOLEAN /\ at \in [Attempt -> Steps]
        BY DEF TypeOK
      <4>2. CASE known[a] = TRUE
        BY <3>1, <4>1, <4>2 DEF Review
      <4>3. CASE known[a] = FALSE
        BY <3>1, <4>3 DEF Review
      <4> QED
        BY <4>1, <4>2, <4>3
    <3> QED
      BY <1>5, <3>1 DEF Capture, Lookup, TypeOK
  <2>2. seen'[a] \in Certs
    <3>1. CASE Capture(a)
      BY <3>1 DEF Capture, TypeOK
    <3>2. CASE Lookup(a)
      BY <1>3, <3>2 DEF Lookup, FilesOf, CopyOf
    <3>3. CASE Review(a)
      <4>1. asking = 0 /\ 0 \notin Attempt
        BY <1>0, <3>3, WorksAlone DEF Review, Attempt
      <4>2. seen[a] \in Certs
        BY <1>3, <3>3 DEF Review, FilesOf, CopyOf
      <4>3. seen'[a] = seen[a]
        BY <3>3, <4>1 DEF Review, Forget
      <4> QED
        BY <4>2, <4>3
    <3> QED
      BY <1>5, <3>1, <3>2, <3>3
  <2> QED
    BY <1>2, <2>1, <2>2 DEF FilesOf, BackOf, CopyOf, OwnOf, Undoable, Persisting, Verifying,
       AfterFile
<1>6. CASE VaultUnreadable(a) \/ WriteFails(a) \/ NotVerified(a)
  <2>1. at'[a] = "routers" /\ at[a] \in Undoable /\ snap' = snap
    BY <1>6 DEF VaultUnreadable, WriteFails, NotVerified, TypeOK, Undoable, Persisting,
       Verifying
  <2>2. Restorable(snap[a], disk)
    BY <1>3, <2>1 DEF FilesOf, BackOf
  <2> QED
    BY <1>1, <1>2, <2>1, <2>2 DEF FilesOf, BackOf, CopyOf, OwnOf, Persisting, Verifying
<1>7. CASE Verified(a)
  <2>1. at'[a] = "verified" /\ at[a] = "inspect" /\ UNCHANGED <<snap, router, seen>>
    BY <1>7 DEF Verified, TypeOK
  <2>2. Restorable(snap[a], disk)
    BY <1>3, <2>1 DEF FilesOf, BackOf, Undoable, Verifying
  <2>3. OwnOf(a)'
    BY <1>1, <1>3, <2>1 DEF FilesOf, OwnOf, Login, Verifying
  <2> QED
    BY <1>1, <1>2, <2>1, <2>2, <2>3 DEF FilesOf, BackOf, CopyOf, Persisting
<1> QED
  BY <1>4, <1>5, <1>6, <1>7

\* The snapshot, the load, and the logins that move from .env to the vault.
LEMMA FilesLoad ==
  ASSUME TypeOK, SoloInv, FilesInv, NEW a \in Attempt,
         \/ Snapshot(a) \/ Load(a)
         \/ \E r \in Routers : Migrated(a, r) \/ MigrateUser(a, r)
         \/ MigratePass(a)
  PROVE  DiskInv' /\ FilesOf(a)'
<1> USE DEF Go, files, screen, ghost
<1>0. /\ FilesOf(a) /\ Fitting(disk) /\ Served(disk)
      /\ router[a] \in Routers /\ moving[a] \in Routers /\ at \in [Attempt -> Steps]
  BY DEF FilesInv, DiskInv, TypeOK
<1>1. CASE Snapshot(a)
  <2>1. disk' = disk /\ at'[a] = "load" /\ snap'[a] = disk /\ seen'[a] \in Certs
    BY <1>0, <1>1 DEF Snapshot, FilesOf, CopyOf, TypeOK
  <2>2. Restorable(disk, disk)
    BY <1>0 DEF Restorable, Grows
  <2>3. BackOf(a)'
    BY <2>1, <2>2 DEF BackOf
  <2> QED
    BY <1>0, <2>1, <2>3 DEF DiskInv, FilesOf, CopyOf, OwnOf, Persisting, Verifying
<1>2. CASE Load(a)
  <2>1. /\ disk' = disk /\ at[a] = "load" /\ at'[a] = "migrate" /\ snap' = snap /\ seen' = seen
        /\ routers'[a] = disk.routers /\ env'[a] = disk.dotenv
    BY <1>2 DEF Load, TypeOK
  <2>2. Restorable(snap[a], disk) /\ seen[a] \in Certs
    BY <1>0, <2>1 DEF FilesOf, BackOf, CopyOf, Undoable
  <2>3. BackOf(a)'
    BY <2>1, <2>2 DEF BackOf
  <2>4. CopyOf(a)'
    BY <1>0, <2>1, <2>2 DEF CopyOf, Served
  <2> QED
    BY <1>0, <2>1, <2>3, <2>4 DEF DiskInv, FilesOf, OwnOf, Verifying
<1>3. ASSUME NEW r \in Routers, Migrated(a, r) PROVE DiskInv' /\ FilesOf(a)'
  <2>1. /\ disk' = disk /\ at[a] = "migrate" /\ at' = at
        /\ UNCHANGED <<snap, seen, routers, router>>
        /\ env'[a] = env[a] \ {r} /\ HasPair(disk, r)
    BY <1>3 DEF Migrated, Readable, TypeOK
  <2>2. BackOf(a)'
    BY <1>0, <2>1 DEF FilesOf, BackOf
  <2>3. CopyOf(a)'
    BY <1>0, <2>1 DEF FilesOf, CopyOf, Persisting
  <2> QED
    BY <1>0, <2>1, <2>2, <2>3 DEF DiskInv, FilesOf, OwnOf, Verifying
<1>4. ASSUME NEW r \in Routers, MigrateUser(a, r) PROVE DiskInv' /\ FilesOf(a)'
  <2>1. /\ at[a] = "migrate" /\ at'[a] = "migratePass" /\ Store(r, "user", 0)
        /\ UNCHANGED <<snap, seen, routers, env>> /\ moving'[a] = r
    BY <1>4 DEF MigrateUser, TypeOK
  <2>2. /\ UNCHANGED <<disk.routers, disk.allowed, disk.dotenv>>
        /\ disk.key # 0 => disk'.key = disk.key
        /\ disk'.vault[r]["user"].key # 0
        /\ Grows(disk, disk') /\ Fitting(disk')
    BY <1>0, <2>1, StoredFacts DEF Halves
  <2>3. Served(disk')
    BY <1>0, <2>2, StillServed
  <2>4. Restorable(snap[a], disk')
    BY <1>0, <2>1, <2>2, StillRestorable DEF FilesOf, BackOf, Undoable, Persisting, In
  <2>5. BackOf(a)'
    BY <2>1, <2>4 DEF BackOf
  <2>6. CopyOf(a)'
    <3>1. routers[a] = disk.routers /\ \A q \in In(routers[a]) \ env[a] : HasPair(disk', q)
      BY <1>0, <2>1, <2>2, PairsKept DEF FilesOf, CopyOf, Persisting, In
    <3>2. seen[a] \in Certs
      BY <1>0, <2>1 DEF FilesOf, CopyOf, Persisting
    <3> QED
      BY <2>1, <2>2, <3>1, <3>2 DEF CopyOf
  <2> QED
    BY <2>1, <2>2, <2>3, <2>5, <2>6 DEF DiskInv, FilesOf, OwnOf, Verifying
<1>5. CASE MigratePass(a)
  <2>1. /\ at[a] = "migratePass" /\ at'[a] = "migrate" /\ Store(moving[a], "pass", 0)
        /\ UNCHANGED <<snap, seen, routers>> /\ env'[a] = env[a] \ {moving[a]}
    BY <1>5 DEF MigratePass, TypeOK
  <2>2. /\ UNCHANGED <<disk.routers, disk.allowed, disk.dotenv>>
        /\ disk.key # 0 => disk'.key = disk.key
        /\ disk'.vault[moving[a]]["pass"].key # 0
        /\ Grows(disk, disk') /\ Fitting(disk')
    BY <1>0, <2>1, StoredFacts DEF Halves
  <2>3. Served(disk')
    BY <1>0, <2>2, StillServed
  <2>4. Restorable(snap[a], disk')
    BY <1>0, <2>1, <2>2, StillRestorable DEF FilesOf, BackOf, Undoable, Persisting, In
  <2>5. BackOf(a)'
    BY <2>1, <2>4 DEF BackOf
  <2>6. CopyOf(a)'
    <3>1. /\ routers[a] = disk.routers /\ seen[a] \in Certs
          /\ disk.vault[moving[a]]["user"].key # 0
      BY <1>0, <2>1 DEF FilesOf, CopyOf, Persisting
    <3>2. HasPair(disk', moving[a])
      BY <1>0, <2>2, <3>1 DEF Grows, HasPair, Halves
    <3>3. \A q \in In(routers[a]) \ env[a] : HasPair(disk', q)
      BY <1>0, <2>1, <2>2, PairsKept DEF FilesOf, CopyOf, Persisting, In
    <3> QED
      BY <2>1, <2>2, <3>1, <3>2, <3>3 DEF CopyOf
  <2> QED
    BY <2>1, <2>2, <2>3, <2>5, <2>6 DEF DiskInv, FilesOf, OwnOf, Verifying
<1> QED
  BY <1>1, <1>2, <1>3, <1>4, <1>5

\* The login of the new router.
LEMMA FilesLogin ==
  ASSUME TypeOK, SoloInv, FilesInv, NEW a \in Attempt, StoreUser(a) \/ StorePass(a)
  PROVE  DiskInv' /\ FilesOf(a)'
<1> USE DEF Go, files, screen, ghost
<1>0. /\ FilesOf(a) /\ Fitting(disk) /\ Served(disk) /\ at \in [Attempt -> Steps]
      /\ router[a] \in Routers /\ UNCHANGED <<snap, seen, routers, router>>
  BY DEF FilesInv, DiskInv, TypeOK, StoreUser, StorePass
<1>1. PICK half \in Halves : /\ Store(router[a], half, a)
                             /\ half = "user" <=> StoreUser(a)
                             /\ half = "pass" <=> StorePass(a)
  BY DEF StoreUser, StorePass, Halves
<1>2. /\ UNCHANGED <<disk.routers, disk.allowed, disk.dotenv>>
      /\ disk.key # 0 => disk'.key = disk.key
      /\ disk'.vault[router[a]][half].of = a /\ disk'.vault[router[a]][half].key # 0
      /\ \A f \in Halves : f # half => disk'.vault[router[a]][f] = disk.vault[router[a]][f]
      /\ Grows(disk, disk') /\ Fitting(disk')
  BY <1>0, <1>1, StoredFacts
<1>3. at[a] \in {"migrate", "storePass"}
  BY DEF StoreUser, StorePass
<1>4. Served(disk')
  BY <1>0, <1>2, StillServed
<1>5. Restorable(snap[a], disk')
  BY <1>0, <1>2, <1>3, StillRestorable DEF FilesOf, BackOf, Undoable, Persisting, In
<1>6. /\ routers[a] = disk'.routers /\ seen[a] \in Certs
      /\ \A q \in In(routers[a]) \ env[a] : HasPair(disk', q)
  BY <1>0, <1>2, <1>3, PairsKept DEF FilesOf, CopyOf, Persisting, In
<1>7. CASE StoreUser(a)
  <2>1. at'[a] = "storePass" /\ env' = env
    BY <1>0, <1>7 DEF StoreUser
  <2>2. Login(a, "user")'
    BY <1>0, <1>1, <1>2, <1>7 DEF Login
  <2> QED
    BY <1>0, <1>2, <1>4, <1>5, <1>6, <2>1, <2>2 DEF DiskInv, FilesOf, BackOf, CopyOf, OwnOf,
       Verifying
<1>8. CASE StorePass(a)
  <2>1. at[a] = "storePass" /\ at'[a] = "writeRouters" /\ env'[a] = env[a] \ {router[a]}
    BY <1>0, <1>8 DEF StorePass, TypeOK
  <2>2. Login(a, "user")
    BY <1>0, <2>1 DEF FilesOf, OwnOf
  <2>3. half = "pass"
    BY <1>1, <1>8
  <2>4. Login(a, "user")' /\ Login(a, "pass")'
    BY <1>0, <1>2, <2>2, <2>3 DEF Login, Halves
  <2>5. HasPair(disk', router[a])
    BY <1>0, <2>4 DEF HasPair, Login
  <2>6. CopyOf(a)'
    BY <1>0, <1>6, <2>1, <2>5 DEF CopyOf
  <2> QED
    BY <1>0, <1>2, <1>4, <1>5, <2>1, <2>4, <2>6 DEF DiskInv, FilesOf, BackOf, OwnOf, Verifying
<1> QED
  BY <1>7, <1>8

\* The three files persist writes.
LEMMA FilesWrite ==
  ASSUME TypeOK, SoloInv, FilesInv, NEW a \in Attempt,
         WriteRouters(a) \/ WriteAllowed(a) \/ WriteDotenv(a)
  PROVE  DiskInv' /\ FilesOf(a)'
<1> USE DEF Go, files, screen, ghost
<1>0. /\ FilesOf(a) /\ Fitting(disk) /\ Served(disk) /\ at \in [Attempt -> Steps]
      /\ disk \in Disks /\ router[a] \in Routers /\ routers[a] \in Entries
  BY DEF FilesInv, DiskInv, TypeOK
<1>1. at[a] \in {"writeRouters", "writeAllowed", "writeDotenv"}
      /\ UNCHANGED <<snap, seen, router, env>>
  BY DEF WriteRouters, WriteAllowed, WriteDotenv
<1>2. Login(a, "user") /\ Login(a, "pass") /\ Restorable(snap[a], disk)
  BY <1>0, <1>1 DEF FilesOf, OwnOf, BackOf, Undoable, Persisting
<1>3. routers[a] = disk.routers /\ seen[a] \in Certs
      /\ \A q \in In(routers[a]) \ env[a] : HasPair(disk, q)
  BY <1>0, <1>1 DEF FilesOf, CopyOf, Persisting
<1>4. UNCHANGED <<disk.vault, disk.key>>
  BY <1>0 DEF WriteRouters, WriteAllowed, WriteDotenv, Disks
<1>5. Login(a, "user")' /\ Login(a, "pass")'
  BY <1>1, <1>2, <1>4 DEF Login
<1>6. Fitting(disk') /\ Grows(disk, disk')
  BY <1>0, <1>4 DEF Fitting, Grows
<1>7. \A q \in Routers : HasPair(disk', q) <=> HasPair(disk, q)
  BY <1>4 DEF HasPair
<1>8. CASE WriteRouters(a)
  <2>1. /\ at[a] = "writeRouters" /\ at'[a] = "writeAllowed" /\ disk'.routers = routers'[a]
        /\ disk'.dotenv = disk.dotenv
        /\ routers'[a] = [routers[a] EXCEPT ![router[a]] = [pin |-> seen[a], ssh |-> FALSE]]
    BY <1>0, <1>8 DEF WriteRouters, Disks, TypeOK
  <2>2. disk'.routers[router[a]].pin = seen[a]
        /\ \A q \in Routers \ {router[a]} : disk'.routers[q] = disk.routers[q]
    BY <1>0, <1>3, <2>1 DEF Entries
  <2>3. In(disk'.routers) = In(disk.routers) \cup {router[a]}
    BY <1>0, <1>3, <2>2 DEF In, Certs
  <2>4. HasPair(disk', router[a])
    BY <1>1, <1>5 DEF HasPair, Login
  <2>5. Served(disk')
    BY <1>0, <1>7, <2>1, <2>3, <2>4 DEF Served, In
  <2>6. Restorable(snap[a], disk')
    BY <1>2, <1>4, <1>6, <2>3, StillRestorable
  <2>7. CopyOf(a)'
    BY <1>1, <1>3, <1>7, <2>1, <2>3, <2>4 DEF CopyOf, In
  <2>8. OwnOf(a)'
    BY <1>1, <1>5, <2>1, <2>2 DEF OwnOf, Verifying
  <2> QED
    BY <1>1, <1>6, <2>1, <2>5, <2>6, <2>7, <2>8 DEF DiskInv, FilesOf, BackOf
<1>9. CASE WriteAllowed(a)
  <2>1. /\ at[a] = "writeAllowed" /\ at'[a] = "writeDotenv" /\ routers' = routers
        /\ UNCHANGED <<disk.routers, disk.dotenv>> /\ disk'.allowed = In(routers[a])
    BY <1>0, <1>9 DEF WriteAllowed, Disks
  <2>2. Served(disk')
    BY <1>0, <1>6, <2>1, StillServed
  <2>3. Restorable(snap[a], disk')
    BY <1>2, <1>4, <1>6, <2>1, StillRestorable DEF In
  <2>4. CopyOf(a)'
    BY <1>1, <1>3, <1>7, <2>1 DEF CopyOf, In
  <2>5. OwnOf(a)'
    BY <1>0, <1>1, <1>3, <1>5, <2>1 DEF FilesOf, OwnOf, Verifying
  <2> QED
    BY <1>1, <1>6, <2>1, <2>2, <2>3, <2>4, <2>5 DEF DiskInv, FilesOf, BackOf
<1>10. CASE WriteDotenv(a)
  <2>1. /\ at[a] = "writeDotenv" /\ at'[a] = "environment"
        /\ UNCHANGED <<disk.routers, disk.allowed>> /\ disk'.dotenv = env[a]
    BY <1>0, <1>10 DEF WriteDotenv, Disks
  <2>2. Served(disk')
    BY <1>3, <1>7, <2>1 DEF Served, In
  <2>3. Restorable(snap[a], disk')
    BY <1>2, <1>4, <1>6, <2>1, StillRestorable DEF In
  <2>4. OwnOf(a)'
    BY <1>0, <1>1, <1>5, <2>1 DEF FilesOf, OwnOf, Verifying, In
  <2> QED
    BY <1>1, <1>6, <2>1, <2>2, <2>3, <2>4 DEF DiskInv, FilesOf, BackOf, CopyOf, Persisting
<1> QED
  BY <1>8, <1>9, <1>10

\* runtime_environment: what was left in .env is in the vault.
LEMMA FilesEnvironment ==
  ASSUME TypeOK, SoloInv, FilesInv, NEW a \in Attempt, Environment(a)
  PROVE  DiskInv' /\ FilesOf(a)'
<1> USE DEF Go, files, screen, ghost
<1> DEFINE left == {r \in In(disk.routers) \cap disk.dotenv : ~HasPair(disk, r)}
           key  == IF left # {} /\ disk.key = 0 THEN keysMade + 1 ELSE disk.key
           pair == [user |-> [of |-> 0, key |-> key], pass |-> [of |-> 0, key |-> key]]
           new  == [r \in Routers |-> IF r \in left THEN pair ELSE disk.vault[r]]
<1>0. /\ FilesOf(a) /\ Fitting(disk) /\ Served(disk) /\ at \in [Attempt -> Steps]
      /\ disk \in Disks /\ disk.key \in Nat /\ keysMade \in Nat /\ router[a] \in Routers
  BY DEF FilesInv, DiskInv, TypeOK, Disks
<1>1. /\ at[a] = "environment" /\ at'[a] = "inspect" /\ UNCHANGED <<snap, seen, router>>
  BY <1>0 DEF Environment
<1>2. key = disk.key \/ (disk.key = 0 /\ key # 0)
  BY <1>0
<1>3. left # {} => key # 0
  BY <1>0
<1>4. pair.user.key = key /\ pair.pass.key = key
  OBVIOUS
<1>5. /\ left \subseteq Routers
      /\ \A r \in left : ~HasPair(disk, r)
      /\ \A r \in In(disk.routers) \ left : HasPair(disk, r)
  BY <1>0 DEF In, Served
<1>6. disk' = [disk EXCEPT !.dotenv = @ \ In(disk.routers), !.key = key, !.vault = new]
  BY <1>0 DEF Environment, Disks
<1> HIDE DEF left, key, pair
<1>7. /\ UNCHANGED <<disk.routers, disk.allowed>> /\ disk'.key = key
      /\ disk'.dotenv = disk.dotenv \ In(disk.routers)
      /\ \A r \in Routers : disk'.vault[r] = IF r \in left THEN pair ELSE disk.vault[r]
  BY <1>0, <1>6 DEF Disks
<1>8. Fitting(disk')
  <2>1. ASSUME NEW r \in Routers, NEW f \in Halves PROVE disk'.vault[r][f].key \in {0, key}
    <3>1. CASE r \in left
      BY <1>4, <1>7, <3>1 DEF Halves
    <3>2. CASE r \notin left
      BY <1>0, <1>2, <1>7, <3>2 DEF Fitting
    <3> QED
      BY <3>1, <3>2
  <2> QED
    BY <1>7, <2>1 DEF Fitting
<1>9. Grows(disk, disk')
  <2>1. ASSUME NEW r \in Routers, NEW f \in Halves, disk.vault[r][f].key # 0
        PROVE  disk'.vault[r][f].key # 0
    <3>1. CASE r \in left
      BY <1>3, <1>4, <1>7, <3>1 DEF Halves
    <3>2. CASE r \notin left
      BY <1>7, <2>1, <3>2
    <3> QED
      BY <3>1, <3>2
  <2> QED
    BY <2>1 DEF Grows
<1>10. \A r \in In(disk'.routers) : HasPair(disk', r)
  <2>1. ASSUME NEW r \in In(disk.routers) PROVE HasPair(disk', r)
    <3>1. r \in Routers
      BY <2>1 DEF In
    <3>2. CASE r \in left
      <4>1. disk'.vault[r] = pair /\ key # 0
        BY <1>3, <1>7, <3>1, <3>2
      <4> QED
        BY <1>4, <4>1 DEF HasPair
    <3>3. CASE r \notin left
      <4>1. HasPair(disk, r)
        BY <1>5, <2>1, <3>3
      <4>2. disk'.vault[r] = disk.vault[r]
        BY <1>7, <3>1, <3>3
      <4> QED
        BY <4>1, <4>2 DEF HasPair
    <3> QED
      BY <3>2, <3>3
  <2> QED
    BY <1>7, <2>1 DEF In
<1>11. Restorable(snap[a], disk')
  <2>1. Restorable(snap[a], disk)
    BY <1>0, <1>1 DEF FilesOf, BackOf, Undoable, Verifying
  <2> QED
    BY <1>2, <1>7, <1>9, <2>1, StillRestorable DEF In
<1>12. OwnOf(a)'
  <2>1. Login(a, "user") /\ Login(a, "pass")
    BY <1>0, <1>1 DEF FilesOf, OwnOf, Verifying
  <2>2. router[a] \notin left
    BY <1>5, <2>1 DEF HasPair, Login
  <2>3. Login(a, "user")' /\ Login(a, "pass")'
    BY <1>0, <1>1, <1>7, <2>1, <2>2 DEF Login
  <2>4. disk'.dotenv \cap In(disk'.routers) = {}
    BY <1>7 DEF In
  <2> QED
    BY <1>0, <1>1, <1>7, <2>3, <2>4 DEF FilesOf, OwnOf, Verifying, In
<1> QED
  BY <1>1, <1>8, <1>10, <1>11, <1>12 DEF DiskInv, Served, FilesOf, BackOf, CopyOf, Persisting

\* restore_registration_state, one file at a time.
LEMMA FilesBack ==
  ASSUME TypeOK, SoloInv, FilesInv, NEW a \in Attempt, PutBack(a)
  PROVE  DiskInv' /\ FilesOf(a)'
<1> USE DEF Go, files, screen, ghost
<1>0. /\ Fitting(disk) /\ Served(disk) /\ at \in [Attempt -> Steps]
      /\ disk \in Disks /\ snap[a] \in Disks /\ BackOf(a)
  BY DEF FilesInv, FilesOf, DiskInv, TypeOK
<1>1. /\ disk' = [disk EXCEPT ![at[a]] = snap[a][at[a]]] /\ at'[a] = AfterFile[at[a]]
      /\ at[a] \in {"routers", "allowed", "dotenv", "vault", "key"} /\ snap' = snap
  BY <1>0, StepsNamed DEF PutBack
<1>2. Restorable(snap[a], disk)
  BY <1>0, <1>1 DEF BackOf, Undoable, AfterFile
<1>3. Fitting(snap[a]) /\ Served(snap[a]) /\ snap[a].key \in {0, disk.key}
      /\ Grows(snap[a], disk) /\ In(snap[a].routers) \subseteq In(disk.routers)
  BY <1>2 DEF Restorable
<1>4. CopyOf(a)' /\ OwnOf(a)'
  BY <1>1 DEF AfterFile, CopyOf, OwnOf, Persisting, Verifying
<1>5. CASE at[a] = "routers"
  <2>1. /\ at'[a] = "allowed" /\ disk'.routers = snap[a].routers
        /\ UNCHANGED <<disk.allowed, disk.dotenv, disk.vault, disk.key>>
    BY <1>0, <1>1, <1>5 DEF AfterFile, Disks
  <2>2. Fitting(disk') /\ Grows(snap[a], disk') /\ Served(disk')
    BY <1>0, <1>3, <2>1 DEF Fitting, Grows, Served, HasPair
  <2>3. Restorable(snap[a], disk')
    BY <1>3, <2>1, <2>2 DEF Restorable
  <2> QED
    BY <1>1, <1>4, <2>1, <2>2, <2>3 DEF DiskInv, FilesOf, BackOf
<1>6. CASE at[a] = "allowed"
  <2>1. /\ at'[a] = "dotenv" /\ disk'.allowed = snap[a].allowed /\ disk.routers = snap[a].routers
        /\ UNCHANGED <<disk.routers, disk.dotenv, disk.vault, disk.key>>
    BY <1>0, <1>1, <1>6 DEF AfterFile, Disks, BackOf
  <2>2. Fitting(disk') /\ Grows(snap[a], disk') /\ Served(disk')
    BY <1>0, <1>3, <2>1 DEF Fitting, Grows, Served, HasPair
  <2>3. Restorable(snap[a], disk')
    BY <1>3, <2>1, <2>2 DEF Restorable
  <2> QED
    BY <1>1, <1>4, <2>1, <2>2, <2>3 DEF DiskInv, FilesOf, BackOf
<1>7. CASE at[a] = "dotenv"
  <2>1. /\ at'[a] = "vault" /\ disk'.dotenv = snap[a].dotenv /\ disk.routers = snap[a].routers
        /\ disk.allowed = snap[a].allowed
        /\ UNCHANGED <<disk.routers, disk.allowed, disk.vault, disk.key>>
    BY <1>0, <1>1, <1>7 DEF AfterFile, Disks, BackOf
  <2>2. Fitting(disk') /\ Grows(snap[a], disk')
    BY <1>0, <1>3, <2>1 DEF Fitting, Grows
  <2>3. Served(disk')
    BY <1>3, <2>1, <2>2, PairsKept DEF Served, In
  <2>4. Restorable(snap[a], disk')
    BY <1>3, <2>1, <2>2 DEF Restorable
  <2> QED
    BY <1>1, <1>4, <2>1, <2>2, <2>3, <2>4 DEF DiskInv, FilesOf, BackOf
<1>8. CASE at[a] = "vault"
  <2>1. /\ at'[a] = "key" /\ disk'.vault = snap[a].vault /\ disk.routers = snap[a].routers
        /\ disk.allowed = snap[a].allowed /\ disk.dotenv = snap[a].dotenv
        /\ UNCHANGED <<disk.routers, disk.allowed, disk.dotenv, disk.key>>
    BY <1>0, <1>1, <1>8 DEF AfterFile, Disks, BackOf
  <2>2. Fitting(disk') /\ Grows(snap[a], disk') /\ Served(disk')
    BY <1>3, <2>1 DEF Fitting, Grows, Served, HasPair, In
  <2>3. Restorable(snap[a], disk')
    BY <1>3, <2>1, <2>2 DEF Restorable
  <2> QED
    BY <1>1, <1>4, <2>1, <2>2, <2>3 DEF DiskInv, FilesOf, BackOf
<1>9. CASE at[a] = "key"
  <2>1. /\ at'[a] = "restored" /\ disk'.key = snap[a].key /\ disk.routers = snap[a].routers
        /\ disk.allowed = snap[a].allowed /\ disk.dotenv = snap[a].dotenv
        /\ disk.vault = snap[a].vault
        /\ UNCHANGED <<disk.routers, disk.allowed, disk.dotenv, disk.vault>>
    BY <1>0, <1>1, <1>9 DEF AfterFile, Disks, BackOf
  <2>2. Fitting(disk') /\ Served(disk')
    BY <1>3, <2>1 DEF Fitting, Served, HasPair, In
  <2> QED
    BY <1>1, <1>4, <2>1, <2>2 DEF DiskInv, FilesOf, BackOf, Undoable, Persisting, Verifying,
       AfterFile
<1> QED
  BY <1>1, <1>5, <1>6, <1>7, <1>8, <1>9

--------------------------------------------------------------------------------

\* What a thread does.
LEMMA FilesWorks ==
  ASSUME TypeOK, SoloInv, FilesInv, NEW a \in Attempt, Works(a)
  PROVE  FilesInv'
BY FilesQuiet, FilesLoad, FilesLogin, FilesWrite, FilesEnvironment, FilesBack, FilesByOne
   DEF Works

\* The operator, the chat and the world: they touch no file under a thread.
LEMMA FilesAround ==
  ASSUME TypeOK, Alone, SoloInv, FilesInv,
         \/ \E r \in Targets : Connect(r) \/ TrustSsh(r) \/ TrustedSsh(r) \/ CertChanges(r)
         \/ Trusted \/ Refused \/ LeaveChat \/ Kill \/ KillTrusting
  PROVE  FilesInv'
<1> USE DEF Go, files, thread, screen, ghost
<1>0. DiskInv /\ at \in [Attempt -> Steps] /\ disk \in Disks /\ disk.routers \in Entries
  BY DEF FilesInv, TypeOK, Disks
<1>1. disk' = disk => DiskInv'
  BY <1>0 DEF DiskInv, Fitting, Served, HasPair, In
<1>2. ASSUME NEW r \in Routers, Connect(r) PROVE FilesInv'
  <2>1. Running = {} /\ disk' = disk
    BY <1>2 DEF Connect, Alone
  <2>2. \A b \in Attempt : at'[b] \in Ended \cup {"capture"}
    BY <1>0, <1>2, <2>1 DEF Connect, Running
  <2> QED
    BY <1>1, <2>1, <2>2, FilesIdle DEF FilesInv
<1>3. ASSUME NEW r \in Routers, TrustSsh(r) PROVE FilesInv'
  <2>1. Running = {} /\ at' = at
    BY <1>3 DEF TrustSsh, SoloInv
  <2>2. \A b \in Attempt : at'[b] \in Ended
    BY <1>0, <2>1 DEF Running
  <2>3. UNCHANGED <<disk.dotenv, disk.vault, disk.key>>
        /\ \A q \in Routers : disk'.routers[q].pin = disk.routers[q].pin
    BY <1>0, <1>3 DEF TrustSsh, Disks, Entries
  <2>4. DiskInv'
    BY <1>0, <2>3 DEF DiskInv, Fitting, Served, HasPair, In
  <2> QED
    BY <2>2, <2>4, FilesIdle DEF FilesInv
<1>4. CASE Refused \/ Kill
  <2>1. \A b \in Attempt : at'[b] \in Ended
    <3>1. CASE Refused
      <4>1. asking \in Attempt /\ asking \in Running
        BY <1>0, <3>1 DEF Refused, SoloInv, TypeOK, Running, Ended
      <4>2. \A b \in Attempt \ {asking} : at[b] \in Ended
        BY <4>1 DEF SoloInv, Running
      <4> QED
        BY <1>0, <3>1, <4>2 DEF Refused, Ended
    <3>2. CASE Kill
      BY <1>0, <3>2 DEF Kill, Running, Ended
    <3> QED
      BY <1>4, <3>1, <3>2
  <2>2. disk' = disk
    BY <1>4 DEF Refused, Kill
  <2> QED
    BY <1>1, <2>1, <2>2, FilesIdle DEF FilesInv
<1>5. CASE Trusted
  <2>1. /\ asking \in Attempt /\ at[asking] = "asked" /\ at'[asking] = "snapshot"
        /\ disk' = disk /\ seen' = seen /\ at' = [at EXCEPT ![asking] = "snapshot"]
    BY <1>0, <1>5 DEF Trusted, SoloInv, TypeOK
  <2>2. \A b \in Attempt \ {asking} : at'[b] \in Ended
    BY <1>0, <2>1 DEF SoloInv, Running, Ended
  <2>3. seen[asking] \in Certs
    BY <2>1 DEF FilesInv, FilesOf, CopyOf
  <2>4. ASSUME NEW b \in Attempt, b = asking PROVE FilesOf(b)'
    <3>1. at'[b] = "snapshot" /\ seen'[b] \in Certs
      BY <2>1, <2>3, <2>4
    <3> QED
      BY <3>1 DEF FilesOf, BackOf, CopyOf, OwnOf, Undoable, Verifying, Persisting, AfterFile
  <2> QED
    BY <1>1, <2>1, <2>2, <2>4, FilesIdle DEF FilesInv
<1>6. CASE LeaveChat \/ KillTrusting \/ \E r \in Routers : TrustedSsh(r) \/ CertChanges(r)
  <2>1. UNCHANGED <<disk, at, snap, seen, routers, env, moving, router>>
    BY <1>6 DEF LeaveChat, KillTrusting, TrustedSsh, CertChanges
  <2>2. \A b \in Attempt : FilesOf(b)'
    BY <2>1 DEF FilesInv, FilesOf, BackOf, CopyOf, OwnOf, Login, Restorable, Fitting, Served,
       Grows, HasPair, In
  <2> QED
    BY <1>1, <2>1, <2>2 DEF FilesInv
<1> QED
  BY <1>2, <1>3, <1>4, <1>5, <1>6, TargetsAreRouters

\* Every step keeps the files in order.
LEMMA AloneStep == TypeOK /\ AloneInv /\ [Next]_vars => AloneInv'
<1> SUFFICES ASSUME TypeOK, AloneInv, [Next]_vars, Alone PROVE SoloInv' /\ FilesInv'
  <2>1. [Next]_vars => faults' = faults
    BY DEF Next, vars, Works, Capture, CaptureFails, Lookup, Review, Snapshot, Load, Migrated,
       MigrateUser, MigratePass, StoreUser, StorePass, WriteRouters, WriteAllowed,
       WriteDotenv, VaultUnreadable, WriteFails, Environment, Verified, NotVerified, PutBack,
       PutBackFails, ShowError, ShowConnected, Connect, TrustSsh, TrustedSsh, CertChanges,
       Trusted, Refused, LeaveChat, Kill, KillTrusting
  <2> QED
    BY <2>1 DEF AloneInv, Alone
<1>1. SoloInv /\ FilesInv
  BY DEF AloneInv
<1>2. CASE UNCHANGED vars
  <2>1. SoloInv'
    BY <1>1, <1>2 DEF vars, thread, screen, SoloInv, Running
  <2>2. UNCHANGED <<disk, at, snap, seen, routers, env, moving, router>>
    BY <1>2 DEF vars, thread, files
  <2>3. DiskInv'
    BY <1>1, <2>2 DEF FilesInv, DiskInv, Fitting, Served, HasPair, In
  <2>4. \A b \in Attempt : FilesOf(b)'
    BY <1>1, <2>2 DEF FilesInv, FilesOf, BackOf, CopyOf, OwnOf, Login, Restorable, Fitting,
       Served, Grows, HasPair, In
  <2> QED
    BY <2>1, <2>3, <2>4 DEF FilesInv
<1> QED
  BY <1>1, <1>2, SoloWorks, SoloAround, FilesWorks, FilesAround DEF Next

\* With one attempt at a time, and any number of them, none of the kills and failing writes
\* leaves a registered router without a login that MikroMCP can read.
THEOREM LoginsKept == Spec => []CredentialsKept
<1>1. AloneInv => CredentialsKept
  BY DEF AloneInv, Alone, FilesInv, DiskInv, Fitting, Served, CredentialsKept, Garbled, In,
     Halves
<1> QED
  BY <1>1, AloneInit, AloneStep, TypeCorrect, PTL DEF Spec

\* With one attempt at a time: after a clean-up that came to its end, the files are those
\* the attempt found.
THEOREM CleanedUp == Spec => []FailureRestores
<1>1. TypeOK /\ AloneInv => FailureRestores
  <2> SUFFICES ASSUME TypeOK, AloneInv, Alone, NEW a \in Attempt, at[a] = "restored"
               PROVE  disk = snap[a]
    BY DEF FailureRestores, Alone
  <2>1. disk \in Disks /\ snap[a] \in Disks /\ BackOf(a)
    BY DEF TypeOK, AloneInv, FilesInv, FilesOf
  <2> QED
    BY <2>1 DEF BackOf, Disks
<1> QED
  BY <1>1, AloneInit, AloneStep, TypeCorrect, PTL DEF Spec

\* With one attempt at a time: what MikroMCP verified is what the operator confirmed and what
\* is on disk, the whole of it.
THEOREM VerifiedIsWhole == Spec => []RegisteredIsComplete
<1>1. TypeOK /\ AloneInv => RegisteredIsComplete
  <2> SUFFICES ASSUME TypeOK, AloneInv, Alone, NEW a \in Attempt, at[a] = "verified"
               PROVE  LET r == router[a] IN
                      /\ disk.routers[r].pin = seen[a] /\ In(disk.routers) \subseteq disk.allowed
                      /\ Readable(disk, r)
                      /\ disk.vault[r].user.of = a /\ disk.vault[r].pass.of = a
                      /\ disk.dotenv \cap In(disk.routers) = {}
    BY DEF RegisteredIsComplete, Alone
  <2>1. router[a] \in Routers /\ OwnOf(a) /\ Fitting(disk)
    BY DEF TypeOK, AloneInv, FilesInv, DiskInv, FilesOf
  <2>2. Login(a, "user") /\ Login(a, "pass")
    BY <2>1 DEF OwnOf, Verifying
  <2>3. Readable(disk, router[a])
    BY <2>1, <2>2 DEF Readable, HasPair, Garbled, Fitting, Login, Halves
  <2> QED
    BY <2>1, <2>2, <2>3 DEF OwnOf, Login, Verifying
<1> QED
  BY <1>1, AloneInit, AloneStep, TypeCorrect, PTL DEF Spec

===============================================================================
