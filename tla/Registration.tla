----------------------------- MODULE Registration -----------------------------
(***************************************************************************)
(* core/registration/service.py and store.py: preparing, persisting and     *)
(* verifying the registration of a router, the files it touches, the vault  *)
(* of agent/secret_store.py, and the connection form of ui/textual/app.py   *)
(* that drives them in thread workers.                                      *)
(*                                                                          *)
(* A worker of the exclusive group "registration" is a thread: starting     *)
(* the next one does not stop it.  The button is off while one runs, but    *)
(* Enter in a field of the form still starts another.                       *)
(*                                                                          *)
(* Every file is replaced atomically, so a kill falls between two writes.   *)
(* A set of the vault, the snapshot and a read of a file are one step, and  *)
(* so is runtime_environment: .env is the last thing it writes.             *)
(***************************************************************************)
EXTENDS Naturals, FiniteSets

CONSTANTS
  Routers,      \* the routers an operator may connect to, by their ID
  MaxAttempts,  \* bound: registrations attempted
  Faults        \* sets of what may go wrong together: "overlap", "kill", "disk"; with
                \* "single", a bound: all attempts are for one router

ASSUME RegistrationBounds ==
  /\ Routers # {} /\ MaxAttempts \in Nat
  /\ Faults \subseteq SUBSET {"overlap", "kill", "disk", "single"}

VARIABLES
  \* --- the files of .mth/mikromcp ---
  disk,      \* routers.yaml, identities.yaml, .env, router-secrets.json and its key
  sshHosts,  \* ssh-hosts.yaml: the routers whose SSH key is trusted
  keysMade,  \* Fernet keys generated so far
  \* --- one thread per attempt ---
  at,        \* at[a]: the step its thread is at
  router,    \* router[a]: PendingRegistration.router_id
  seen,      \* seen[a]: the fingerprint captured, PendingRegistration.tls_fingerprint
  known,     \* known[a]: PendingRegistration.trusted_fingerprint
  snap,      \* snap[a]: the snapshot of disk
  routers,   \* routers[a]: routers.yaml as persist loaded it
  env,       \* env[a]: the routers whose credentials are in .env as loaded
  moving,    \* moving[a]: the router whose credentials it is moving to the vault
  \* --- the application ---
  asking,    \* _pending_fingerprint: an attempt or 0
  busy,      \* #connect is disabled
  chat,      \* the routers whose ChatScreen was pushed
  trusting,  \* the routers between the two writes of trust_ssh_host
  \* --- the world, and what happened ---
  cert,      \* cert[r]: the certificate it presents
  attempts,  \* attempts so far
  confirmed, \* confirmed[r]: the fingerprints the operator trusts for it
  faults     \* what goes wrong in this behaviour

thread == <<at, router, seen, known, snap, routers, env, moving>>
files  == <<disk, sshHosts, keysMade>>
screen == <<asking, busy, chat, trusting>>
ghost  == <<attempts, confirmed>>
vars   == <<files, thread, screen, cert, ghost, faults>>

Attempt == 1..MaxAttempts
Certs   == {1, 2}

\* An entry of routers.yaml: its tls fingerprint and whether it has sshFingerprint.
Unknown  == [pin |-> 0, ssh |-> FALSE]
In(file) == {r \in Routers : file[r].pin # 0}

\* A ciphertext: whose value it holds (0: from before) and the key it needs; key 0
\* stands for an absent one.
Absent == [of |-> 0, key |-> 0]
NoPair == [user |-> Absent, pass |-> Absent]

\* ProviderSecretStore.get of both halves of a pair.
HasPair(d, r)  == d.vault[r].user.key # 0 /\ d.vault[r].pass.key # 0
Garbled(d, r)  == \E f \in {"user", "pass"} : d.vault[r][f].key \notin {0, d.key}
Readable(d, r) == HasPair(d, r) /\ ~Garbled(d, r)

\* A thread's locals before they have a value, and after its end.
Someone == CHOOSE r \in Routers : TRUE
Nothing == [routers |-> [r \in Routers |-> Unknown], allowed |-> {}, dotenv |-> {},
            vault |-> [r \in Routers |-> NoPair], key |-> 0]

\* A router registered before, by a version with credentials in .env or by this one.
Old(r) == [Nothing EXCEPT !.routers[r].pin = 1, !.allowed = {r}, !.dotenv = {r}]
Current(r) ==
  [Old(r) EXCEPT !.dotenv = {}, !.key = 1,
     !.vault[r] = [user |-> [of |-> 0, key |-> 1], pass |-> [of |-> 0, key |-> 1]]]

\* The routers this behaviour deals with.
Targets == IF "single" \in faults THEN {Someone} ELSE Routers

Init ==
  /\ faults \in Faults
  /\ disk \in {Nothing} \cup {Old(r) : r \in Targets} \cup {Current(r) : r \in Targets}
  /\ sshHosts = {} /\ keysMade = disk.key
  /\ at = [a \in Attempt |-> "new"] /\ router = [a \in Attempt |-> Someone]
  /\ seen = [a \in Attempt |-> 0] /\ known = [a \in Attempt |-> FALSE]
  /\ snap = [a \in Attempt |-> Nothing]
  /\ routers = [a \in Attempt |-> Nothing.routers] /\ env = [a \in Attempt |-> {}]
  /\ moving = [a \in Attempt |-> Someone]
  /\ asking = 0 /\ busy = FALSE /\ chat = {} /\ trusting = {}
  /\ cert = [r \in Routers |-> 1] /\ attempts = 0
  /\ confirmed = [r \in Routers |-> {disk.routers[r].pin} \ {0}]

Ended   == {"new", "connected", "failed", "refused", "dropped", "killed"}
Running == {a \in Attempt : at[a] \notin Ended}
Go(a, step) == at' = [at EXCEPT ![a] = step]

\* The threads of these attempts are gone, and their locals with them.
Forget(A) ==
  /\ seen' = [a \in Attempt |-> IF a \in A THEN 0 ELSE seen[a]]
  /\ known' = [a \in Attempt |-> a \notin A /\ known[a]]
  /\ snap' = [a \in Attempt |-> IF a \in A THEN Nothing ELSE snap[a]]
  /\ routers' = [a \in Attempt |-> IF a \in A THEN Nothing.routers ELSE routers[a]]
  /\ env' = [a \in Attempt |-> IF a \in A THEN {} ELSE env[a]]
  /\ moving' = [a \in Attempt |-> IF a \in A THEN Someone ELSE moving[a]]
  /\ router' = [a \in Attempt |-> IF a \in A THEN Someone ELSE router[a]]

DiskFails == "disk" \in faults

-----------------------------------------------------------------------------
(* Preparing: action_connect and RegistrationService.prepare.                *)

\* The form, by its button or by Enter in a field; hidden under a question or a chat.
Connect(r) ==
  /\ attempts < MaxAttempts /\ asking = 0 /\ chat = {}
  /\ Running = {} \/ ("overlap" \in faults /\ Cardinality(Running) < 2)
  /\ attempts' = attempts + 1 /\ busy' = TRUE
  /\ router' = [router EXCEPT ![attempts'] = r] /\ Go(attempts', "capture")
  /\ UNCHANGED <<files, seen, known, snap, routers, env, moving, asking, chat, trusting,
                 cert, confirmed, faults>>

\* The certificate www-ssl presents now.
Capture(a) ==
  /\ at[a] = "capture" /\ Go(a, "lookup")
  /\ seen' = [seen EXCEPT ![a] = cert[router[a]]]
  /\ UNCHANGED <<files, router, known, snap, routers, env, moving, screen, cert, ghost, faults>>

\* An unsupported version, no www-ssl, no certificate.
CaptureFails(a) ==
  /\ at[a] = "capture" /\ Go(a, "report")
  /\ UNCHANGED <<files, router, seen, known, snap, routers, env, moving, screen, cert, ghost,
                 faults>>

\* Mutant: the pin is not compared.
LookupUnchecked(a) ==
  /\ at[a] = "lookup" /\ Go(a, "review")
  /\ known' = [known EXCEPT ![a] = disk.routers[router[a]].pin # 0]
  /\ UNCHANGED <<files, router, seen, snap, routers, env, moving, screen, cert, ghost, faults>>

\* The pin recorded for this host must be the certificate just seen.  There is none when the
\* entry of the router has another address of it.
Lookup(a) ==
  /\ at[a] = "lookup"
  /\ \E pin \in {0, disk.routers[router[a]].pin} :
       /\ known' = [known EXCEPT ![a] = pin # 0]
       /\ Go(a, IF pin \in {0, seen[a]} THEN "review" ELSE "report")
  /\ UNCHANGED <<files, router, seen, snap, routers, env, moving, screen, cert, ghost, faults>>

\* _review_fingerprint: a new question replaces the one on the screen.
Review(a) ==
  /\ at[a] = "review"
  /\ IF known[a]
       THEN Go(a, "snapshot") /\ Forget({}) /\ UNCHANGED asking
       ELSE /\ asking' = a /\ Forget({asking})
            /\ at' = [b \in Attempt |-> IF b = a THEN "asked"
                                        ELSE IF b = asking THEN "dropped" ELSE at[b]]
  /\ UNCHANGED <<files, busy, chat, trusting, cert, ghost, faults>>

Trusted ==
  /\ asking # 0 /\ asking' = 0 /\ Go(asking, "snapshot")
  /\ confirmed' = [confirmed EXCEPT ![router[asking]] = @ \cup {seen[asking]}]
  /\ UNCHANGED <<files, router, seen, known, snap, routers, env, moving, busy, chat, trusting,
                 cert, attempts, faults>>

\* Mutant: _set_connecting(False) is forgotten.
RefusedStaysOff ==
  /\ asking # 0 /\ asking' = 0 /\ Go(asking, "refused")
  /\ Forget({asking}) /\ UNCHANGED <<files, busy, chat, trusting, cert, ghost, faults>>

Refused ==
  /\ asking # 0 /\ asking' = 0 /\ Go(asking, "refused") /\ busy' = FALSE
  /\ Forget({asking}) /\ UNCHANGED <<files, chat, trusting, cert, ghost, faults>>

-----------------------------------------------------------------------------
(* Persisting: MikroMcpConfigStore.persist.                                  *)

Snapshot(a) ==
  /\ at[a] = "snapshot" /\ Go(a, "load") /\ snap' = [snap EXCEPT ![a] = disk]
  /\ UNCHANGED <<files, router, seen, known, routers, env, moving, screen, cert, ghost, faults>>

Load(a) ==
  /\ at[a] = "load" /\ Go(a, "migrate")
  /\ routers' = [routers EXCEPT ![a] = disk.routers] /\ env' = [env EXCEPT ![a] = disk.dotenv]
  /\ UNCHANGED <<files, router, seen, known, snap, moving, screen, cert, ghost, faults>>

\* ProviderSecretStore.set of one half of r's pair, with a new Fernet key if there is none.
Stored(d, r, half, who) ==
  LET key == IF d.key = 0 THEN keysMade + 1 ELSE d.key
  IN  [d EXCEPT !.key = key, !.vault[r][half] = [of |-> who, key |-> key]]
Store(r, half, who) ==
  /\ disk' = Stored(disk, r, half, who)
  /\ keysMade' = IF disk.key = 0 THEN keysMade + 1 ELSE keysMade
  /\ UNCHANGED sshHosts

\* _migrate_legacy_credentials: a router that has a pair in the vault loses the one in .env.
Migrated(a, r) ==
  /\ at[a] = "migrate" /\ r \in In(routers[a]) \cap env[a] /\ Readable(disk, r)
  /\ env' = [env EXCEPT ![a] = @ \ {r}]
  /\ UNCHANGED <<files, at, router, seen, known, snap, routers, moving, screen, cert, ghost,
                 faults>>

MigrateUser(a, r) ==
  /\ at[a] = "migrate" /\ r \in In(routers[a]) \cap env[a]
  /\ ~Garbled(disk, r) /\ ~HasPair(disk, r)
  /\ Store(r, "user", 0) /\ moving' = [moving EXCEPT ![a] = r] /\ Go(a, "migratePass")
  /\ UNCHANGED <<router, seen, known, snap, routers, env, screen, cert, ghost, faults>>

MigratePass(a) ==
  /\ at[a] = "migratePass" /\ Store(moving[a], "pass", 0) /\ Go(a, "migrate")
  /\ env' = [env EXCEPT ![a] = @ \ {moving[a]}]
  /\ UNCHANGED <<router, seen, known, snap, routers, moving, screen, cert, ghost, faults>>

\* Every registered router has been looked at.
StoreUser(a) ==
  /\ at[a] = "migrate" /\ In(routers[a]) \cap env[a] = {}
  /\ \A r \in In(routers[a]) : ~Garbled(disk, r)
  /\ Store(router[a], "user", a) /\ Go(a, "storePass")
  /\ UNCHANGED <<router, seen, known, snap, routers, env, moving, screen, cert, ghost, faults>>

StorePass(a) ==
  /\ at[a] = "storePass" /\ Store(router[a], "pass", a) /\ Go(a, "writeRouters")
  /\ env' = [env EXCEPT ![a] = @ \ {router[a]}]
  /\ UNCHANGED <<router, seen, known, snap, routers, moving, screen, cert, ghost, faults>>

\* The entry is made anew, so sshPort and sshFingerprint of an earlier one are gone.
WriteRouters(a) ==
  /\ at[a] = "writeRouters" /\ Go(a, "writeAllowed")
  /\ routers' = [routers EXCEPT ![a][router[a]] = [pin |-> seen[a], ssh |-> FALSE]]
  /\ disk' = [disk EXCEPT !.routers = routers'[a]]
  /\ UNCHANGED <<sshHosts, keysMade, router, seen, known, snap, env, moving, screen, cert,
                 ghost, faults>>

\* Mutant: only the new router is allowed.
WriteAllowedOwn(a) ==
  /\ at[a] = "writeAllowed" /\ Go(a, "writeDotenv")
  /\ disk' = [disk EXCEPT !.allowed = {router[a]}]
  /\ UNCHANGED <<sshHosts, keysMade, router, seen, known, snap, routers, env, moving, screen,
                 cert, ghost, faults>>

WriteAllowed(a) ==
  /\ at[a] = "writeAllowed" /\ Go(a, "writeDotenv")
  /\ disk' = [disk EXCEPT !.allowed = In(routers[a])]
  /\ UNCHANGED <<sshHosts, keysMade, router, seen, known, snap, routers, env, moving, screen,
                 cert, ghost, faults>>

WriteDotenv(a) ==
  /\ at[a] = "writeDotenv" /\ Go(a, "environment")
  /\ disk' = [disk EXCEPT !.dotenv = env[a]]
  /\ UNCHANGED <<sshHosts, keysMade, router, seen, known, snap, routers, env, moving, screen,
                 cert, ghost, faults>>

\* A ciphertext of another key, at any of the reads of the vault.
VaultUnreadable(a) ==
  /\ \/ at[a] = "migrate" /\ \E r \in In(routers[a]) : Garbled(disk, r)
     \/ at[a] = "environment" /\ \E r \in In(disk.routers) : Garbled(disk, r)
  /\ Go(a, "routers")
  /\ UNCHANGED <<files, router, seen, known, snap, routers, env, moving, screen, cert, ghost,
                 faults>>

WriteFails(a) ==
  /\ DiskFails /\ Go(a, "routers")
  /\ at[a] \in {"load", "migrate", "migratePass", "storePass", "writeRouters", "writeAllowed",
                "writeDotenv"}
  /\ UNCHANGED <<files, router, seen, known, snap, routers, env, moving, screen, cert, ghost,
                 faults>>

-----------------------------------------------------------------------------
(* Verifying: runtime_environment, inspect_router, and what follows.         *)

\* Pairs still in .env move to the vault; another attempt may have put them back there.
Environment(a) ==
  /\ at[a] = "environment" /\ \A r \in In(disk.routers) : ~Garbled(disk, r)
  /\ LET left == {r \in In(disk.routers) \cap disk.dotenv : ~HasPair(disk, r)}
         key  == IF left # {} /\ disk.key = 0 THEN keysMade + 1 ELSE disk.key
         pair == [user |-> [of |-> 0, key |-> key], pass |-> [of |-> 0, key |-> key]]
     IN  /\ disk' = [disk EXCEPT !.dotenv = @ \ In(disk.routers), !.key = key,
                       !.vault = [r \in Routers |-> IF r \in left THEN pair ELSE @[r]]]
         /\ keysMade' = IF key > keysMade THEN key ELSE keysMade
  /\ Go(a, "inspect")
  /\ UNCHANGED <<sshHosts, router, seen, known, snap, routers, env, moving, screen, cert,
                 ghost, faults>>

\* MikroMCP holds the router to the pin in routers.yaml; any inspection may fail.
Verified(a) ==
  /\ at[a] = "inspect" /\ Go(a, "verified")
  /\ router[a] \in disk.allowed /\ disk.routers[router[a]].pin = cert[router[a]]
  /\ UNCHANGED <<files, router, seen, known, snap, routers, env, moving, screen, cert, ghost,
                 faults>>

NotVerified(a) ==
  /\ at[a] = "inspect" /\ Go(a, "routers")
  /\ UNCHANGED <<files, router, seen, known, snap, routers, env, moving, screen, cert, ghost,
                 faults>>

\* Mutants: the key goes before what it encrypts; identities.yaml is left out; the error
\* is swallowed.
AfterFileKeyFirst == [routers |-> "allowed", allowed |-> "dotenv", dotenv |-> "key",
                      key |-> "vault", vault |-> "restored"]
AfterFileNoIdentities == [routers |-> "dotenv", allowed |-> "dotenv", dotenv |-> "vault",
                          vault |-> "key", key |-> "restored"]
AfterFileQuiet == [routers |-> "allowed", allowed |-> "dotenv", dotenv |-> "vault",
                   vault |-> "key", key |-> "swallowed"]

\* restore_registration_state: the files in this order, each replaced or deleted.
AfterFile == [routers |-> "allowed", allowed |-> "dotenv", dotenv |-> "vault",
              vault |-> "key", key |-> "restored"]

PutBack(a) ==
  /\ at[a] \in DOMAIN AfterFile
  /\ disk' = [disk EXCEPT ![at[a]] = snap[a][at[a]]] /\ Go(a, AfterFile[at[a]])
  /\ UNCHANGED <<sshHosts, keysMade, router, seen, known, snap, routers, env, moving, screen,
                 cert, ghost, faults>>

\* The error escapes: the rest stays as it is.
PutBackFails(a) ==
  /\ DiskFails /\ at[a] \in DOMAIN AfterFile /\ Go(a, "report")
  /\ UNCHANGED <<files, router, seen, known, snap, routers, env, moving, screen, cert, ghost,
                 faults>>

ShowError(a) ==
  /\ at[a] \in {"restored", "report"} /\ Go(a, "failed") /\ busy' = FALSE
  /\ Forget({a}) /\ UNCHANGED <<files, asking, chat, trusting, cert, ghost, faults>>

ShowConnected(a) ==
  /\ at[a] = "verified" /\ Go(a, "connected") /\ busy' = FALSE
  /\ chat' = chat \cup {router[a]}
  /\ Forget({a}) /\ UNCHANGED <<files, asking, trusting, cert, ghost, faults>>

-----------------------------------------------------------------------------
(* The chat on top of the form, the operator and the world.                  *)

\* trust_ssh_host writes routers.yaml and then ssh-hosts.yaml.
TrustSsh(r) ==
  /\ r \in chat \ (sshHosts \cup trusting) /\ r \in In(disk.routers)
  /\ disk' = [disk EXCEPT !.routers[r].ssh = TRUE] /\ trusting' = trusting \cup {r}
  /\ UNCHANGED <<sshHosts, keysMade, thread, asking, busy, chat, cert, ghost, faults>>

TrustedSsh(r) ==
  /\ r \in trusting /\ trusting' = trusting \ {r} /\ sshHosts' = sshHosts \cup {r}
  /\ UNCHANGED <<disk, keysMade, thread, asking, busy, chat, cert, ghost, faults>>

LeaveChat ==
  /\ chat # {} /\ trusting = {} /\ chat' = {}
  /\ UNCHANGED <<files, thread, asking, busy, trusting, cert, ghost, faults>>

\* Killed and started again: memory is gone, the files are what they are.
Kill ==
  /\ "kill" \in faults /\ Running # {}
  /\ at' = [a \in Attempt |-> IF a \in Running THEN "killed" ELSE at[a]]
  /\ asking' = 0 /\ busy' = FALSE /\ chat' = {} /\ trusting' = {}
  /\ Forget(Running) /\ UNCHANGED <<files, cert, ghost, faults>>

KillTrusting ==
  /\ "kill" \in faults /\ Running = {} /\ trusting # {} /\ chat' = {} /\ trusting' = {}
  /\ UNCHANGED <<files, thread, asking, busy, cert, ghost, faults>>

\* Somebody gives the router another certificate, or stands in for it.
CertChanges(r) ==
  /\ cert[r] = 1 /\ cert' = [cert EXCEPT ![r] = 2]
  /\ UNCHANGED <<files, thread, screen, ghost, faults>>

\* What a thread does by itself.
Works(a) ==
  \/ Capture(a) \/ CaptureFails(a) \/ Lookup(a) \/ Review(a) \/ Snapshot(a) \/ Load(a)
  \/ \E r \in Routers : Migrated(a, r) \/ MigrateUser(a, r)
  \/ MigratePass(a) \/ StoreUser(a) \/ StorePass(a)
  \/ WriteRouters(a) \/ WriteAllowed(a) \/ WriteDotenv(a) \/ VaultUnreadable(a)
  \/ WriteFails(a) \/ Environment(a) \/ Verified(a) \/ NotVerified(a)
  \/ PutBack(a) \/ PutBackFails(a) \/ ShowError(a) \/ ShowConnected(a)

Next ==
  \/ \E a \in Attempt : Works(a)
  \/ \E r \in Targets : Connect(r) \/ TrustSsh(r) \/ TrustedSsh(r) \/ CertChanges(r)
  \/ Trusted \/ Refused \/ LeaveChat \/ Kill \/ KillTrusting

\* Threads are not starved; the operator may do nothing, nothing need go wrong.
Spec == Init /\ [][Next]_vars /\ \A a \in Attempt : WF_vars(Works(a))

-----------------------------------------------------------------------------
(* Properties                                                                *)

Steps == Ended \cup DOMAIN AfterFile \cup
  {"capture", "lookup", "review", "asked", "snapshot", "load", "migrate", "migratePass",
   "storePass", "writeRouters", "writeAllowed", "writeDotenv", "environment", "inspect",
   "verified", "restored", "report"}
Entries == [Routers -> [pin : {0} \cup Certs, ssh : BOOLEAN]]
Secrets == [of : {0} \cup Attempt, key : Nat]
Disks   == [routers : Entries, allowed : SUBSET Routers, dotenv : SUBSET Routers,
            vault : [Routers -> [user : Secrets, pass : Secrets]], key : Nat]

\* Every variable keeps its type.
TypeOK ==
  /\ disk \in Disks /\ sshHosts \subseteq Routers /\ keysMade \in Nat
  /\ at \in [Attempt -> Steps] /\ router \in [Attempt -> Routers]
  /\ seen \in [Attempt -> {0} \cup Certs] /\ known \in [Attempt -> BOOLEAN]
  /\ snap \in [Attempt -> Disks] /\ routers \in [Attempt -> Entries]
  /\ env \in [Attempt -> SUBSET Routers] /\ moving \in [Attempt -> Routers]
  /\ asking \in {0} \cup Attempt /\ busy \in BOOLEAN /\ chat \subseteq Routers
  /\ trusting \subseteq Routers /\ cert \in [Routers -> Certs]
  /\ attempts \in 0..MaxAttempts /\ confirmed \in [Routers -> SUBSET ({0} \cup Certs)]
  /\ faults \in Faults

\* Whatever overlaps, fails, is restored or is killed: MikroMCP is told to accept only
\* certificates the operator confirmed for that router (service.py:98-117, app.py:462).
PinConfirmed ==
  \A r \in Routers : disk.routers[r].pin \in {0} \cup confirmed[r]

\* One attempt at a time: kills and a failing disk at any write never leave a registered
\* router without a login MikroMCP can read, in the vault or still in .env
\* (store.py:233-238, 289-295, 324-346; the vault is useless without its key).
CredentialsKept ==
  "overlap" \notin faults =>
    \A r \in In(disk.routers) :
      ~Garbled(disk, r) /\ (HasPair(disk, r) \/ r \in disk.dotenv)

\* One attempt at a time: when an attempt that failed has come to the end of its clean-up,
\* every file is as it found it; a failing disk can only stop it before
\* (service.py:119-185).
FailureRestores ==
  "overlap" \notin faults => \A a \in Attempt : at[a] = "restored" => disk = snap[a]

\* One attempt at a time: what MikroMCP verified is what was confirmed and saved, the whole
\* of it, also after attempts that were killed or could not clean up (store.py:219-275).
RegisteredIsComplete ==
  "overlap" \notin faults =>
    \A a \in Attempt : at[a] = "verified" =>
      LET r == router[a] IN
      /\ disk.routers[r].pin = seen[a] /\ In(disk.routers) \subseteq disk.allowed
      /\ Readable(disk, r) /\ disk.vault[r].user.of = a /\ disk.vault[r].pass.of = a
      /\ disk.dotenv \cap In(disk.routers) = {}

\* The form is never switched off for good: it comes back, or there is a question to answer
\* (app.py:431, 484-498, 567-572).
ConnectComesBack == busy ~> (~busy \/ asking # 0)

\* A key the operator confirmed for SSH is the one both ends are held to (store.py:193).
PinnedForBoth ==
  \A r \in (sshHosts \cap In(disk.routers)) \ trusting : disk.routers[r].ssh

===============================================================================
