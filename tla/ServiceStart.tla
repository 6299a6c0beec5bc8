---------------------------- MODULE ServiceStart ----------------------------
(***************************************************************************)
(* costroid serve from start to listening: instances of several releases   *)
(* start, crash and start again on one database. Each migrates under an    *)
(* advisory lock its connection holds, opens the ledger and binds owners.  *)
(***************************************************************************)
EXTENDS Integers, Sequences, FiniteSets, FiniteSetsExt

CONSTANTS
  Instances,  \* instances of the service
  Migrations, \* each instance's embedded migrations: version to checksum
  Migrates,   \* instances given the owner's connection
  Role,       \* each instance's role on the database: "app" owns nothing, "owner" is
              \* the migrations' own, "unsafe" reads past row level security
  Binds,      \* each instance's --bind owners
  Owners,     \* every owner
  MaxStarts   \* bound on starts

(* A release's migrations are numbered from 1 without a gap, as the files  *)
(* under src/migrations are: readMigrations does not ask for it, and a     *)
(* later release that filled a gap would run it out of order.              *)
ASSUME StartAssumption ==
  /\ "" \notin Instances
  /\ \A i \in Instances : DOMAIN Migrations[i] = 1 .. Len(Migrations[i]) /\ Len(Migrations[i]) \in Nat
  /\ Role \in [Instances -> {"app", "owner", "unsafe"}]
  /\ \A i \in Instances : Binds[i] \subseteq Owners

VARIABLES
  created,    \* schema_migrations exists: the owner's role owns a relation
  applied,    \* schema_migrations: version to checksum
  executed,   \* the migrations whose statements took effect, in order
  lockHolder, \* holder of the migration lock, "" when free
  instance,   \* each instance's progress
  tenantOf,   \* tenant_bindings: the tenant of each owner, 0 for none
  starts      \* starts so far; also names the tenant a start provisions

startVars == <<created, applied, executed, lockHolder, instance, tenantOf, starts>>

Down == [step |-> "down"]

StartInit ==
  /\ created = FALSE /\ applied = [v \in {} |-> ""] /\ executed = <<>> /\ lockHolder = ""
  /\ instance = [i \in Instances |-> Down]
  /\ tenantOf = [o \in Owners |-> 0] /\ starts = 0

-----------------------------------------------------------------------------
Move(i, state) == instance' = [instance EXCEPT ![i] = state]

(* An instance that ends closes its connections, and with them its lock.   *)
End(i, state) ==
  /\ Move(i, state)
  /\ lockHolder' = IF lockHolder = i THEN "" ELSE lockHolder
  /\ UNCHANGED <<created, applied, executed, tenantOf, starts>>

Start(i) ==
  /\ instance[i].step \in {"down", "failed"} /\ starts < MaxStarts
  /\ starts' = starts + 1
  /\ Move(i, [step |-> IF i \in Migrates THEN "lock" ELSE "open", tenant |-> starts'])
  /\ UNCHANGED <<created, applied, executed, lockHolder, tenantOf>>

(* Mutant: nobody waits for the lock.                                      *)
TakeAnyway(i) ==
  /\ instance[i].step = "lock" /\ lockHolder' = i
  /\ Move(i, [instance[i] EXCEPT !.step = "check"])
  /\ UNCHANGED <<created, applied, executed, tenantOf, starts>>

(* pg_advisory_lock waits for its holder.                                  *)
TakeLock(i) ==
  /\ instance[i].step = "lock" /\ lockHolder = "" /\ lockHolder' = i
  /\ Move(i, [instance[i] EXCEPT !.step = "check"])
  /\ UNCHANGED <<created, applied, executed, tenantOf, starts>>

(* checkHistory: a version this release does not know, or knows with       *)
(* another checksum, ends the start. The table is there before it is read. *)
knows(i) == \A v \in DOMAIN applied : v \in DOMAIN Migrations[i] /\ Migrations[i][v] = applied[v]

CheckHistory(i) ==
  /\ instance[i].step = "check" /\ created' = TRUE
  /\ IF knows(i)
       THEN /\ Move(i, [step |-> "apply", tenant |-> instance[i].tenant,
                        todo |-> DOMAIN Migrations[i] \ DOMAIN applied])
            /\ UNCHANGED lockHolder
       ELSE /\ Move(i, [step |-> "failed", reason |-> "history"])
            /\ lockHolder' = ""
  /\ UNCHANGED <<applied, executed, tenantOf, starts>>

(* apply: a migration's statements and its record, in one transaction. A   *)
(* version recorded meanwhile fails it.                                    *)
Apply(i) ==
  /\ instance[i].step = "apply" /\ instance[i].todo # {}
  /\ LET v == Min(instance[i].todo) IN
     IF v \in DOMAIN applied THEN End(i, [step |-> "failed", reason |-> "apply"])
     ELSE /\ applied' = [w \in DOMAIN applied \cup {v} |-> IF w = v THEN Migrations[i][v] ELSE applied[w]]
          /\ executed' = Append(executed, v)
          /\ Move(i, [instance[i] EXCEPT !.todo = @ \ {v}])
          /\ UNCHANGED <<created, lockHolder, tenantOf, starts>>

Migrated(i) ==
  /\ instance[i].step = "apply" /\ instance[i].todo = {}
  /\ End(i, [step |-> "open", tenant |-> instance[i].tenant])

(* checkRole: what the role may do and own, and nothing of the schema.     *)
safe(i) == Role[i] = "app" \/ (Role[i] = "owner" /\ ~created)

Open(i) ==
  /\ instance[i].step = "open"
  /\ End(i, IF safe(i)
              THEN [step |-> "bind", tenant |-> instance[i].tenant, left |-> Binds[i], missing |-> {}]
              ELSE [step |-> "failed", reason |-> "role"])

(* bindOwners: TenantForOwner for each owner, each a transaction. It fails *)
(* where no migration has made the table.                                  *)
LookUp(i, o) ==
  /\ instance[i].step = "bind" /\ o \in instance[i].left
  /\ IF 1 \in DOMAIN applied
       THEN /\ Move(i, [instance[i] EXCEPT !.left = @ \ {o},
                                           !.missing = IF tenantOf[o] = 0 THEN @ \cup {o} ELSE @])
            /\ UNCHANGED <<created, applied, executed, lockHolder, tenantOf, starts>>
       ELSE End(i, [step |-> "failed", reason |-> "lookup"])

(* Provision: the missing owners to one new tenant in one transaction, in  *)
(* which an owner bound meanwhile fails all.                               *)
Serving(i) == [step |-> "serving", tenant |-> instance[i].tenant, missing |-> instance[i].missing]

(* Mutant: an owner bound meanwhile is passed over.                        *)
ProvisionRest(i) ==
  /\ instance[i].step = "bind" /\ instance[i].left = {}
  /\ IF instance[i].missing # {} /\ i \notin Migrates
       THEN End(i, [step |-> "failed", reason |-> "bind"])
       ELSE /\ tenantOf' = [o \in Owners |-> IF o \in instance[i].missing /\ tenantOf[o] = 0
                                               THEN instance[i].tenant ELSE tenantOf[o]]
            /\ Move(i, Serving(i))
            /\ UNCHANGED <<created, applied, executed, lockHolder, starts>>

Provision(i) ==
  /\ instance[i].step = "bind" /\ instance[i].left = {}
  /\ LET missing == instance[i].missing IN
     IF missing # {} /\ (i \notin Migrates \/ \E o \in missing : tenantOf[o] # 0)
       THEN End(i, [step |-> "failed", reason |-> "bind"])
       ELSE /\ tenantOf' = [o \in Owners |-> IF o \in missing THEN instance[i].tenant ELSE tenantOf[o]]
            /\ Move(i, Serving(i))
            /\ UNCHANGED <<created, applied, executed, lockHolder, starts>>

Crash(i) == instance[i].step \notin {"down", "failed"} /\ End(i, Down)

StartNext ==
  \E i \in Instances :
    \/ Start(i) \/ TakeLock(i) \/ CheckHistory(i) \/ Apply(i) \/ Migrated(i) \/ Open(i)
    \/ (\E o \in Owners : LookUp(i, o)) \/ Provision(i) \/ Crash(i)

StartSpec == StartInit /\ [][StartNext]_startVars

-----------------------------------------------------------------------------
(* Properties.                                                             *)

(* Each migration takes effect once and in order, and no start fails over  *)
(* one that another applied.                                               *)
MigratedOnce ==
  /\ \A m, n \in DOMAIN executed : m < n => executed[m] < executed[n]
  /\ \A i \in Instances : instance[i].step = "failed" => instance[i].reason # "apply"

(* An instance that migrates serves on its own schema, and never as the    *)
(* role that owns it. Of one without the owner's connection nothing is     *)
(* said: it checks no migration.                                           *)
SchemaFound(i) ==
  /\ Role[i] # "unsafe"
  /\ i \in Migrates =>
       /\ Role[i] = "app"
       /\ \A v \in DOMAIN Migrations[i] : v \in DOMAIN applied /\ applied[v] = Migrations[i][v]

(* An instance that serves has a tenant for each of its owners, and those  *)
(* it found unbound are in the tenant it made, whoever else bound them.    *)
OwnersBound(i) ==
  /\ \A o \in Binds[i] : tenantOf[o] # 0
  /\ \A o \in instance[i].missing : tenantOf[o] = instance[i].tenant

(* However starts of several releases overlap and crash: each migration    *)
(* takes effect once and in order; no instance serves on a role that reads *)
(* past row level security; one that was given the owner's connection      *)
(* serves on its own migrations and not as their owner, while one without  *)
(* it may serve on any schema; and the owners an instance found unbound    *)
(* are in the tenant it made (MigrateFrom, checkHistory, apply, checkRole, *)
(* bindOwners, Provision).                                                 *)
StartIsSafe ==
  /\ MigratedOnce
  /\ \A i \in Instances : instance[i].step = "serving" => SchemaFound(i) /\ OwnersBound(i)

(* "The service refuses a migration edited after it was applied, and a     *)
(* database ahead of the binary" (docs/serve.md): an instance that goes on *)
(* to serve knows every migration the database records. The code compares  *)
(* them only where it migrates (serve.go, run).                            *)
ServesOwnSchema ==
  [][\A i \in Instances :
       instance[i].step # "serving" /\ instance'[i].step = "serving" => knows(i)]_startVars
=============================================================================
