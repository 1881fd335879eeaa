--------------------------- MODULE StateMigration ---------------------------
(***************************************************************************)
(* migrate_terraform_state.py: copies a batch of OpenTofu states from the  *)
(* GitLab HTTP backend to schemas of a PostgreSQL database.  The whole     *)
(* batch is prepared first (source pulled and normalised, destination      *)
(* checked), then the states are pushed and read back one by one.          *)
(*                                                                         *)
(* Every tofu call is one step and may fail; the process may be killed.    *)
(* Terraform jobs keep using both backends: between migrations always,     *)
(* while one runs unless everybody heeds the README, which forbids it      *)
(* (quiet).  The jobs of one resource group run one at a time, so there is *)
(* one migration.                                                          *)
(***************************************************************************)
EXTENDS Naturals, Sequences

CONSTANTS
  State,       \* names of GitLab states
  Schema,      \* schema_name: the PostgreSQL schema of each state name
  Batches,     \* the selections an operator may start a migration with
  NoDoc,       \* a backend holds no state
  MaxJobs,     \* how often Terraform jobs write
  MaxFaults    \* how many tofu calls fail

Schemas == {Schema[s] : s \in State}

ASSUME BatchesAssumption == Batches \subseteq Seq(State) \ {<< >>}
ASSUME BoundsAssumption  == MaxJobs \in Nat /\ MaxFaults \in Nat

VARIABLES
  source,      \* GitLab: the document of each state
  dest,        \* PostgreSQL: the document of each schema
  pc,          \* the tofu call the migration is about to make
  batch,       \* the states of the running migration, in order
  next,        \* position of the state it is working on
  force,       \* MIGRATION_ALLOW_OVERWRITE
  apply,       \* MIGRATION_MODE = apply, confirmed
  quiet,       \* no Terraform job runs during the migration
  prepared,    \* state_json of every prepared state, in order
  results,     \* the report: one status for every prepared state
  jobs,        \* writes by Terraform jobs so far
  faults       \* failed tofu calls so far

backends  == <<source, dest>>
selection == <<batch, force, apply, quiet>>
vars == <<source, dest, pc, batch, next, force, apply, quiet, prepared, results,
          jobs, faults>>

-----------------------------------------------------------------------------
(* State documents: every write has a revision of its own; the lineage is   *)
(* the revision a state was created with.                                   *)

Doc == [lineage : 1..MaxJobs, serial : Nat, rev : 1..MaxJobs]

\* canonical_state_hash with ignore_serial.
Content(d) == [lineage |-> d.lineage, rev |-> d.rev]

\* "tofu state push": the serial moves on when a document is replaced.
Pushed(d, old) ==
  IF old = NoDoc \/ old = d THEN d ELSE [d EXCEPT !.serial = @ + 1]

\* Without -force, tofu refuses another lineage, a newer serial, and another
\* content under the same serial.
Accepts(old, d) ==
  \/ force
  \/ old \in {NoDoc, d}
  \/ old # NoDoc /\ old.lineage = d.lineage /\ old.serial < d.serial

-----------------------------------------------------------------------------

Running == pc \in {"pull", "check", "push", "verify"}

TypeOK ==
  /\ source \in [State -> Doc \cup {NoDoc}]
  /\ dest \in [Schemas -> Doc \cup {NoDoc}]
  /\ pc \in {"idle", "pull", "check", "push", "verify", "ok", "failed"}
  /\ batch \in Batches \cup {<< >>}
  /\ next \in Nat
  /\ Running => next \in 1..Len(batch)
  /\ force \in BOOLEAN /\ apply \in BOOLEAN /\ quiet \in BOOLEAN
  /\ prepared \in Seq(Doc)
  /\ results \in Seq({"ready", "dry-run", "migrated", "failed"})
  /\ jobs \in 0..MaxJobs /\ faults \in 0..MaxFaults

Init ==
  /\ source = [s \in State |-> NoDoc]
  /\ dest = [x \in Schemas |-> NoDoc]
  /\ pc = "idle"
  /\ batch = << >>
  /\ next = 1
  /\ force = FALSE
  /\ apply = FALSE
  /\ quiet = TRUE
  /\ prepared = << >>
  /\ results = << >>
  /\ jobs = 0
  /\ faults = 0

Fault   == faults < MaxFaults /\ faults' = faults + 1
NoFault == UNCHANGED faults

Name   == batch[next]
Target == Schema[batch[next]]

-----------------------------------------------------------------------------
(* Selecting and preparing. *)

\* Mutant: two names of a batch may share a schema.
ResolvesNames(b) == \A i, j \in 1..Len(b) : i # j => b[i] # b[j]

\* resolve_states: no name twice, and no two names in one schema.
Resolves(b) ==
  \A i, j \in 1..Len(b) : i # j => b[i] # b[j] /\ Schema[b[i]] # Schema[b[j]]

\* A selection that does not resolve, or an apply that is not confirmed, is
\* refused before anything is read.
Begin ==
  /\ ~Running
  /\ \E b \in Batches : Resolves(b) /\ batch' = b
  /\ force' \in BOOLEAN
  /\ apply' \in BOOLEAN
  /\ quiet' \in BOOLEAN
  /\ pc' = "pull"
  /\ next' = 1
  /\ prepared' = << >>
  /\ results' = << >>
  /\ UNCHANGED <<backends, jobs, faults>>

\* Pulls the source and sends it through a local backend, which changes its
\* form and neither its lineage, nor its serial, nor its content.
Pull ==
  /\ pc = "pull"
  /\ \/ /\ source[Name] # NoDoc
        /\ prepared' = Append(prepared, source[Name])
        /\ pc' = "check"
        /\ NoFault
     \/ /\ IF source[Name] = NoDoc THEN NoFault ELSE Fault
        /\ pc' = "failed"
        /\ UNCHANGED prepared
  /\ UNCHANGED <<backends, selection, next, results, jobs>>

\* Mutant: an occupied destination is accepted without MIGRATION_ALLOW_OVERWRITE.
CheckNothing ==
  /\ pc = "check"
  /\ results' = Append(results, IF apply THEN "ready" ELSE "dry-run")
  /\ IF next < Len(batch) THEN pc' = "pull" /\ next' = next + 1
     ELSE pc' = (IF apply THEN "push" ELSE "ok") /\ next' = 1
  /\ UNCHANGED <<backends, selection, prepared, jobs, faults>>

\* Mutant: every state is written as soon as it is prepared.
CheckThenPush ==
  /\ pc = "check"
  /\ dest[Target] = NoDoc \/ force
  /\ results' = Append(results, IF apply THEN "ready" ELSE "dry-run")
  /\ IF apply THEN pc' = "push" /\ UNCHANGED next
     ELSE IF next < Len(batch) THEN pc' = "pull" /\ next' = next + 1
     ELSE pc' = "ok" /\ UNCHANGED next
  /\ UNCHANGED <<backends, selection, prepared, jobs, faults>>

\* Looks at the destination; after the last state the writing begins.
Check ==
  /\ pc = "check"
  /\ \/ /\ dest[Target] = NoDoc \/ force
        /\ NoFault
        /\ results' = Append(results, IF apply THEN "ready" ELSE "dry-run")
        /\ IF next < Len(batch) THEN pc' = "pull" /\ next' = next + 1
           ELSE pc' = (IF apply THEN "push" ELSE "ok") /\ next' = 1
     \/ /\ IF dest[Target] = NoDoc \/ force THEN Fault ELSE NoFault
        /\ pc' = "failed"
        /\ UNCHANGED <<results, next>>
  /\ UNCHANGED <<backends, selection, prepared, jobs>>

-----------------------------------------------------------------------------
(* Writing. *)

Report(status) == results' = [results EXCEPT ![next] = status]

Write == dest' = [dest EXCEPT ![Target] = Pushed(prepared[next], @)]

\* A push that reports an error may have been stored all the same.
Push ==
  /\ pc = "push"
  /\ \/ /\ Accepts(dest[Target], prepared[next])
        /\ NoFault
        /\ Write
        /\ pc' = "verify"
        /\ UNCHANGED results
     \/ /\ Report("failed")
        /\ pc' = "failed"
        /\ \/ ~Accepts(dest[Target], prepared[next]) /\ NoFault /\ UNCHANGED dest
           \/ Accepts(dest[Target], prepared[next]) /\ Fault /\ (Write \/ UNCHANGED dest)
  /\ UNCHANGED <<source, selection, next, prepared, jobs>>

Verified ==
  /\ dest[Target] # NoDoc
  /\ Content(dest[Target]) = Content(prepared[next])

\* Mutant: the last state is not recognised as the last.
VerifyBeyondLast ==
  /\ pc = "verify"
  /\ Verified
  /\ Report("migrated")
  /\ IF next <= Len(batch) THEN pc' = "push" /\ next' = next + 1
     ELSE pc' = "ok" /\ UNCHANGED next
  /\ UNCHANGED <<backends, selection, prepared, jobs, faults>>

\* Mutant: a state that fails does not end the batch.
VerifyGoesOn ==
  /\ pc = "verify"
  /\ Report(IF Verified THEN "migrated" ELSE "failed")
  /\ IF next < Len(batch) THEN pc' = "push" /\ next' = next + 1
     ELSE pc' = "ok" /\ UNCHANGED next
  /\ UNCHANGED <<backends, selection, prepared, jobs, faults>>

\* Reads the destination back; the first state that fails ends the batch.
Verify ==
  /\ pc = "verify"
  /\ \/ /\ Verified
        /\ NoFault
        /\ Report("migrated")
        /\ IF next < Len(batch) THEN pc' = "push" /\ next' = next + 1
           ELSE pc' = "ok" /\ UNCHANGED next
     \/ /\ IF Verified THEN Fault ELSE NoFault
        /\ Report("failed")
        /\ pc' = "failed"
        /\ UNCHANGED next
  /\ UNCHANGED <<backends, selection, prepared, jobs>>

\* The job is cancelled: the temporary directory and the report are gone.
Kill ==
  /\ Running
  /\ Fault
  /\ pc' = "idle"
  /\ prepared' = << >>
  /\ results' = << >>
  /\ UNCHANGED <<backends, selection, next, jobs>>

-----------------------------------------------------------------------------
(* Terraform jobs on either backend. *)

Touched(d) ==
  IF d = NoDoc THEN [lineage |-> jobs + 1, serial |-> 1, rev |-> jobs + 1]
  ELSE [lineage |-> d.lineage, serial |-> d.serial + 1, rev |-> jobs + 1]

Job(backend) ==
  /\ jobs < MaxJobs
  /\ jobs' = jobs + 1
  /\ Running => ~quiet
  /\ IF backend = "gitlab"
       THEN /\ \E s \in State : source' = [source EXCEPT ![s] = Touched(@)]
            /\ UNCHANGED dest
       ELSE /\ \E x \in Schemas : dest' = [dest EXCEPT ![x] = Touched(@)]
            /\ UNCHANGED source
  /\ UNCHANGED <<pc, selection, next, prepared, results, faults>>

Migration == Begin \/ Pull \/ Check \/ Push \/ Verify \/ Kill

Next == Migration \/ \E backend \in {"gitlab", "pg"} : Job(backend)

Spec == Init /\ [][Next]_vars

-----------------------------------------------------------------------------
(* Properties. *)

\* Unless overwriting was allowed, a migration never replaces a document that
\* a schema already holds, not even one that appeared after the preflight or
\* that an earlier, failed migration of the same batch left behind.
DestinationKept ==
  [][Migration /\ ~force =>
       \A x \in Schemas : dest[x] # NoDoc => dest'[x] = dest[x]]_vars

\* No schema is written before the whole batch has been prepared: a batch with
\* a missing source or an occupied destination changes nothing at all.
WritesAfterPreflight ==
  [][Migration /\ dest' # dest => Len(results) = Len(batch)]_vars

\* When no Terraform job interferes, a migration that reports success leaves
\* every schema of its batch with the content its GitLab state has now,
\* whatever earlier migrations and their failures left there.
OkMeansInSync ==
  [][pc # "ok" /\ pc' = "ok" /\ apply /\ quiet =>
       \A i \in 1..Len(batch) :
         Content(dest'[Schema[batch[i]]]) = Content(source[batch[i]])]_vars

\* The report of a failed batch tells where it stopped, whatever interferes:
\* every state before the one that failed was migrated, and the states after
\* it are still reported as prepared only.
ReportIsPrefix ==
  \A i, j \in 1..Len(results) :
    i < j /\ results[j] \in {"migrated", "failed"} => results[i] = "migrated"
=============================================================================
