------------------------ MODULE StateMigration_proofs ------------------------
(***************************************************************************)
(* Proofs about StateMigration, for any states, schemas, selections and    *)
(* any number of jobs and failed calls.                                    *)
(***************************************************************************)
EXTENDS StateMigration, SequenceTheorems, TLAPS

-----------------------------------------------------------------------------
(* Types, and how far the migration has got. *)

Writing == pc \in {"push", "verify"}

\* The positions of a running migration in its sequences; it writes only what
\* an operator confirmed.
Progress ==
  /\ Running => Resolves(batch)
  /\ pc = "pull"  => Len(prepared) = next - 1 /\ Len(results) = next - 1
  /\ pc = "check" => Len(prepared) = next /\ Len(results) = next - 1
  /\ Writing      => Len(prepared) = Len(batch) /\ Len(results) = Len(batch) /\ apply

TypeInv == TypeOK /\ Progress

\* What a running migration works on exists.
LEMMA Position ==
  ASSUME TypeInv, Running
  PROVE  /\ batch \in Seq(State) /\ Len(batch) \in Nat /\ next \in 1..Len(batch)
         /\ Name \in State /\ Target \in Schemas
         /\ \A i \in 1..Len(batch) : batch[i] \in State /\ Schema[batch[i]] \in Schemas
         /\ Writing => prepared[next] \in Doc
<1>1. batch \in Seq(State) /\ next \in 1..Len(batch)
  BY BatchesAssumption DEF TypeInv, TypeOK
<1>2. Len(batch) \in Nat /\ \A i \in 1..Len(batch) : batch[i] \in State
  BY <1>1
<1>3. Writing => prepared[next] \in Doc
  BY <1>1 DEF TypeInv, TypeOK, Progress
<1>. QED
  BY <1>1, <1>2, <1>3 DEF Name, Target, Schemas

\* What is written to a backend is a document.
LEMMA Documents ==
  ASSUME TypeOK
  PROVE  /\ \A d \in Doc, old \in Doc \cup {NoDoc} : Pushed(d, old) \in Doc
         /\ jobs < MaxJobs => \A d \in Doc \cup {NoDoc} : Touched(d) \in Doc
<1>1. ASSUME NEW d \in Doc, NEW old \in Doc \cup {NoDoc} PROVE Pushed(d, old) \in Doc
  <2>1. [d EXCEPT !.serial = @ + 1] \in Doc
    BY DEF Doc
  <2>. QED
    BY <2>1 DEF Pushed
<1>2. ASSUME jobs < MaxJobs, NEW d \in Doc \cup {NoDoc} PROVE Touched(d) \in Doc
  <2>1. jobs + 1 \in 1..MaxJobs
    BY <1>2, BoundsAssumption DEF TypeOK
  <2>2. [lineage |-> jobs + 1, serial |-> 1, rev |-> jobs + 1] \in Doc
    BY <2>1 DEF Doc
  <2>3. ASSUME d \in Doc
        PROVE  [lineage |-> d.lineage, serial |-> d.serial + 1, rev |-> jobs + 1] \in Doc
    BY <2>1, <2>3 DEF Doc
  <2>. QED
    BY <2>2, <2>3 DEF Touched
<1>. QED
  BY <1>1, <1>2

\* A step that leaves the selection alone keeps its types if it keeps those of
\* the backends and the sequences, and the position with them.
LEMMA KeepsSelection ==
  ASSUME TypeInv, UNCHANGED selection, Running, Fault \/ NoFault, UNCHANGED jobs,
         source' \in [State -> Doc \cup {NoDoc}], dest' \in [Schemas -> Doc \cup {NoDoc}],
         prepared' \in Seq(Doc),
         results' \in Seq({"ready", "dry-run", "migrated", "failed"}),
         next' \in 1..Len(batch),
         \/ pc' \in {"idle", "ok", "failed"}
         \/ pc' = "pull" /\ Len(prepared') = next' - 1 /\ Len(results') = next' - 1
         \/ pc' = "check" /\ Len(prepared') = next' /\ Len(results') = next' - 1
         \/ /\ pc' \in {"push", "verify"} /\ apply
            /\ Len(prepared') = Len(batch) /\ Len(results') = Len(batch)
  PROVE  TypeInv'
<1>1. faults' \in 0..MaxFaults /\ jobs' \in 0..MaxJobs
  BY BoundsAssumption DEF Fault, NoFault, TypeInv, TypeOK
<1>2. batch' = batch /\ force' = force /\ apply' = apply /\ quiet' = quiet
  BY DEF selection
<1>3. batch' \in Batches \cup {<< >>} /\ Len(batch) \in Nat /\ next' \in Nat
  BY <1>2, Position DEF TypeInv, TypeOK
<1>4. force' \in BOOLEAN /\ apply' \in BOOLEAN /\ quiet' \in BOOLEAN
  BY <1>2 DEF TypeInv, TypeOK
<1>5. pc' \in {"idle", "pull", "check", "push", "verify", "ok", "failed"}
  OBVIOUS
<1>6. TypeOK'
  BY <1>1, <1>2, <1>3, <1>4, <1>5 DEF TypeOK
<1>7. Resolves(batch')
  BY <1>2 DEF TypeInv, Progress
<1>8. Progress'
  <2>1. Writing' => apply'
    BY <1>2 DEF Writing
  <2>. QED
    BY <1>2, <1>7, <2>1 DEF Progress, Writing
<1>. QED
  BY <1>6, <1>8 DEF TypeInv

LEMMA TypeStep == TypeInv /\ [Next]_vars => TypeInv'
<1> SUFFICES ASSUME TypeInv, [Next]_vars PROVE TypeInv'
  OBVIOUS
<1>1. CASE Begin
  <2>1. batch' \in Batches /\ Resolves(batch')
    BY <1>1 DEF Begin
  <2>2. batch' \in Seq(State) /\ batch' # << >>
    BY <2>1, BatchesAssumption
  <2>3. Len(batch') \in Nat \ {0}
    BY <2>2, EmptySeq
  <2>4. force' \in BOOLEAN /\ apply' \in BOOLEAN /\ quiet' \in BOOLEAN
    BY <1>1 DEF Begin
  <2>5. /\ pc' = "pull" /\ next' = 1 /\ prepared' = << >> /\ results' = << >>
        /\ UNCHANGED <<source, dest, jobs, faults>>
    BY <1>1 DEF Begin, backends
  <2>6. TypeOK'
    BY <2>1, <2>3, <2>4, <2>5, EmptySeq DEF TypeInv, TypeOK
  <2>7. Progress'
    BY <2>1, <2>5, EmptySeq DEF Progress, Writing
  <2>. QED
    BY <2>6, <2>7 DEF TypeInv
<1>2. CASE Pull
  <2>1. /\ Running /\ ~Writing /\ Name \in State /\ Len(batch) \in Nat /\ next \in 1..Len(batch)
        /\ prepared \in Seq(Doc) /\ Len(prepared) = next - 1 /\ Len(results) = next - 1
    BY <1>2, Position DEF Pull, TypeInv, TypeOK, Progress, Running, Writing
  <2>2. source[Name] # NoDoc =>
          /\ Append(prepared, source[Name]) \in Seq(Doc)
          /\ Len(Append(prepared, source[Name])) = Len(prepared) + 1
    BY <2>1 DEF TypeInv, TypeOK
  <2>3. /\ Fault \/ NoFault
        /\ UNCHANGED <<source, dest, selection, next, results, jobs>>
    BY <1>2 DEF Pull, backends
  <2>4. CASE source[Name] # NoDoc /\ prepared' = Append(prepared, source[Name]) /\ pc' = "check"
    BY <2>1, <2>2, <2>3, <2>4, KeepsSelection DEF TypeInv, TypeOK
  <2>5. CASE pc' = "failed" /\ UNCHANGED prepared
    BY <2>1, <2>3, <2>5, KeepsSelection DEF TypeInv, TypeOK
  <2>. QED
    BY <1>2, <2>4, <2>5 DEF Pull
<1>3. CASE Check
  <2>1. /\ Running /\ ~Writing /\ Len(batch) \in Nat /\ next \in 1..Len(batch)
        /\ Len(prepared) = next /\ Len(results) = next - 1
        /\ results \in Seq({"ready", "dry-run", "migrated", "failed"})
    BY <1>3, Position DEF Check, TypeInv, TypeOK, Progress, Running, Writing
  <2>2. \A st \in {"ready", "dry-run"} :
          /\ Append(results, st) \in Seq({"ready", "dry-run", "migrated", "failed"})
          /\ Len(Append(results, st)) = Len(results) + 1
    BY <2>1
  <2>3. /\ Fault \/ NoFault
        /\ UNCHANGED <<source, dest, selection, prepared, jobs>>
    BY <1>3 DEF Check, backends
  <2>4. CASE pc' = "failed" /\ UNCHANGED <<results, next>>
    BY <2>1, <2>3, <2>4, KeepsSelection DEF TypeInv, TypeOK
  <2>5. ASSUME NEW st \in {"ready", "dry-run"}, results' = Append(results, st),
               \/ pc' = "pull" /\ next < Len(batch) /\ next' = next + 1
               \/ pc' = "push" /\ next = Len(batch) /\ next' = 1 /\ apply
               \/ pc' = "ok" /\ next' = 1
        PROVE  TypeInv'
    <3>1. /\ results' \in Seq({"ready", "dry-run", "migrated", "failed"})
          /\ Len(results') = next /\ next' \in 1..Len(batch)
      BY <2>1, <2>2, <2>5
    <3>2. /\ Running /\ UNCHANGED <<source, dest, selection, prepared, jobs>>
          /\ source' \in [State -> Doc \cup {NoDoc}] /\ dest' \in [Schemas -> Doc \cup {NoDoc}]
          /\ prepared' \in Seq(Doc) /\ Len(prepared') = next
      BY <2>1, <2>3 DEF TypeInv, TypeOK
    <3>3. CASE pc' = "pull" /\ next' = next + 1
      BY <2>1, <2>3, <3>1, <3>2, <3>3, KeepsSelection
    <3>4. CASE pc' = "push" /\ next = Len(batch) /\ apply
      BY <2>1, <2>3, <3>1, <3>2, <3>4, KeepsSelection
    <3>5. CASE pc' = "ok"
      BY <2>1, <2>3, <3>1, <3>2, <3>5, KeepsSelection
    <3>. QED
      BY <2>5, <3>3, <3>4, <3>5
  <2>6. next < Len(batch) \/ next = Len(batch)
    BY <2>1
  <2>. QED
    BY <1>3, <2>4, <2>5, <2>6 DEF Check
<1>4. CASE Push
  <2>1. /\ Running /\ Len(batch) \in Nat /\ next \in 1..Len(batch) /\ Target \in Schemas
        /\ Len(prepared) = Len(batch) /\ Len(results) = Len(batch) /\ apply
        /\ prepared[next] \in Doc
        /\ results \in Seq({"ready", "dry-run", "migrated", "failed"})
    BY <1>4, Position DEF Push, TypeInv, TypeOK, Progress, Running, Writing
  <2>2. Pushed(prepared[next], dest[Target]) \in Doc
    BY <2>1, Documents DEF TypeInv, TypeOK
  <2>3. Write => dest' \in [Schemas -> Doc \cup {NoDoc}]
    BY <2>1, <2>2 DEF Write, TypeInv, TypeOK
  <2>4. Report("failed") =>
          /\ results' \in Seq({"ready", "dry-run", "migrated", "failed"})
          /\ Len(results') = Len(results)
    BY <2>1 DEF Report
  <2>5. /\ Fault \/ NoFault
        /\ UNCHANGED <<source, selection, next, prepared, jobs>>
        /\ Write \/ UNCHANGED dest
    BY <1>4 DEF Push
  <2>6. dest' \in [Schemas -> Doc \cup {NoDoc}]
    BY <2>3, <2>5 DEF TypeInv, TypeOK
  <2>7. CASE pc' = "verify" /\ UNCHANGED results
    BY <2>1, <2>5, <2>6, <2>7, KeepsSelection DEF TypeInv, TypeOK
  <2>8. CASE pc' = "failed" /\ Report("failed")
    BY <2>1, <2>4, <2>5, <2>6, <2>8, KeepsSelection DEF TypeInv, TypeOK
  <2>. QED
    BY <1>4, <2>7, <2>8 DEF Push
<1>5. CASE Verify
  <2>1. /\ Running /\ Len(batch) \in Nat /\ next \in 1..Len(batch)
        /\ Len(prepared) = Len(batch) /\ Len(results) = Len(batch) /\ apply
        /\ results \in Seq({"ready", "dry-run", "migrated", "failed"})
    BY <1>5, Position DEF Verify, TypeInv, TypeOK, Progress, Running, Writing
  <2>2. \A st \in {"migrated", "failed"} : Report(st) =>
          /\ results' \in Seq({"ready", "dry-run", "migrated", "failed"})
          /\ Len(results') = Len(results)
    BY <2>1 DEF Report
  <2>3. /\ Fault \/ NoFault
        /\ UNCHANGED <<source, dest, selection, prepared, jobs>>
        /\ Report("migrated") \/ Report("failed")
    BY <1>5 DEF Verify, backends
  <2>4. /\ next' \in 1..Len(batch)
        /\ pc' \in {"push", "ok", "failed"}
    BY <1>5, <2>1 DEF Verify
  <2>. QED
    BY <2>1, <2>2, <2>3, <2>4, KeepsSelection DEF TypeInv, TypeOK
<1>6. CASE Kill
  <2>1. /\ Running /\ Fault /\ UNCHANGED <<source, dest, selection, next, jobs>>
        /\ pc' = "idle" /\ prepared' = << >> /\ results' = << >>
    BY <1>6 DEF Kill, backends
  <2>2. next \in 1..Len(batch)
    BY <2>1, Position
  <2>. QED
    BY <2>1, <2>2, EmptySeq, KeepsSelection DEF TypeInv, TypeOK
<1>7. ASSUME NEW backend \in {"gitlab", "pg"}, Job(backend) PROVE TypeInv'
  <2>1. source' \in [State -> Doc \cup {NoDoc}] /\ dest' \in [Schemas -> Doc \cup {NoDoc}]
    <3>1. CASE backend = "gitlab"
      BY <1>7, <3>1, Documents DEF Job, TypeInv, TypeOK
    <3>2. CASE backend = "pg"
      BY <1>7, <3>2, Documents DEF Job, TypeInv, TypeOK
    <3>. QED
      BY <3>1, <3>2
  <2>2. jobs' \in 0..MaxJobs
    BY <1>7, BoundsAssumption DEF Job, TypeInv, TypeOK
  <2>3. UNCHANGED <<pc, batch, force, apply, quiet, next, prepared, results, faults>>
    BY <1>7 DEF Job, selection
  <2>4. TypeOK'
    BY <2>1, <2>2, <2>3 DEF TypeInv, TypeOK, Running
  <2>5. Progress'
    BY <2>3 DEF TypeInv, Progress, Running, Writing
  <2>. QED
    BY <2>4, <2>5 DEF TypeInv
<1>8. CASE UNCHANGED vars
  <2>1. TypeOK' /\ Progress'
    BY <1>8 DEF vars, TypeInv, TypeOK, Progress, Running, Writing
  <2>. QED
    BY <2>1 DEF TypeInv
<1>. QED
  BY <1>1, <1>2, <1>3, <1>4, <1>5, <1>6, <1>7, <1>8 DEF Next, Migration

LEMMA Typed == Spec => []TypeInv
<1>1. ASSUME Init PROVE TypeInv
  <2>1. prepared \in Seq(Doc) /\ results \in Seq({"ready", "dry-run", "migrated", "failed"})
    BY <1>1, EmptySeq DEF Init
  <2>2. ~Running /\ TypeOK
    <3>1. source \in [State -> Doc \cup {NoDoc}] /\ dest \in [Schemas -> Doc \cup {NoDoc}]
      BY <1>1 DEF Init
    <3>2. force \in BOOLEAN /\ apply \in BOOLEAN /\ quiet \in BOOLEAN
      BY <1>1 DEF Init
    <3>. QED
      BY <1>1, <2>1, <3>1, <3>2, BoundsAssumption DEF Init, TypeOK, Running
  <2>. QED
    BY <2>2 DEF TypeInv, Progress, Writing, Running
<1>. QED
  BY <1>1, TypeStep, PTL DEF Spec

\* Every reachable state is well typed, and a running migration is at a state of
\* its batch.
THEOREM TypeCorrect == Spec => []TypeOK
<1>1. TypeInv => TypeOK
  BY DEF TypeInv
<1>. QED
  BY <1>1, Typed, PTL

-----------------------------------------------------------------------------
(* The report. *)

\* Nothing is reported as migrated or failed before the writing has begun, and
\* then the states before the current one are migrated.
ReportInv ==
  /\ ReportIsPrefix
  /\ pc \in {"pull", "check"} => \A i \in 1..Len(results) : results[i] \in {"ready", "dry-run"}
  /\ Writing => \A i \in 1..Len(results) :
       IF i < next THEN results[i] = "migrated" ELSE results[i] \in {"ready", "dry-run"}

LEMMA ReportStep == TypeInv /\ ReportInv /\ [Next]_vars => ReportInv'
<1> SUFFICES ASSUME TypeInv, ReportInv, [Next]_vars PROVE ReportInv'
  OBVIOUS
<1> USE DEF ReportInv, ReportIsPrefix, Writing, Running
<1>0. Len(results) \in Nat
  BY DEF TypeInv, TypeOK
<1>1. CASE Begin
  BY <1>1 DEF Begin
<1>2. CASE Pull
  BY <1>2 DEF Pull
<1>3. CASE Check
  <2>1. Len(batch) \in Nat /\ next \in 1..Len(batch) /\ Len(results) = next - 1
    BY <1>3, Position DEF Check, TypeInv, Progress
  <2>2. CASE UNCHANGED results /\ pc' = "failed"
    BY <1>3, <2>2
  <2>3. ASSUME NEW st \in {"ready", "dry-run"}, results' = Append(results, st),
               pc' \in {"pull", "push", "ok"}, pc' = "push" => next' = 1, next' \in Nat \ {0}
        PROVE  ReportInv'
    <3>1. /\ Len(results') = Len(results) + 1
          /\ \A i \in 1..Len(results') : results'[i] \in {"ready", "dry-run"}
      BY <1>3, <2>1, <2>3 DEF TypeInv, TypeOK, Check
    <3>. QED
      BY <2>3, <3>1
  <2>. QED
    BY <1>3, <2>1, <2>2, <2>3 DEF Check
<1>4. CASE Push
  <2>1. Len(batch) \in Nat /\ next \in 1..Len(batch) /\ Len(results) = Len(batch)
    BY <1>4, Position DEF Push, TypeInv, Progress
  <2>2. CASE pc' = "verify" /\ UNCHANGED results
    BY <1>4, <2>2 DEF Push
  <2>3. CASE Report("failed") /\ pc' = "failed"
    <3>1. /\ Len(results') = Len(results)
          /\ \A i \in 1..Len(results) : results'[i] = IF i = next THEN "failed" ELSE results[i]
      BY <2>1, <2>3 DEF Report, TypeInv, TypeOK
    <3>. QED
      BY <1>0, <1>4, <2>1, <2>3, <3>1 DEF Push
  <2>. QED
    BY <1>4, <2>2, <2>3 DEF Push
<1>5. CASE Verify
  <2>1. Len(batch) \in Nat /\ next \in 1..Len(batch) /\ Len(results) = Len(batch)
    BY <1>5, Position DEF Verify, TypeInv, Progress
  <2>2. ASSUME NEW st \in {"migrated", "failed"}, Report(st)
        PROVE  /\ Len(results') = Len(results)
               /\ \A i \in 1..Len(results) : results'[i] = IF i = next THEN st ELSE results[i]
    BY <2>1, <2>2 DEF Report, TypeInv, TypeOK
  <2>3. CASE Report("migrated") /\ pc' \in {"push", "ok"} /\ (pc' = "push" => next' = next + 1)
    <3>1. /\ Len(results') = Len(results)
          /\ \A i \in 1..Len(results) :
               results'[i] = IF i = next THEN "migrated" ELSE results[i]
      BY <2>2, <2>3
    <3>. QED
      BY <1>0, <1>5, <2>1, <2>3, <3>1 DEF Verify
  <2>4. CASE Report("failed") /\ pc' = "failed"
    <3>1. /\ Len(results') = Len(results)
          /\ \A i \in 1..Len(results) : results'[i] = IF i = next THEN "failed" ELSE results[i]
      BY <2>2, <2>4
    <3>. QED
      BY <1>0, <1>5, <2>1, <2>4, <3>1 DEF Verify
  <2>. QED
    BY <1>5, <2>3, <2>4 DEF Verify
<1>6. CASE Kill
  BY <1>6 DEF Kill
<1>7. CASE \E backend \in {"gitlab", "pg"} : Job(backend)
  BY <1>7 DEF Job
<1>8. CASE UNCHANGED vars
  BY <1>8 DEF vars
<1>. QED
  BY <1>1, <1>2, <1>3, <1>4, <1>5, <1>6, <1>7, <1>8 DEF Next, Migration

\* The report of a batch, failed or not, tells exactly how far it was migrated.
THEOREM ReportTellsWhere == Spec => []ReportIsPrefix
<1>1. Init => ReportInv
  BY DEF Init, ReportInv, ReportIsPrefix, Writing
<1>2. ReportInv => ReportIsPrefix
  BY DEF ReportInv
<1>. QED
  BY <1>1, <1>2, ReportStep, Typed, PTL DEF Spec
-----------------------------------------------------------------------------
(* What a migration writes. *)

\* The schema the i-th state of the batch goes to.
At(i) == Schema[batch[i]]

\* A step of a migration writes nothing but the destination of the state it
\* pushes, once all are prepared.
LEMMA OnlyPushWrites ==
  ASSUME TypeInv, [Migration]_vars
  PROVE  \/ UNCHANGED dest
         \/ /\ Push /\ Write /\ Len(results) = Len(batch) /\ At(next) = Target
            /\ Accepts(dest[Target], prepared[next])
            /\ \A i \in 1..Len(batch) : i # next => dest'[At(i)] = dest[At(i)]
            /\ \A x \in Schemas : x # Target => dest'[x] = dest[x]
            /\ dest'[Target] = Pushed(prepared[next], dest[Target])
<1>1. CASE Push /\ Write
  <2>1. /\ Running /\ next \in 1..Len(batch) /\ Target \in Schemas
        /\ \A i \in 1..Len(batch) : At(i) \in Schemas
    BY <1>1, Position DEF Push, Running, At
  <2>2. Len(results) = Len(batch) /\ Resolves(batch)
    BY <1>1, <2>1 DEF Push, TypeInv, Progress, Writing
  <2>3. \A i \in 1..Len(batch) : i # next => At(i) # Target
    BY <2>1, <2>2 DEF Resolves, At, Target
  <2>4. /\ \A x \in Schemas : x # Target => dest'[x] = dest[x]
        /\ dest'[Target] = Pushed(prepared[next], dest[Target])
    BY <1>1, <2>1 DEF Write, TypeInv, TypeOK
  <2>5. UNCHANGED dest \/ Accepts(dest[Target], prepared[next])
    BY <1>1 DEF Push
  <2>. QED
    BY <1>1, <2>1, <2>2, <2>3, <2>4, <2>5 DEF At, Target
<1>2. CASE Push /\ ~Write
  BY <1>2 DEF Push
<1>3. CASE Begin \/ Pull \/ Check \/ Verify \/ Kill \/ UNCHANGED vars
  BY <1>3 DEF Begin, Pull, Check, Verify, Kill, backends, vars
<1>. QED
  BY <1>1, <1>2, <1>3 DEF Migration

\* No schema is written before the whole batch has been prepared.
THEOREM PreparesFirst == Spec => WritesAfterPreflight
<1>1. TypeInv /\ [Next]_vars =>
        [Migration /\ dest' # dest => Len(results) = Len(batch)]_vars
  BY OnlyPushWrites
<1>. QED
  BY <1>1, Typed, PTL DEF Spec, WritesAfterPreflight

-----------------------------------------------------------------------------
(* Destinations that hold a document are kept. *)

\* The states whose destination was found empty and is yet to be written.
Pending(i) ==
  \/ pc \in {"pull", "check"} /\ i < next
  \/ pc = "push" /\ i \in next..Len(batch)
  \/ pc = "verify" /\ i \in (next + 1)..Len(batch)

\* Lineages are those of jobs that have run.  A destination that was empty at the
\* check and is not anymore was created by a later job than the state that is to
\* be pushed to it, so that their lineages differ and tofu refuses the push.
KeptInv ==
  /\ \A s \in State : source[s] # NoDoc => source[s].lineage <= jobs
  /\ \A i \in 1..Len(prepared) : prepared[i].lineage <= jobs
  /\ ~force => \A i \in 1..Len(batch) : Pending(i) =>
        dest[At(i)] = NoDoc \/ dest[At(i)].lineage # prepared[i].lineage

LEMMA KeptStep == TypeInv /\ KeptInv /\ [Next]_vars => KeptInv'
<1> SUFFICES ASSUME TypeInv, KeptInv, [Next]_vars PROVE KeptInv'
  OBVIOUS
<1>0. jobs \in Nat /\ next \in Nat /\ prepared \in Seq(Doc)
  BY BoundsAssumption DEF TypeInv, TypeOK
<1>1. CASE Begin
  BY <1>1, <1>0 DEF Begin, KeptInv, Pending, backends
<1>2. CASE Pull
  <2>1. /\ Name \in State /\ Len(batch) \in Nat /\ next \in 1..Len(batch)
        /\ Len(prepared) = next - 1 /\ pc = "pull"
    BY <1>2, Position DEF Pull, TypeInv, Progress, Running
  <2>2. CASE source[Name] # NoDoc /\ prepared' = Append(prepared, source[Name]) /\ pc' = "check"
    <3>1. source[Name] \in Doc /\ source[Name].lineage <= jobs
      BY <2>1, <2>2 DEF KeptInv, TypeInv, TypeOK
    <3>2. /\ Len(prepared') = next
          /\ \A i \in 1..Len(prepared') :
               prepared'[i] = IF i = next THEN source[Name] ELSE prepared[i]
      BY <1>0, <2>1, <2>2, <3>1
    <3>. QED
      BY <1>2, <2>1, <2>2, <3>1, <3>2 DEF Pull, KeptInv, Pending, backends, selection, At
  <2>3. CASE pc' = "failed" /\ UNCHANGED prepared
    BY <1>2, <2>3 DEF Pull, KeptInv, Pending, backends, selection
  <2>. QED
    BY <1>2, <2>2, <2>3 DEF Pull
<1>3. CASE Check
  <2>1. /\ Len(batch) \in Nat /\ next \in 1..Len(batch) /\ pc = "check"
        /\ Len(prepared) = next
    BY <1>3, Position DEF Check, TypeInv, Progress, Running
  <2>2. UNCHANGED <<source, dest, batch, force, prepared, jobs>>
    BY <1>3 DEF Check, backends, selection
  <2>3. CASE pc' = "failed" \/ pc' = "ok"
    BY <2>2, <2>3 DEF KeptInv, Pending
  <2>4. CASE /\ dest[Target] = NoDoc \/ force
             /\ \/ pc' = "pull" /\ next' = next + 1
                \/ pc' = "push" /\ next' = 1 /\ next = Len(batch)
    <3>1. \A i \in 1..Len(batch) : Pending(i)' => i = next \/ Pending(i)
      BY <2>1, <2>2, <2>4 DEF Pending
    <3>2. ~force => dest[At(next)] = NoDoc
      BY <2>4 DEF At, Target
    <3>. QED
      BY <2>2, <3>1, <3>2 DEF KeptInv, At
  <2>. QED
    BY <1>3, <2>1, <2>3, <2>4 DEF Check
<1>4. CASE Push \/ Verify
  <2>1. /\ Len(batch) \in Nat /\ next \in 1..Len(batch)
        /\ UNCHANGED <<source, batch, force, prepared, jobs>>
    BY <1>4, Position DEF Push, Verify, backends, selection, Running
  <2>2. \A i \in 1..Len(batch) : Pending(i)' => Pending(i) /\ (Push => i # next)
    BY <1>4, <2>1 DEF Pending, Push, Verify
  <2>3. \A i \in 1..Len(batch) : (Push => i # next) => dest'[At(i)] = dest[At(i)]
    <3>1. [Migration]_vars
      BY <1>4 DEF Migration
    <3>. QED
      BY <1>4, <3>1, OnlyPushWrites DEF Verify, backends, Push
  <2>4. \A i \in 1..Len(batch) : At(i)' = At(i)
    BY <2>1 DEF At
  <2>. QED
    BY <2>1, <2>2, <2>3, <2>4 DEF KeptInv
<1>5. CASE Kill
  BY <1>5 DEF Kill, KeptInv, Pending, backends, selection
<1>6. CASE Job("gitlab")
  <2>1. PICK s \in State : source' = [source EXCEPT ![s] = Touched(@)]
    BY <1>6 DEF Job
  <2>2. Touched(source[s]).lineage <= jobs + 1
    BY <1>0 DEF Touched, KeptInv, TypeInv, TypeOK, Doc
  <2>3. \A r \in State : source'[r] # NoDoc => source'[r].lineage <= jobs + 1
    BY <1>0, <2>1, <2>2 DEF KeptInv, TypeInv, TypeOK, Doc
  <2>4. \A i \in 1..Len(prepared) : prepared[i].lineage \in Nat
    <3>1. \A d \in Doc : d.lineage \in Nat
      BY DEF Doc
    <3>. QED
      BY <1>0, <3>1
  <2>5. jobs' = jobs + 1 /\ UNCHANGED <<dest, pc, batch, force, next, prepared>>
    BY <1>6 DEF Job, selection
  <2>. QED
    BY <1>0, <2>3, <2>4, <2>5 DEF KeptInv, Pending, At
<1>7. CASE Job("pg")
  <2>1. PICK x \in Schemas : dest' = [dest EXCEPT ![x] = Touched(@)]
    BY <1>7 DEF Job
  <2>2. jobs' = jobs + 1 /\ UNCHANGED <<source, pc, batch, force, next, prepared>>
    BY <1>7 DEF Job, selection
  <2>3. \A s \in State : source[s] # NoDoc => source[s].lineage \in Nat
    BY DEF TypeInv, TypeOK, Doc
  <2>4. \A i \in 1..Len(prepared) : prepared[i].lineage \in Nat
    <3>1. \A d \in Doc : d.lineage \in Nat
      BY DEF Doc
    <3>. QED
      BY <1>0, <3>1
  <2>5. ASSUME ~force, NEW i \in 1..Len(batch), Pending(i)
        PROVE  dest'[At(i)] = NoDoc \/ dest'[At(i)].lineage # prepared[i].lineage
    <3>1. At(i) \in Schemas /\ i \in 1..Len(prepared)
      BY <1>0, <2>5, Position DEF Pending, At, Running, Writing, TypeInv, Progress
    <3>2. prepared[i].lineage <= jobs /\ prepared[i].lineage \in Nat
      BY <2>4, <3>1 DEF KeptInv
    <3>3. CASE At(i) # x
      BY <2>1, <2>5, <3>1, <3>3 DEF KeptInv, TypeInv, TypeOK
    <3>4. CASE At(i) = x /\ dest[x] = NoDoc
      BY <1>0, <2>1, <3>1, <3>2, <3>4 DEF Touched, TypeInv, TypeOK
    <3>5. CASE At(i) = x /\ dest[x] # NoDoc
      BY <2>1, <2>5, <3>1, <3>5 DEF KeptInv, Touched, TypeInv, TypeOK
    <3>. QED
      BY <3>3, <3>4, <3>5
  <2>. QED
    BY <1>0, <2>2, <2>3, <2>4, <2>5 DEF KeptInv, Pending, At
<1>8. CASE UNCHANGED vars
  BY <1>8 DEF vars, KeptInv, Pending, At
<1>. QED
  BY <1>1, <1>2, <1>3, <1>4, <1>5, <1>6, <1>7, <1>8 DEF Next, Migration

\* Unless it may overwrite, a migration replaces no document of a schema, not even
\* one that appeared there after the check.
THEOREM DestinationIsKept == Spec => DestinationKept
<1>1. Init => KeptInv
  BY EmptySeq DEF Init, KeptInv, Pending
<1>2. ASSUME TypeInv, KeptInv, Migration, ~force, NEW x \in Schemas, dest[x] # NoDoc
      PROVE  dest'[x] = dest[x]
  <2>1. CASE UNCHANGED dest
    BY <2>1
  <2>2. CASE /\ Push /\ At(next) = Target /\ Accepts(dest[Target], prepared[next])
             /\ \A y \in Schemas : y # Target => dest'[y] = dest[y]
             /\ dest'[Target] = Pushed(prepared[next], dest[Target])
    <3>1. CASE x # Target
      BY <2>2, <3>1
    <3>2. CASE x = Target
      <4>1. next \in 1..Len(batch) /\ Pending(next)
        BY <1>2, <2>2, Position DEF Push, Running, Pending
      <4>2. dest[Target].lineage # prepared[next].lineage
        BY <1>2, <2>2, <3>2, <4>1 DEF KeptInv
      <4>3. dest[Target] = prepared[next]
        BY <1>2, <2>2, <3>2, <4>2 DEF Accepts
      <4>. QED
        BY <4>2, <4>3
    <3>. QED
      BY <3>1, <3>2
  <2>. QED
    BY <1>2, <2>1, <2>2, OnlyPushWrites
<1>3. TypeInv /\ KeptInv /\ [Next]_vars =>
        [Migration /\ ~force =>
           \A x \in Schemas : dest[x] # NoDoc => dest'[x] = dest[x]]_vars
  BY <1>2
<1>. QED
  BY <1>1, <1>3, KeptStep, Typed, PTL DEF Spec, DestinationKept

-----------------------------------------------------------------------------
(* Success. *)

\* As long as no job interferes, what is prepared is what the sources hold, and
\* what lies behind the current state was read back.
SyncInv ==
  quiet =>
    /\ Running => \A i \in 1..Len(prepared) : prepared[i] = source[batch[i]]
    /\ Writing => \A i \in 1..(next - 1) : Content(dest[At(i)]) = Content(prepared[i])

LEMMA SyncStep == TypeInv /\ SyncInv /\ [Next]_vars => SyncInv'
<1> SUFFICES ASSUME TypeInv, SyncInv, [Next]_vars, quiet' PROVE
        /\ Running' => \A i \in 1..Len(prepared') : prepared'[i] = source'[batch'[i]]
        /\ Writing' => \A i \in 1..(next' - 1) : Content(dest'[At(i)']) = Content(prepared'[i])
  BY DEF SyncInv, Content
<1>0. next \in Nat /\ prepared \in Seq(Doc)
  BY DEF TypeInv, TypeOK
<1>1. CASE Begin
  BY <1>1, EmptySeq DEF Begin, Writing
<1>2. CASE Pull
  <2>1. /\ Name \in State /\ Len(batch) \in Nat /\ next \in 1..Len(batch)
        /\ Len(prepared) = next - 1 /\ Running /\ quiet
        /\ ~Writing' /\ UNCHANGED <<source, batch, next>>
    BY <1>2, Position DEF Pull, TypeInv, Progress, Running, Writing, backends, selection
  <2>2. CASE source[Name] # NoDoc /\ prepared' = Append(prepared, source[Name])
    <3>1. source[Name] \in Doc
      BY <2>1, <2>2 DEF TypeInv, TypeOK
    <3>2. /\ Len(prepared') = next
          /\ \A i \in 1..Len(prepared') :
               prepared'[i] = IF i = next THEN source[Name] ELSE prepared[i]
      BY <1>0, <2>1, <2>2, <3>1
    <3>. QED
      BY <2>1, <3>2 DEF SyncInv, Name
  <2>3. CASE UNCHANGED prepared
    BY <2>1, <2>3 DEF SyncInv
  <2>. QED
    BY <1>2, <2>2, <2>3 DEF Pull
<1>3. CASE Check
  <2>1. Running /\ quiet /\ UNCHANGED <<source, batch, prepared>>
    BY <1>3 DEF Check, Running, backends, selection
  <2>2. Writing' => next' = 1
    BY <1>3 DEF Check, Writing
  <2>. QED
    BY <2>1, <2>2 DEF SyncInv
<1>4. CASE Push
  <2>1. /\ Running /\ Writing /\ quiet /\ Len(batch) \in Nat /\ next \in 1..Len(batch)
        /\ UNCHANGED <<source, batch, prepared, next>>
    BY <1>4, Position DEF Push, Running, Writing, selection
  <2>2. [Migration]_vars
    BY <1>4 DEF Migration
  <2>3. \A i \in 1..(next - 1) : dest'[At(i)'] = dest[At(i)]
    BY <2>1, <2>2, OnlyPushWrites DEF At
  <2>. QED
    BY <2>1, <2>3 DEF SyncInv, Content
<1>5. CASE Verify
  <2>1. /\ Running /\ Writing /\ quiet /\ Len(batch) \in Nat /\ next \in 1..Len(batch)
        /\ UNCHANGED <<source, dest, batch, prepared>>
    BY <1>5, Position DEF Verify, Running, Writing, backends, selection
  <2>2. Writing' => Verified /\ next' = next + 1
    BY <1>5 DEF Verify, Writing
  <2>3. Verified => Content(dest[At(next)]) = Content(prepared[next])
    BY DEF Verified, At, Target
  <2>4. Writing' => \A i \in 1..(next' - 1) : i \in 1..(next - 1) \/ i = next
    BY <2>1, <2>2
  <2>. QED
    BY <2>1, <2>2, <2>3, <2>4 DEF SyncInv, At
<1>6. CASE Kill
  BY <1>6 DEF Kill, Running, Writing
<1>7. CASE \E backend \in {"gitlab", "pg"} : Job(backend)
  <2>1. ~Running /\ UNCHANGED pc
    BY <1>7 DEF Job, selection
  <2>. QED
    BY <2>1 DEF Running, Writing
<1>8. CASE UNCHANGED vars
  BY <1>8 DEF vars, SyncInv, Running, Writing, At
<1>. QED
  BY <1>1, <1>2, <1>3, <1>4, <1>5, <1>6, <1>7, <1>8 DEF Next, Migration

\* A migration that reports success while no job interferes leaves every schema
\* with the content of its state.
THEOREM SuccessMeansInSync == Spec => OkMeansInSync
<1>1. Init => SyncInv
  BY DEF Init, SyncInv, Running, Writing
<1>2. ASSUME TypeInv, SyncInv, [Next]_vars, pc # "ok", pc' = "ok", apply, quiet,
             NEW i \in 1..Len(batch)
      PROVE  Content(dest'[Schema[batch[i]]]) = Content(source[batch[i]])
  <2>1. Verify /\ Verified /\ next = Len(batch) /\ UNCHANGED dest
    <3>1. Check => pc' # "ok"
      BY <1>2 DEF Check
    <3>2. Verify
      BY <1>2, <3>1 DEF Next, Migration, Begin, Pull, Push, Kill, Job, vars
    <3>3. next \in 1..Len(batch) /\ Len(batch) \in Nat
      BY <3>2, <1>2, Position DEF Verify, Running
    <3>. QED
      BY <1>2, <3>2, <3>3 DEF Verify, backends
  <2>2. Len(prepared) = Len(batch) /\ Running /\ Writing /\ Len(batch) \in Nat
    BY <1>2, <2>1, Position DEF Verify, Running, Writing, TypeInv, Progress
  <2>3. prepared[i] = source[batch[i]]
    BY <1>2, <2>2 DEF SyncInv
  <2>4. Content(dest[At(i)]) = Content(prepared[i])
    <3>1. CASE i = next
      BY <2>1, <3>1 DEF Verified, At, Target
    <3>2. CASE i # next
      BY <1>2, <2>1, <2>2, <3>2 DEF SyncInv
    <3>. QED
      BY <3>1, <3>2
  <2>. QED
    BY <2>1, <2>3, <2>4 DEF At
<1>3. TypeInv /\ SyncInv /\ [Next]_vars =>
        [pc # "ok" /\ pc' = "ok" /\ apply /\ quiet =>
           \A i \in 1..Len(batch) :
             Content(dest'[Schema[batch[i]]]) = Content(source[batch[i]])]_vars
  BY <1>2
<1>. QED
  BY <1>1, <1>3, SyncStep, Typed, PTL DEF Spec, OkMeansInSync
=============================================================================
