---------------------------- MODULE PlatformPhases ----------------------------
(***************************************************************************)
(* The phases of the OpenStack platform: run_platform.py.                  *)
(*                                                                         *)
(* A phase is the sequence of commands that main dispatches it to.  A      *)
(* command that fails ends the phase, and what was changed before stays.   *)
(***************************************************************************)
EXTENDS ChangeSelection, SequencesExt

CONSTANT Components   \* openstack.foundation.components

ASSUME ComponentsAssumption == Components \in Seq(Range(Components))

\* a command and what it is about
Do(what, on) == [do |-> what, on |-> on]

\* the syntax check and "tofu validate", a playbook with --check, kolla's
\* prechecks, the smoke test: they change nothing
Check(ph) == Do("check", ph)

\* the playbook of the hosts
Host == Do("host", Nobody)

\* ensure_memcache_secret_key and kolla-ansible deploy
Flush == Do("flush", Nobody)
Kolla == Do("kolla", Nobody)

\* ensure_openstack_dns: the records of the cloud's names are reconciled
Names == Do("names", Nobody)

\* every component of the foundation is planned, in their order; foundation-apply
\* plans each anew and applies that plan before it goes on to the next
Planned == [i \in DOMAIN Components |-> Do("plan-foundation", Components[i])]
Applied ==
  FlattenSeq([i \in DOMAIN Components |->
                <<Do("plan-foundation", Components[i]), Do("foundation", Components[i])>>])

\* mutant: the cloud's names are reconciled at the end of the last phase alone
CommandsOfNamesLast(ph) ==
  CASE ph = "host-apply"       -> <<Host>>
    [] ph = "kolla-deploy"     -> <<Flush, Kolla>>
    [] ph = "foundation-plan"  -> Planned
    [] ph = "foundation-apply" -> Append(Applied, Names)
    [] OTHER                   -> <<Check(ph)>>

CommandsOf(ph) ==
  CASE ph = "host-apply"       -> <<Host>>
    [] ph = "kolla-deploy"     -> <<Flush, Kolla, Names>>
    [] ph = "foundation-plan"  -> <<Names>> \o Planned
    [] ph = "foundation-apply" -> <<Names>> \o Applied
    [] OTHER                   -> <<Check(ph)>>

\* the commands that change something
Changing == {"host", "flush", "kolla", "names", "foundation"}

\* run_platform.py --phase of every phase, in the order of the phases
PlatformCommands(phases) ==
  FlattenSeq([i \in 1..Len(Phases) |->
                IF Phases[i] \in phases THEN CommandsOf(Phases[i]) ELSE <<>>])
=============================================================================
