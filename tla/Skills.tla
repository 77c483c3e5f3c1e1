------------------------------- MODULE Skills -------------------------------
(***************************************************************************)
(* The personas an assessment may be run with: agent/skills_service.py,    *)
(* skills_registry.py and api/skills.py.  The custom skills of one process *)
(* are in memory and, all of them at every change, in a file, both in the  *)
(* order in which they were created.                                       *)
(*                                                                         *)
(* An update may set a field to null, which is stored without a question,  *)
(* and ends the load at the next start: the items before it are kept, it   *)
(* and those after it are not.                                             *)
(***************************************************************************)
EXTENDS Naturals, FiniteSets

CONSTANTS
  SkillIds,      \* bound: built-in and custom ids
  Prompts,       \* bound: what a skill says
  Nulled,       \* ... with a field that is null
  NoSkill, Torn, Unloaded,
  MaxSkillChanges  \* bound

\* Items are in the order of their ranks.
Item == [prompt : Prompts \cup {Nulled}, rank : Nat]

ASSUME SkillsAssumption == MaxSkillChanges \in Nat /\ NoSkill \notin Item

BuiltinSkills ==
  {"iso-27001-auditor", "appsec-engineer", "gdpr-dpo", "cloud-architect",
   "ssdlc-requirements", "ssdlc-design", "ssdlc-development", "ssdlc-testing",
   "ssdlc-deployment", "ssdlc-operations"}

VARIABLES
  skills,        \* custom skills in memory: of an id, an item or NoSkill; or Unloaded
  skillsFile,    \* of an id, an item or NoSkill; or Torn
  confirmed,     \* what the callers were told: of an id, a prompt or NoSkill
  unanswered,    \* ids whose last change ended with an error after it was made
  lost,          \* history: ids that a load has dropped since they were last confirmed
  saves

personas == <<skills, skillsFile, confirmed, unanswered, lost, saves>>

Custom == [SkillIds -> Item \cup {NoSkill}]
SkillsOK ==
  /\ skills \in Custom \cup {Unloaded}
  /\ skillsFile \in Custom \cup {Torn}
  /\ confirmed \in [SkillIds -> Prompts \cup {Nulled, NoSkill}]
  /\ unanswered \subseteq SkillIds
  /\ lost \subseteq SkillIds
  /\ saves \in 0..MaxSkillChanges

NoSkills == [i \in SkillIds |-> NoSkill]
SkillsInit ==
  /\ skills = Unloaded /\ skillsFile = NoSkills /\ confirmed = NoSkills
  /\ unanswered = {} /\ lost = {} /\ saves = 0

-----------------------------------------------------------------------------
\* What a load does not keep: everything, if the file is not JSON; else the
\* first item with a null, and those after it.
Dropped ==
  IF skillsFile = Torn THEN SkillIds
  ELSE { i \in SkillIds :
           /\ skillsFile[i] # NoSkill
           /\ \E j \in SkillIds : /\ skillsFile[j] # NoSkill /\ skillsFile[j].prompt = Nulled
                                  /\ skillsFile[j].rank <= skillsFile[i].rank }

\* The first request loads the file; an exception is only printed.
LoadSkills ==
  /\ skills = Unloaded
  /\ skills' = [i \in SkillIds |-> IF i \in Dropped THEN NoSkill ELSE skillsFile[i]]
  /\ lost' = lost \cup Dropped
  /\ UNCHANGED <<skillsFile, confirmed, unanswered, saves>>

\* Variant: a custom skill may have the id of a built-in one
ExistsCustom(id) == skills[id] # NoSkill

Exists(id) == skills[id] # NoSkill \/ id \in BuiltinSkills

\* A new item comes last; an update keeps its place.
ItemOf(id, to) ==
  IF to = NoSkill THEN NoSkill
  ELSE [prompt |-> to, rank |-> IF skills[id] = NoSkill THEN saves + 1 ELSE skills[id].rank]

\* The memory is changed, the file emptied, then written; the caller is
\* answered when all of it worked.
SaveSkills(id, to) ==
  /\ saves < MaxSkillChanges /\ saves' = saves + 1
  /\ skills' = [skills EXCEPT ![id] = ItemOf(id, to)]
  /\ \/ /\ skillsFile' = skills'
        /\ confirmed' = [confirmed EXCEPT ![id] = to]
        /\ unanswered' = unanswered \ {id} /\ lost' = lost \ {id}
     \/ /\ skillsFile' \in {skillsFile, Torn}
        /\ unanswered' = unanswered \cup {id}
        /\ UNCHANGED <<confirmed, lost>>

\* A change that is refused changes nothing.
CreateSkill(id, prompt) ==
  /\ skills # Unloaded /\ ~Exists(id)
  /\ SaveSkills(id, prompt)

\* The copy that takes the fields is not validated.
UpdateSkill(id, prompt) ==
  /\ skills # Unloaded /\ skills[id] # NoSkill
  /\ SaveSkills(id, prompt)

DeleteSkill(id) ==
  /\ skills # Unloaded /\ skills[id] # NoSkill
  /\ SaveSkills(id, NoSkill)

RestartSkills ==
  /\ skills # Unloaded
  /\ skills' = Unloaded
  /\ UNCHANGED <<skillsFile, confirmed, unanswered, lost, saves>>

\* The process ends inside a save.
Crash(id, to) ==
  /\ skills # Unloaded /\ saves < MaxSkillChanges /\ saves' = saves + 1
  /\ \/ to \in Prompts /\ id \notin BuiltinSkills
     \/ to \in {NoSkill, Nulled} /\ skills[id] # NoSkill
  /\ skillsFile' = Torn /\ skills' = Unloaded
  /\ unanswered' = unanswered \cup {id}
  /\ UNCHANGED <<confirmed, lost>>

SkillsNext ==
  \/ LoadSkills \/ RestartSkills
  \/ \E id \in SkillIds :
       \/ DeleteSkill(id)
       \/ \E prompt \in Prompts : CreateSkill(id, prompt)
       \/ \E prompt \in Prompts \cup {Nulled} : UpdateSkill(id, prompt)
       \/ \E to \in Prompts \cup {Nulled, NoSkill} : Crash(id, to)

SkillsSpec == SkillsInit /\ [][SkillsNext]_personas

-----------------------------------------------------------------------------
\* A skill stays as its last caller was told, in memory and in a file that can
\* be read, until a load drops it with a torn file or behind an item with a
\* null; an error leaves only its own skill in doubt, and a built-in skill is
\* never hidden by a custom one (skills_service.py).
PromptOf(item) == IF item = NoSkill THEN NoSkill ELSE item.prompt

KeptAsConfirmed ==
  /\ \A id \in SkillIds \ (unanswered \cup lost) :
       /\ skills # Unloaded => PromptOf(skills[id]) = confirmed[id]
       /\ skillsFile # Torn => PromptOf(skillsFile[id]) = confirmed[id]
  /\ \A id \in SkillIds \cap BuiltinSkills : confirmed[id] = NoSkill
=============================================================================
