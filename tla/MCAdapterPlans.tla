--------------------------- MODULE MCAdapterPlans ---------------------------
(***************************************************************************)
(* What MCProposals checks, and apart from that what the adapter planner   *)
(* decides: a kit of one skill, and the next one, which ships new texts, a *)
(* resource and a second skill; a context under Codex and under Claude,    *)
(* and a repository under Codex; found empty, with skills of its own, with *)
(* a custom skill, or installed by an early release.                       *)
(***************************************************************************)
EXTENDS MCProposals

VARIABLES site, kit, aTree, aManifest, trust, mine, fresh, writes

aVars == <<site, kit, aTree, aManifest, trust, mine, fresh, writes>>

ASkill == {"a", "b", "c"}
Files(primary, extra) == [f \in {"SKILL.md", "resource"} |-> IF f = "SKILL.md" THEN primary ELSE extra]
Absent == Files(None, None)

Kit1 == [text |-> "t1", bridge |-> <<31>>,
         ship |-> [s \in ASkill |-> IF s = "a" THEN Files(<<11>>, None) ELSE Absent]]
Kit2 == [text |-> "t2", bridge |-> <<32>>,
         ship |-> [s \in ASkill |-> CASE s = "a" -> Files(<<21>>, <<22>>)
                                      [] s = "b" -> Files(<<23>>, None)
                                      [] OTHER -> Absent]]
ATemplate == <<33>>

A == INSTANCE AdapterPlans WITH
       Skill <- ASkill, Kits <- {Kit1, Kit2}, Pristine <- {ATemplate}, Configured <- {<<42>>},
       Generated <- <<41>>, Founding <- {}, Writes <- {}, MaxWrites <- 0, Broken <- NoFile,
       tree <- aTree, manifest <- aManifest

Skl(s)  == A!Src(s, "SKILL.md")
Vacant   == [p \in A!Spot |-> None]
Seeded  == [Vacant EXCEPT ![A!Reg] = A!KitRegistry(Kit1), ![Skl("a")] = <<11>>, ![A!Bridge] = ATemplate]
Tailored == [Seeded EXCEPT ![A!Reg] = A!Registry("t1", {"a"}, {<<"c", 1>>}), ![Skl("c")] = <<71>>]

(* An installation of before there were bridges and MCP files in manifests. *)
Early ==
  [Vacant EXCEPT ![A!Kept] = <<81>>, ![A!Mcp] = <<43>>, ![A!Out("a", "SKILL.md")] = A!Rendered(Files(<<11>>, None))]
EarlyManifest ==
  [registry |-> A!KitRegistry(Kit1), owner |-> None, target |-> None, source |-> None,
   mcp |-> [state |-> "not_implemented", hash |-> None], kept |-> <<81>>, legacy |-> TRUE,
   skills |-> [s \in ASkill |->
                 IF s = "a" THEN [native |-> FALSE, canonical |-> <<11>>,
                                  files |-> Files(A!Rendered(Files(<<11>>, None)), None)]
                 ELSE None]]

Codex  == [codex |-> TRUE, context |-> TRUE]
Repo   == [codex |-> TRUE, context |-> FALSE]
Claude == [codex |-> FALSE, context |-> TRUE]

AFounding ==
  {<<s, Vacant, None>> : s \in {Codex, Repo, Claude}}
  \cup {<<s, Seeded, None>> : s \in {Codex, Repo}}
  \cup {<<s, Tailored, None>> : s \in {Codex, Claude}}
  \cup {<<Claude, Early, EarlyManifest>>}

AnOverride == <<<<53>>, <<11>>>>
Overriding == {<<A!Over("a"), AnOverride>>, <<A!Over("a"), None>>}
AWrites ==
  Overriding \cup
  {<<Skl("a"), <<51>>>>, <<Skl("a"), <<21>>>>, <<Skl("a"), None>>,
   <<A!Src("a", "resource"), <<52>>>>, <<A!Src("a", "resource"), None>>,
   <<A!Out("a", "SKILL.md"), <<55>>>>, <<A!Bridge, <<54>>>>, <<A!Bridge, ATemplate>>,
   <<A!Mcp, <<42>>>>, <<A!Layer, <<56>>>>,
   <<A!Reg, A!Registry("t1", {"a"}, {<<"c", 2>>})>>, <<A!Reg, A!Registry("t3", {"a"}, {<<"c", 2>>})>>,
   <<A!Reg, A!Registry("t3", {"a"}, {})>>}

H == INSTANCE AdapterPlans WITH
       Skill <- ASkill, Kits <- {Kit1, Kit2}, Pristine <- {ATemplate}, Configured <- {<<42>>},
       Generated <- <<41>>, Founding <- AFounding, Writes <- AWrites, MaxWrites <- 3, Broken <- NoFile,
       tree <- aTree, manifest <- aManifest
O == INSTANCE AdapterPlans WITH
       Skill <- ASkill, Kits <- {Kit1, Kit2}, Pristine <- {ATemplate}, Configured <- {<<42>>},
       Generated <- <<41>>, Founding <- {<<Codex, Vacant, None>>}, Writes <- Overriding, MaxWrites <- 3,
       Broken <- NoFile, tree <- aTree, manifest <- aManifest

Unplanned ==
  /\ kit = None /\ site = None /\ aTree = None /\ aManifest = None /\ trust = None
  /\ mine = {} /\ fresh = FALSE /\ writes = 0

PlannedInit ==
  \/ JudgedInit /\ Unplanned
  \/ part = "plans" /\ Unguarded /\ Unasked /\ H!PlansInit

Elsewhere == (Guarded \/ ProposalsPart) /\ UNCHANGED aVars

PlansPart ==
  /\ part = "plans"
  /\ H!PlansNext
  /\ UNCHANGED <<MCVars, pVars>>

PlannedSpec == PlannedInit /\ [][Elsewhere \/ PlansPart]_<<MCVars, pVars, aVars>>

(* Adapter planner: edits survive, a reinstall is clean, and status agrees  *)
(* with the plans.                                                         *)
PlansKeepPromises ==
  H!EditsSurvive /\ [](part = "plans" => H!ReinstallIsClean /\ H!CurrentIsRepaired)

(* Overrides that come and go while the kit is upgraded; nothing else.      *)
OverridesSpec ==
  /\ part = "plans" /\ Unguarded /\ Unasked /\ O!PlansInit
  /\ [][O!PlansNext /\ UNCHANGED <<MCVars, pVars>>]_<<MCVars, pVars, aVars>>
RecordedIsThere == O!RecordedIsThere
=============================================================================
