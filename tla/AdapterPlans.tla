---------------------------- MODULE AdapterPlans ----------------------------
(***************************************************************************)
(* What install, repair, uninstall and status of an agent adapter decide   *)
(* from the project, the manifest, the per-user trust record and the       *)
(* shipped kit (adapters/agents/service.py, sources.py, overrides.py),     *)
(* through releases of the kit, edits of the operator and forgotten        *)
(* records.  Planning and applying are one step here: AdapterInstall has   *)
(* the lock, the transaction and the crashes between the two.              *)
(*                                                                         *)
(* A content is a tuple and stands for its hash; Rendered, Merged and      *)
(* Registry build contents no operator writes.  A skill has its SKILL.md   *)
(* and one resource.  Codex reads the skills where they are; any other     *)
(* client is given rendered copies.                                        *)
(***************************************************************************)
EXTENDS Naturals, TLC

CONSTANTS Skill,          \* names of skills
          Kits,           \* what the releases ship
          Pristine,       \* instruction files of the shipped context templates
          Configured,     \* contents of an MCP file that declare the server
          Generated,      \* the MCP file as it is generated
          Founding,       \* what to start from: <<site, project, manifest>>
          Writes,         \* <<path, content>>: what the operator may write
          MaxWrites, Broken, None

VARIABLES site,           \* [codex, context]: the client is Codex; the root is a context
          kit, tree, manifest,
          trust,          \* the manifest the trust record authenticates
          mine,           \* edits of what is installed; for the properties only
          fresh,          \* the last step was an install that wrote something
          writes

planVars == <<site, kit, tree, manifest, trust, mine, fresh, writes>>

Primary == "SKILL.md"
Extra   == "resource"
Piece   == {Primary, Extra}

Reg       == <<"registry">>
Bridge    == <<"bridge">>
Mcp       == <<"mcp">>
Kept      == <<"backup">>
Layer     == <<"personalization">>
Over(s)   == <<"override", s>>
Src(s, f) == <<"canonical", s, f>>
Out(s, f) == <<"client", s, f>>
Spot ==
  {Reg, Bridge, Mcp, Kept, Layer} \cup {Over(s) : s \in Skill}
  \cup {Src(s, f) : s \in Skill, f \in Piece} \cup {Out(s, f) : s \in Skill, f \in Piece}

Has(t, p) == t[p] # None
Nil       == [x \in {} |-> None]      \* no path at all
Holding(f, x) == x \in DOMAIN f       \* a partial function with a value at x

-----------------------------------------------------------------------------
(* The registry: the text of its packaged section, the skills that section *)
(* and the custom one list, and the custom section.                        *)
Registry(text, names, custom) == <<text, names, custom>>
Names(r)  == r[2]
Custom(r) == {c[1] : c \in r[3]}
Listed(r) == Names(r) \cup Custom(r)
Section(r) == <<r[1], r[2]>>
Uncustomised(r) == [r EXCEPT ![3] = {}]
WellFormed(r) == r # Broken /\ Names(r) # {} /\ Names(r) \cap Custom(r) = {}

Ships(k, s)    == k.ship[s][Primary] # None
Shipped(k)     == {s \in Skill : Ships(k, s)}
KitRegistry(k) == Registry(k.text, Shipped(k), {})
Refreshed(k, r) == [KitRegistry(k) EXCEPT ![3] = r[3]]

(* An override is its text and the shipped SKILL.md it was made from.      *)
Base(override) == override[2]
Overridden(k, t) == IF site.context THEN {s \in Shipped(k) : Has(t, Over(s))} ELSE {}
Merged(k, t)   ==                           \* the bridge with the personal layer
  IF Has(t, Layer) THEN <<k.bridge, t[Layer]>> ELSE k.bridge
Rendered(files) == <<files[Primary], files[Extra]>>

Skilled(files, over, custom) == [files |-> files, over |-> over, custom |-> custom]
Sound(files) == \A f \in Piece : files[f] # Broken

-----------------------------------------------------------------------------
(* load_canonical_sources: the project's own skills if it has any, else    *)
(* the kit's; an override stands for its SKILL.md.                         *)
Here(t, s)  == {f \in Piece : Has(t, Src(s, f))}
Local(t)    == Has(t, Reg) \/ \E s \in Skill : Here(t, s) # {}
Own(t, s)   == [f \in Piece |-> t[Src(s, f)]]
Topped(t, s, files) == [files EXCEPT ![Primary] = IF s \in Overridden(kit, t) THEN t[Over(s)] ELSE @]

Loaded(t) ==
  [s \in Skill |->
     IF Local(t)
     THEN IF s \notin Listed(t[Reg]) THEN None
          ELSE Skilled(Topped(t, s, Own(t, s)), s \in Overridden(kit, t), s \in Custom(t[Reg]))
     ELSE IF ~Ships(kit, s) THEN None
          ELSE Skilled(Topped(t, s, kit.ship[s]), s \in Overridden(kit, t), FALSE)]

BadOverride(t) == site.context /\ \E s \in Shipped(kit) : t[Over(s)] = Broken

LoadError(t) ==
  LET unread == \E s \in Skill : Here(t, s) # {} /\ Primary \in Here(t, s) /\ t[Src(s, Extra)] = Broken
  IN  CASE BadOverride(t) -> "invalid"
        [] ~Local(t) -> "none"
        [] ~Has(t, Reg) -> "missing"
        [] ~WellFormed(t[Reg]) -> "invalid"
        [] {s \in Skill : Here(t, s) # {}} # Listed(t[Reg]) -> "invalid"
        [] unread -> "invalid"
        [] \E s \in Listed(t[Reg]) : ~Has(t, Src(s, Primary)) -> "missing"
        [] \E s \in Listed(t[Reg]) : ~Sound(Loaded(t)[s].files) -> "invalid"
        [] OTHER -> "none"

(* An override that Codex was given and that is gone: the kit's SKILL.md   *)
(* comes back.                                                             *)
Gone(m, t) ==
  IF ~site.codex \/ m = None THEN {}
  ELSE {s \in Skill : /\ m.skills[s] # None /\ ~m.skills[s].native
                      /\ ~(site.context /\ Has(t, Over(s)))}

Restored(gone, loaded) ==
  [s \in Skill |->
     IF s \notin gone THEN loaded[s]
     ELSE [loaded[s] EXCEPT !.files[Primary] = kit.ship[s][Primary], !.over = FALSE]]

Misplaced(skills) == site.context /\ \E s \in Skill : skills[s] # None /\ ~skills[s].custom /\ ~Ships(kit, s)

-----------------------------------------------------------------------------
(* _select_codex_context_sources: what a context's own skills become when  *)
(* the kit is refreshed, file by file, between what was recorded (rec), is *)
(* there (own) and is shipped (new).                                       *)
Lost(rec, own, new)    == new # None /\ own = None /\ rec # None
Edited(rec, own, new)  == rec # None /\ own \notin {None, rec, new}
TakenUnlessKept(rec, own, new) == IF rec # None THEN new ELSE own
Taken(rec, own, new) ==
  CASE new = None -> IF own = rec THEN None ELSE own
    [] own = None -> new
    [] rec # None /\ own = rec -> new
    [] OTHER -> own

RegistryEditedWhole(m, t) == t[Reg] # m.registry /\ t[Reg][3] = {}
RegistryEdited(m, t) ==
  ~(\/ t[Reg] \in {m.registry, KitRegistry(kit)}
    \/ /\ t[Reg][3] # {}
       /\ \/ Uncustomised(t[Reg]) = m.registry
          \/ Section(t[Reg]) = Section(KitRegistry(kit)))

Selected(t, m, error, gone, loaded, local) ==
  LET plain   == [error |-> "none", own |-> Local(t), skills |-> local, changes |-> Nil,
                  edited |-> Nil, held |-> None, gone |-> gone,
                  registry |-> IF Local(t) THEN t[Reg] ELSE KitRegistry(kit)]
      failed(why) == [error |-> why]
      (* from here on: Codex, a manifest, a context with skills of its own *)
      edited  == RegistryEdited(m, t)
      reg     == IF edited THEN t[Reg] ELSE Refreshed(kit, t[Reg])
      chosen  == (IF edited THEN Names(t[Reg]) ELSE Shipped(kit)) \cup Custom(t[Reg])
      merges(s) == Ships(kit, s) /\ local[s] # None /\ ~local[s].over /\ s \notin gone
                   /\ m.skills[s] # None /\ m.skills[s].native
      rec(s, f) == m.skills[s].files[f]
      taken(s) == [f \in Piece |-> Taken(rec(s, f), t[Src(s, f)], kit.ship[s][f])]
      select(s) ==
        IF s \notin chosen THEN None
        ELSE IF ~Ships(kit, s) THEN local[s]
        ELSE IF local[s] # None /\ local[s].over
             THEN Skilled([kit.ship[s] EXCEPT ![Primary] = t[Over(s)]], TRUE, FALSE)
        ELSE IF s \in gone \/ local[s] = None
             THEN Skilled(kit.ship[s], FALSE, FALSE)
        ELSE IF merges(s) THEN Skilled(taken(s), FALSE, FALSE)
        ELSE local[s]
      new(s)  == chosen # {} /\ s \in chosen /\ local[s] = None /\ s \notin gone /\ Ships(kit, s)
                 /\ s \notin Overridden(kit, t)
      moved   == {p \in {<<s, f>> : s \in Skill, f \in Piece} :
                    \/ merges(p[1]) /\ p[1] \in chosen /\ taken(p[1])[p[2]] # t[Src(p[1], p[2])]
                    \/ new(p[1]) /\ kit.ship[p[1]][p[2]] # None}
      files   == [p \in {Src(q[1], q[2]) : q \in moved} |-> select(p[2]).files[p[3]]]
      kept    == {p \in {<<s, f>> : s \in Skill, f \in Piece} :
                    /\ p[1] \in chosen /\ merges(p[1])
                    /\ Edited(rec(p[1], p[2]), t[Src(p[1], p[2])], kit.ship[p[1]][p[2]])}
  IN  CASE error # "none" -> failed(error)
        [] ~gone \subseteq Shipped(kit) \cap {s \in Skill : loaded[s] # None} -> failed("invalid")
        [] Misplaced(local) -> failed("invalid")
        [] m = None \/ ~site.codex \/ ~site.context \/ ~Local(t) -> plain
        [] Shipped(kit) \cap Custom(t[Reg]) # {} -> failed("invalid")
        [] \E s \in chosen : merges(s) /\ \E f \in Piece : Lost(rec(s, f), t[Src(s, f)], kit.ship[s][f])
             -> failed("missing")
        [] OTHER ->
             [plain EXCEPT
                !.skills = [s \in Skill |-> select(s)],
                !.registry = reg,
                !.changes = files @@ (IF reg = t[Reg] THEN Nil ELSE Reg :> reg),
                !.edited = [p \in {Src(q[1], q[2]) : q \in kept} |-> rec(p[2], p[3])],
                !.held = IF edited THEN m.registry ELSE None]

Recovered(t, m, gone, loaded) == Selected(t, m, LoadError(t), gone, loaded, Restored(gone, loaded))
Selection(t, m) == Recovered(t, m, Gone(m, t), Loaded(t))

-----------------------------------------------------------------------------
(* What the manifest owns, and what the client is to be given.             *)
Given(s, f) == IF site.codex THEN Src(s, f) ELSE Out(s, f)
Owned(m, s, f) == m # None /\ m.skills[s] # None /\ ~m.skills[s].native /\ m.skills[s].files[f] # None

SkillOutputs(m) ==
  [p \in {Given(s, f) : <<s, f>> \in {o \in Skill \X Piece : Owned(m, o[1], o[2])}} |->
     m.skills[p[2]].files[p[3]]]
Outputs(m) ==
  SkillOutputs(m) @@ (IF m # None /\ m.mcp.state = "generated" THEN Mcp :> m.mcp.hash ELSE Nil)
Bridged(m) == m # None /\ m.owner # None        \* the manifest has its components

Native(skill) == site.codex /\ ~skill.over
Rendering(skill) ==
  [f \in Piece |-> IF site.codex /\ f # Primary THEN None
                   ELSE IF f = Primary /\ ~site.codex THEN Rendered(skill.files)
                   ELSE skill.files[f]]
Wanted(sel) ==
  [p \in {Given(s, f) : <<s, f>> \in {o \in Skill \X Piece :
            /\ sel.skills[o[1]] # None /\ ~Native(sel.skills[o[1]])
            /\ Rendering(sel.skills[o[1]])[o[2]] # None}} |->
     Rendering(sel.skills[p[2]])[p[3]]]

(* An override may replace the SKILL.md it was made from.                  *)
Takeovers(m, sel) ==
  [p \in {Src(s, Primary) : s \in {s \in Skill :
            /\ site.codex /\ m # None /\ sel.skills[s] # None /\ sel.skills[s].over
            /\ m.skills[s] # None /\ m.skills[s].native
            /\ m.skills[s].files[Primary] = Base(sel.skills[s].files[Primary])}} |->
     m.skills[p[2]].files[Primary]]
Restores(sel) ==
  [p \in {Src(s, Primary) : s \in {s \in sel.gone : sel.skills[s] # None}} |->
     sel.skills[p[2]].files[Primary]]

Recorded(m, sel, t) ==    \* the bridge is kept as it is: what it was made from
  IF ~Bridged(m) \/ ~Has(t, Bridge) THEN None
  ELSE IF t[Bridge] \in {m.source, IF m.owner = "generated" THEN Merged(kit, t) ELSE kit.bridge} THEN None
  ELSE m.source

-----------------------------------------------------------------------------
(* A plan: it raises, reports only, adopts, changes nothing or writes.     *)
Plan(act, writing, next) == [act |-> act, writing |-> writing, next |-> next]
Reports == Plan("report", Nil, manifest)
Raises  == Plan("raise", Nil, manifest)

Distrusted == manifest # trust

(* _prepare_untracked_adoption *)
Adoptable(t, m) ==
  /\ t[Reg] = m.registry
  /\ \A s \in Skill : m.skills[s] # None =>
       /\ t[Src(s, Primary)] = m.skills[s].canonical
       /\ \A f \in Piece :
            LET at == IF m.skills[s].native THEN Src(s, f) ELSE Given(s, f)
            IN  m.skills[s].files[f] # None => t[at] = m.skills[s].files[f]
  /\ Bridged(m) => t[Bridge] = m.target
  /\ m.mcp.hash # None => t[Mcp] = m.mcp.hash
  /\ m.kept # None => t[Kept] = m.kept

PlanBridge(t, m) ==
  LET generated == [owner |-> "generated", target |-> Merged(kit, t), writing |-> Bridge :> Merged(kit, t)]
      theirs(hash) == [owner |-> "user-owned", target |-> hash, writing |-> Nil]
  IN  IF Bridged(m) /\ m.owner = "user-owned"
      THEN IF t[Bridge] \in Pristine THEN generated
           ELSE theirs(IF Has(t, Bridge) THEN t[Bridge] ELSE m.target)
      ELSE IF ~Has(t, Bridge) THEN generated
      ELSE IF ~Bridged(m) THEN IF t[Bridge] \in Pristine THEN generated ELSE theirs(t[Bridge])
      ELSE IF t[Bridge] = Merged(kit, t) THEN [generated EXCEPT !.writing = Nil]
      ELSE generated

PlanMcp(t, m) ==
  LET state == IF t[Mcp] \in Configured THEN "native" ELSE "divergent"
      known == IF Bridged(m) THEN m.mcp.state ELSE "not_implemented"
  IN  IF known \in {"native", "divergent"}
      THEN IF Has(t, Mcp) THEN [state |-> state, hash |-> t[Mcp]]
           ELSE [state |-> "divergent", hash |-> m.mcp.hash]
      ELSE IF Has(t, Mcp) /\ known = "not_implemented" THEN [state |-> state, hash |-> t[Mcp]]
      ELSE [state |-> "generated", hash |-> Generated]

BuildManifestAsFound(sel, bridge, mcp, m, t) ==
  [registry |-> sel.registry,
   skills |-> [s \in Skill |->
                 IF sel.skills[s] = None THEN None
                 ELSE [native |-> Native(sel.skills[s]), canonical |-> sel.skills[s].files[Primary],
                       files |-> IF Native(sel.skills[s]) THEN sel.skills[s].files
                                 ELSE Rendering(sel.skills[s])]],
   owner |-> bridge.owner, target |-> bridge.target,
   source |-> IF bridge.owner = "generated" THEN Merged(kit, t) ELSE kit.bridge,
   mcp |-> mcp, kept |-> IF m = None THEN None ELSE m.kept, legacy |-> FALSE]

(* _build_manifest: an edited file keeps the hash it was adopted with.     *)
BuildManifest(sel, bridge, mcp, m, t) ==
  LET hash(s, f) == IF Holding(sel.edited, Src(s, f)) THEN sel.edited[Src(s, f)]
                    ELSE sel.skills[s].files[f]
      entry(s) == IF sel.skills[s] = None THEN None
                  ELSE [native |-> Native(sel.skills[s]), canonical |-> hash(s, Primary),
                        files |-> IF Native(sel.skills[s]) THEN [f \in Piece |-> hash(s, f)]
                                  ELSE Rendering(sel.skills[s])]
      made == IF bridge.owner = "generated" THEN Merged(kit, t) ELSE kit.bridge
  IN  [registry |-> IF sel.held # None THEN sel.held ELSE sel.registry,
       skills |-> [s \in Skill |-> entry(s)],
       owner |-> bridge.owner, target |-> bridge.target,
       source |-> IF Recorded(m, sel, t) # None THEN Recorded(m, sel, t) ELSE made,
       mcp |-> mcp, kept |-> IF m = None THEN None ELSE m.kept, legacy |-> FALSE]

Unfit(m) == m.owner = "generated" /\ m.source # m.target   \* the manifest's own validation

(* The kit's skills become the project's, where Codex finds none there.     *)
Seed(sel) ==
  [p \in IF site.codex /\ ~sel.own
           THEN {Reg} \cup {Src(s, f) : <<s, f>> \in {o \in Skill \X Piece :
                  /\ sel.skills[o[1]] # None /\ sel.skills[o[1]].files[o[2]] # None
                  /\ o[2] = Primary => ~sel.skills[o[1]].over}}
           ELSE {} |-> IF p = Reg THEN sel.registry ELSE sel.skills[p[2]].files[p[3]]]

Giving(t, want) == [p \in {p \in DOMAIN want : t[p] # want[p]} |-> want[p]]

(* Outputs that are not wanted any more go, or give the packaged skill back. *)
Taking(t, old, want, back) ==
  [p \in {p \in DOMAIN old \ DOMAIN want : Has(t, p) /\ ~(Holding(back, p) /\ t[p] = back[p])} |->
     IF Holding(back, p) THEN back[p] ELSE None]

InstallOf(action, t, m, sel) ==
  LET want  == Wanted(sel)
      old   == SkillOutputs(m)
      owned == Outputs(m)
      take  == Takeovers(m, sel)
      back  == Restores(sel)
      desired(p) == CASE Holding(back, p) -> back[p] [] Holding(want, p) -> want[p]
                      [] p = Mcp -> Generated [] OTHER -> None
      modified == \E p \in DOMAIN owned : t[p] \notin {None, owned[p], desired(p)}
      spoilt   == Bridged(m) /\ m.owner = "generated" /\ t[Bridge] \notin {None, m.target, Merged(kit, t)}
      untracked == \E p \in DOMAIN want \ DOMAIN old :
                     Has(t, p) /\ ~(Holding(take, p) /\ t[p] = take[p])
      bridge == PlanBridge(t, m)
      mcp    == PlanMcp(t, m)
      config == IF mcp.state = "generated" /\ t[Mcp] # Generated THEN Mcp :> Generated ELSE Nil
      all    == sel.changes @@ Seed(sel) @@ Giving(t, want) @@ Taking(t, old, want, back)
                @@ bridge.writing @@ config
      next   == BuildManifest(sel, bridge, mcp, m, t)
  IN  CASE sel.error # "none" -> Raises
        [] Distrusted ->
             IF action = "install" /\ m # None /\ trust = None /\ Adoptable(t, m)
             THEN Plan("adopt", Nil, m) ELSE Reports
        [] modified \/ spoilt \/ untracked -> Reports
        [] m # None /\ m.kept # None /\ t[Kept] # m.kept -> Reports
        [] Unfit(next) -> Raises
        [] OTHER -> Plan(IF DOMAIN all = {} /\ next = m THEN "nothing" ELSE "write", all, next)

PlanInstall(action) == InstallOf(action, tree, manifest, Selection(tree, manifest))

PlanUninstall ==
  LET t     == tree
      m     == manifest
      owned == Outputs(m)
      ours  == Bridged(m) /\ m.owner = "generated"
      lent  == {s \in Skill : site.codex /\ Owned(m, s, Primary)}
      back  == [p \in {Src(s, Primary) : s \in lent} |-> kit.ship[p[2]][Primary]]
      modified == \/ \E p \in DOMAIN owned : t[p] \notin {None, owned[p]}
                  \/ ours /\ t[Bridge] \notin {None, m.target}
                  \/ m.kept # None /\ t[Kept] \notin {None, m.kept}
      going == {p \in DOMAIN owned \ DOMAIN back : Has(t, p)}
               \cup (IF ours /\ Has(t, Bridge) THEN {Bridge} ELSE {})
               \cup (IF m.kept # None /\ Has(t, Kept) THEN {Kept} ELSE {})
      returning == {p \in DOMAIN back : t[p] # back[p]}
  IN  CASE Distrusted -> Reports
        [] m = None -> Plan("nothing", Nil, m)
        [] modified -> Reports
        [] ~lent \subseteq Shipped(kit) -> Raises
        [] OTHER -> Plan("write", [p \in going \cup returning |->
                                     IF p \in returning THEN back[p] ELSE None], None)

After(plan) == [p \in Spot |-> IF Holding(plan.writing, p) THEN plan.writing[p] ELSE tree[p]]

-----------------------------------------------------------------------------
(* What the client's files are found to be.                                *)
McpStands(t, m) ==
  LET state == IF Bridged(m) THEN m.mcp.state ELSE "not_implemented"
  IN  CASE state = "not_implemented" -> TRUE
        [] state = "native" -> t[Mcp] = m.mcp.hash /\ t[Mcp] \in Configured
        [] state = "divergent" -> FALSE
        [] OTHER -> TRUE

(* The reasons for drift that do not need the canonical inputs.            *)
FileDrift(t, m) ==
  LET owned == Outputs(m)
  IN  {d \in {"legacy_manifest", "generated_missing", "generated_modified", "backup_missing",
              "backup_modified", "mcp_divergent"} :
         CASE d = "legacy_manifest"   -> m.legacy
           [] d = "generated_missing" -> \E p \in DOMAIN owned : ~Has(t, p)
           [] d = "generated_modified" -> \E p \in DOMAIN owned : t[p] \notin {None, owned[p]}
           [] d = "backup_missing"    -> m.kept # None /\ ~Has(t, Kept)
           [] d = "backup_modified"   -> m.kept # None /\ t[Kept] \notin {None, m.kept}
           [] OTHER                   -> ~McpStands(t, m)}

(* The bridge, when the sources are not known and when they are.           *)
BlindBridgeDrift(t, m) ==
  IF ~Bridged(m) \/ t[Bridge] = m.target THEN {}
  ELSE IF m.owner = "user-owned" THEN {"bridge_diverged"}
  ELSE IF Has(t, Bridge) THEN {"generated_modified"} ELSE {"generated_missing"}

BridgeDriftOfFile(t, m) ==
  IF ~Bridged(m) \/ t[Bridge] = m.target THEN {}
  ELSE IF m.owner = "user-owned" THEN {"bridge_diverged"} ELSE {"generated_modified"}

BridgeDrift(t, m) ==
  IF ~Bridged(m) THEN {}
  ELSE IF m.owner = "user-owned"
       THEN IF t[Bridge] = Merged(kit, t) THEN {} ELSE {"bridge_diverged"}
  ELSE (IF ~Has(t, Bridge) THEN {"generated_missing"}
        ELSE IF t[Bridge] \notin {m.target, Merged(kit, t)} THEN {"generated_modified"} ELSE {})
       \cup (IF m.source # Merged(kit, t) THEN {"source_changed"} ELSE {})

NativeDriftOfPrimary(t, s, was, now) ==
  IF now.files[Primary] = was.files[Primary] /\ t[Src(s, Primary)] = now.files[Primary] THEN {}
  ELSE {"source_changed"}

(* What changed of one skill since it was recorded.                        *)
NativeDrift(t, s, was, now) ==
  UNION {IF was.files[f] = None /\ now.files[f] = None THEN {}
         ELSE IF now.files[f] = None THEN {"source_changed"}
         ELSE IF ~Has(t, Src(s, f)) THEN {"source_missing"}
         ELSE IF now.files[f] = was.files[f] /\ t[Src(s, f)] = now.files[f] THEN {}
         ELSE {"source_changed"} : f \in Piece}

(* Hashes of outputs are held against the renderer's only where they were  *)
(* found to be the same, which says nothing.                               *)
SkillDrift(t, m, sel, s) ==
  LET was  == m.skills[s]
      now  == sel.skills[s]
      will == Rendering(now)
      paths(files) == {f \in Piece : files[f] # None}
      same == /\ was.native = Native(now)
              /\ was.native \/ paths(was.files) = paths(will)
  IN  (IF ~was.native /\ was.canonical # now.files[Primary] THEN {"source_changed"} ELSE {})
      \cup (IF Native(now)
            THEN NativeDrift(t, s, [was EXCEPT !.files = IF was.native THEN @ ELSE [f \in Piece |-> None]], now)
            ELSE {})
      \cup (IF ~same THEN {"target_set_changed"}
            ELSE IF ~Native(now) /\ will[Extra] # None /\ was.files[Extra] # will[Extra] THEN {"source_changed"}
            ELSE {})

Freshness(t, m, sel) ==
  LET both == {s \in Skill : m.skills[s] # None /\ sel.skills[s] # None}
  IN  FileDrift(t, m) \cup BridgeDrift(t, m)
      \cup UNION {SkillDrift(t, m, sel, s) : s \in both}
      \cup (IF m.registry # sel.registry THEN {"registry_changed"} ELSE {})
      \cup (IF \E s \in Skill : (m.skills[s] = None) # (sel.skills[s] = None)
            THEN {"inventory_changed"} ELSE {})
      \cup (IF Bridged(m) /\ m.mcp.state = "generated" /\ m.mcp.hash # Generated
            THEN {"target_set_changed"} ELSE {})

Verdict(state, blocked, drift) == [state |-> state, blocked |-> blocked, drift |-> drift]

StatusOf(t, m, sel) ==
  LET spoilt(d) == d \cap {"generated_modified", "backup_modified"} # {}
      blind == FileDrift(t, m) \cup BlindBridgeDrift(t, m) \cup {"source_missing"}
      drift == Freshness(t, m, sel)
  IN  CASE BadOverride(t) -> Verdict("invalid", TRUE, {})
        [] m = None -> Verdict(IF Distrusted THEN "conflict" ELSE "not_installed", Distrusted, {})
        [] sel.error = "invalid" -> Verdict("invalid", TRUE, {"source_invalid"})
        [] sel.error = "missing" ->
             Verdict(IF Distrusted \/ spoilt(blind) THEN "conflict" ELSE "stale", TRUE, blind)
        [] OTHER ->
             Verdict(IF Distrusted \/ spoilt(drift) THEN "conflict"
                     ELSE IF drift \subseteq {"bridge_diverged", "mcp_divergent"} THEN "current" ELSE "stale",
                     Distrusted \/ spoilt(drift) \/ "source_missing" \in drift, drift)

Status == StatusOf(tree, manifest, Selection(tree, manifest))

-----------------------------------------------------------------------------
(* What the manifest has of a path, and what the kit has there.            *)
Entered(m, p) ==
  CASE m = None    -> None
    [] p = Reg     -> m.registry
    [] p = Bridge  -> m.target
    [] p = Mcp     -> m.mcp.hash
    [] p[1] = (IF site.codex THEN "canonical" ELSE "client") ->
         IF m.skills[p[2]] = None THEN None ELSE m.skills[p[2]].files[p[3]]
    [] OTHER -> None

Offered(t, p) ==
  CASE p = Reg    -> IF Has(t, Reg) THEN Refreshed(kit, t[Reg]) ELSE None
    [] p = Bridge -> Merged(kit, t)
    [] p[1] = "canonical" -> kit.ship[p[2]][p[3]]
    [] OTHER -> None

(* What the operator has written over what is installed, until it is what  *)
(* the kit ships, or a source of which the manifest knows nothing.         *)
Sourced(p) == p = Reg \/ p[1] = "canonical"
Forgotten(m, p) == Sourced(p) /\ Entered(m, p) = None
StillMine(next) ==
  {p \in mine : tree[p] # Offered(tree, p) /\ ~Forgotten(manifest, p) /\ ~Forgotten(next, p)}

PlansInit ==
  /\ kit \in Kits
  /\ \E start \in Founding : site = start[1] /\ tree = start[2] /\ manifest = start[3]
  /\ trust = manifest
  /\ mine = {} /\ fresh = FALSE /\ writes = 0

(* apply_plan *)
Apply(action, plan) ==
  /\ plan.act \in {"adopt", "write"}
  /\ tree' = After(plan) /\ manifest' = plan.next /\ trust' = plan.next
  /\ mine' = StillMine(plan.next)
  /\ fresh' = (plan.act = "write" /\ action # "uninstall")
  /\ UNCHANGED <<site, kit, writes>>

Install   == Apply("install", PlanInstall("install"))
Repair    == Apply("repair", PlanInstall("repair"))
Uninstall == Apply("uninstall", PlanUninstall)

Counted == writes < MaxWrites /\ writes' = writes + 1 /\ fresh' = FALSE /\ UNCHANGED site

Forget ==
  /\ Counted /\ trust # None /\ trust' = None
  /\ UNCHANGED <<kit, tree, manifest, mine>>

Upgrade ==
  /\ Counted /\ \E k \in Kits \ {kit} : kit' = k
  /\ UNCHANGED <<tree, manifest, trust, mine>>

(* The operator writes or removes a file, or loses the manifest.           *)
Operate ==
  /\ Counted
  /\ \E w \in Writes :
       /\ tree[w[1]] # w[2] /\ tree' = [tree EXCEPT ![w[1]] = w[2]]
       /\ mine' = IF Forgotten(manifest, w[1]) \/ w[2] \in Pristine \cup {None, Entered(manifest, w[1])}
                  THEN mine \ {w[1]} ELSE mine \cup {w[1]}
  /\ UNCHANGED <<kit, manifest, trust>>

Lose ==
  /\ Counted /\ manifest # None /\ manifest' = None
  /\ UNCHANGED <<kit, tree, trust, mine>>

PlansNext == Install \/ Repair \/ Uninstall \/ Forget \/ Upgrade \/ Operate \/ Lose

PlansSpec == PlansInit /\ [][PlansNext]_planVars

-----------------------------------------------------------------------------
(* What the operator wrote over a recorded file, or where nothing was      *)
(* recorded, survives every install, repair and uninstall, whatever        *)
(* releases, overrides and forgotten records come in between: the hash it  *)
(* was adopted with has to be carried along (_select_codex_context_sources,*)
(* _build_manifest), and be compared on every path by every plan.          *)
EditsSurvive ==
  [][writes' = writes => \A p \in mine : tree'[p] = tree[p]]_planVars

(* A context's own skill file which is not the kit's was recorded as found *)
(* and is replaced by the next install, or was not recorded at all.        *)
Stray(t, m) ==
  /\ site.codex /\ site.context
  /\ \/ t[Reg] = m.registry /\ t[Reg] # Refreshed(kit, t[Reg])
     \/ \E s \in Shipped(kit), f \in Piece :
          /\ m.skills[s] # None /\ m.skills[s].native
          /\ t[Src(s, f)] # kit.ship[s][f]
          /\ t[Src(s, f)] = None \/ m.skills[s].files[f] \in {None, t[Src(s, f)]}

(* A reinstall right after an install writes nothing, neither files nor    *)
(* manifest ("A clean reinstall performs no writes and preserves the       *)
(* manifest bytes", docs/reference/agent-adapters.md:175); except for      *)
(* Stray files.                                                            *)
ReinstallIsClean ==
  fresh /\ ~Stray(tree, manifest) => PlanInstall("install").act = "nothing"

(* Status and plan, computed apart from each other, agree (_derive_freshness,*)
(* _prepare_install_or_repair): of what status calls current, repair writes *)
(* no file and is not refused; except for a bridge that it takes back.     *)
Healing == Bridged(manifest) /\ manifest.owner = "user-owned" /\ tree[Bridge] \in Pristine
WritesNothing(plan) == plan.act \in {"nothing", "write"} /\ DOMAIN plan.writing = {}
CurrentIsRepaired ==
  Status.state = "current" /\ ~Healing => WritesNothing(PlanInstall("repair"))

(* What an install records of Codex's own skills is there: "The next       *)
(* install restores the current packaged skill behavior", docs/guides/     *)
(* personalization.md:163, where it gives back an overridden skill.        *)
RecordedIsThere ==
  fresh => \A s \in Skill : manifest.skills[s] # None /\ manifest.skills[s].native =>
             \A f \in Piece : manifest.skills[s].files[f] # None => Has(tree, Src(s, f))
=============================================================================
