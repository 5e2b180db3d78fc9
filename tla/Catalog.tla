------------------------------ MODULE Catalog ------------------------------
(***************************************************************************)
(* The academic catalogue: a university, a college, a department, the      *)
(* ladders (academic structures with their rungs) filed under them, the    *)
(* ladder a student is shown, cached in Redis, and the student's own       *)
(* profile (catalog.service.ts, academic-system.ts, academic-placement.ts, *)
(* users.service.ts).                                                      *)
(*                                                                         *)
(* Every write ends by deleting the cached lists, in one step with it      *)
(* here; a Redis that refuses the deletion keeps them until they lapse,    *)
(* and is not modelled.  A list that is not in the cache is loaded from    *)
(* the database and stored in a later step.                                *)
(***************************************************************************)
EXTENDS Handlers, Naturals, FiniteSets, FiniteSetsExt

CONSTANTS
  MaxLadders,    \* bound: structures ever created, numbered in order of creation
  Positions,       \* the positions on a ladder
  Listed,        \* the scopes whose lists are asked for
  MaxEdits       \* bound: writes to the catalogue

Units == {"university", "college", "department"}
Scopes == Units \cup {"platform"}
Kinds == {"YEAR", "LEVEL"}
Ladders == 1..MaxLadders

ASSUME CatalogAssumption == Listed \subseteq Scopes /\ MaxLadders \in Nat /\ MaxEdits \in Nat

VARIABLES
  unit,      \* unit[u]: isActive and deletedAt
  system,    \* the university's default and the college's override
  ladder,    \* ladder[s]: scope, kind, isActive and the rungs, retired ones included
  pinned,    \* the ladder the college is pinned to (academicStructureFaculty), or 0
  cached,    \* cached[c]: the rungs listed for a scope, or NotListed
  filing,    \* the rung a student, a course or a material is filed on
  edits,     \* writes so far
  outdated   \* history: a list was stored, or a check used, that a write had overtaken

catalogVars == <<unit, system, ladder, pinned, cached, filing, edits, outdated>>

NoLadder == [scope |-> "none", kind |-> "YEAR", active |-> FALSE, on |-> {}, retired |-> {}]
NoRung == <<0, 0>>
NotListed == {NoRung}

CatalogInit ==
  /\ unit = [u \in Units |-> [active |-> TRUE, deleted |-> FALSE]]
  /\ system \in [default : {"YEAR", "none"}, override : {"none"}]
  /\ ladder = [s \in Ladders |-> NoLadder] /\ pinned = 0
  /\ cached = [c \in Listed |-> NotListed]
  /\ filing = NoRung
  /\ edits = 0 /\ outdated = FALSE

-----------------------------------------------------------------------------
\* The scopes resolveAcademicStructure tries, nearest first.
Candidates(c) ==
  CASE c = "department" -> <<"department", "college", "university", "platform">>
    [] c = "college"    -> <<"college", "university", "platform">>
    [] c = "university" -> <<"university", "platform">>
    [] OTHER            -> <<"platform">>

Filed(c) == {s \in Ladders : ladder[s].scope = c /\ ladder[s].active}

\* The nearest candidate with an active ladder, the oldest of them.
Nearest(c) ==
  LET near == {i \in DOMAIN Candidates(c) : Filed(Candidates(c)[i]) # {}}
  IN  IF near = {} THEN 0 ELSE Min(Filed(Candidates(c)[Min(near)]))

Pinned == pinned # 0 /\ ladder[pinned].active

\* resolveAcademicStructure: the department's own, the college's pin, then the nearest.
resolveAcademicStructure(c) ==
  IF c = "department" /\ Filed(c) # {} THEN Min(Filed(c))
  ELSE IF c \in {"department", "college"} /\ Pinned THEN pinned
  ELSE Nearest(c)

\* academicYears: the rungs in use of that ladder.
academicYears(c) ==
  LET s == resolveAcademicStructure(c) IN IF s = 0 THEN {} ELSE {<<s, o>> : o \in ladder[s].on}

\* resolveAcademicSystem: the college's override, else the university's default.
resolveAcademicSystem(c) ==
  CASE c = "platform" -> "none"
    [] c \in {"college", "department"} /\ system.override # "none" -> system.override
    [] OTHER -> system.default

\* assertStructureKindMatchesSystem; a unit without a system takes any ladder.
KindMatches(c, kind) == resolveAcademicSystem(c) \in {kind, "none"}

-----------------------------------------------------------------------------
\* What has been loaded and not stored, or checked and not written.
Holding == \E p \in Calls : call[p].op \in {"store", "file"}

\* Mutant: the lists of the units are not under the prefix that is deleted.
bust_Platform == cached' = [c \in Listed |-> IF c = "platform" THEN NotListed ELSE cached[c]]

\* bust: every write to the catalogue ends by deleting the lists.
bust == cached' = [c \in Listed |-> NotListed]

Edit ==
  /\ edits < MaxEdits /\ edits' = edits + 1
  /\ bust
  /\ outdated' = (outdated \/ Holding)
  /\ UNCHANGED <<filing, call>>

Begin(p, op, saw, who) == At(p, "idle") /\ Go(p, op, saw, who) /\ UNCHANGED catalogVars

\* updateUniversity / updateFaculty / updateDepartment: a deleted university can still be
\* changed, a deleted college or department cannot.
updateUnit(u, b) ==
  /\ u = "university" \/ ~unit[u].deleted
  /\ unit' = [unit EXCEPT ![u].active = b]
  /\ Edit /\ UNCHANGED <<system, ladder, pinned>>

\* deactivate / reactivate.
setActive(u, b) ==
  /\ unit' = [unit EXCEPT ![u] = [active |-> b, deleted |-> ~b]]
  /\ Edit /\ UNCHANGED <<system, ladder, pinned>>

\* updateUniversity changes the default; no ladder moves with it.
setDefault(kind) ==
  /\ system' = [system EXCEPT !.default = kind]
  /\ Edit /\ UNCHANGED <<unit, ladder, pinned>>

\* Not the system the college inherits anyway.
setFacultyAcademicSystemOverride(kind) ==
  /\ ~unit["college"].deleted
  /\ kind # "none" => kind # system.default
  /\ system' = [system EXCEPT !.override = kind]
  /\ Edit /\ UNCHANGED <<unit, ladder, pinned>>

\* createAcademicStructure: one for each unit, any number for the platform.  It checks ...
BeginCreateStructure(p, c, kind) ==
  /\ \E s \in Ladders : ladder[s] = NoLadder
  /\ c # "platform" => \A s \in Ladders : ladder[s].scope # c
  /\ KindMatches(c, kind)
  /\ Begin(p, "createStructure", kind, c)

\* ... and creates.
createAcademicStructure(p) ==
  LET new == {s \in Ladders : ladder[s] = NoLadder} IN
  /\ At(p, "createStructure") /\ new # {}
  /\ ladder' = [ladder EXCEPT ![Min(new)] =
                  [NoLadder EXCEPT !.scope = call[p].who, !.kind = call[p].saw, !.active = TRUE]]
  /\ edits < MaxEdits /\ edits' = edits + 1
  /\ bust /\ outdated' = (outdated \/ Holding)
  /\ End(p)
  /\ UNCHANGED <<unit, system, pinned, filing>>

updateAcademicStructure(s) ==
  /\ ladder[s] # NoLadder
  /\ \/ \E b \in BOOLEAN : ladder' = [ladder EXCEPT ![s].active = b]
     \/ \E kind \in Kinds : KindMatches(ladder[s].scope, kind) /\ ladder' = [ladder EXCEPT ![s].kind = kind]
  /\ Edit /\ UNCHANGED <<unit, system, pinned>>

\* replaceStructureEntries: the rungs left out are retired, never deleted.
replaceStructureEntries(s, kept) ==
  /\ ladder[s] # NoLadder
  /\ ladder' = [ladder EXCEPT ![s].on = kept, ![s].retired = (@ \cup ladder[s].on) \ kept]
  /\ Edit /\ UNCHANGED <<unit, system, pinned>>

\* createAcademicYear: one more rung, by default of the oldest platform ladder.
createAcademicYear(s, o) ==
  /\ ladder[s] # NoLadder /\ o \notin ladder[s].on \cup ladder[s].retired
  /\ ladder' = [ladder EXCEPT ![s].on = @ \cup {o}]
  /\ Edit /\ UNCHANGED <<unit, system, pinned>>

\* setActive of a rung.
setRungActive(s, o) ==
  /\ o \in ladder[s].on \cup ladder[s].retired
  /\ ladder' = [ladder EXCEPT ![s].on = IF o \in @ THEN @ \ {o} ELSE @ \cup {o},
                              ![s].retired = IF o \in @ THEN @ \ {o} ELSE @ \cup {o}]
  /\ Edit /\ UNCHANGED <<unit, system, pinned>>

\* setStructureFacultyOverrides pins the college to a ladder, whoever had it, or frees it.
setStructureFacultyOverrides(s, wanted) ==
  /\ ladder[s] # NoLadder
  /\ wanted => ~unit["college"].deleted
  /\ pinned' = IF wanted THEN s ELSE IF pinned = s THEN 0 ELSE pinned
  /\ Edit /\ UNCHANGED <<unit, system, ladder>>

-----------------------------------------------------------------------------
\* remember: the list is not in the cache and is loaded ...
LoadYears(p, c) ==
  /\ cached[c] = NotListed
  /\ Begin(p, "store", academicYears(c), c)

\* ... and stored, whatever happened since.
StoreYears(p) ==
  /\ At(p, "store")
  /\ cached' = [cached EXCEPT ![call[p].who] = call[p].saw]
  /\ End(p)
  /\ UNCHANGED <<unit, system, ladder, pinned, filing, edits, outdated>>

\* The lists live for a while.
CacheLapses(c) ==
  /\ cached[c] # NotListed
  /\ cached' = [cached EXCEPT ![c] = NotListed]
  /\ UNCHANGED <<unit, system, ladder, pinned, filing, edits, outdated, call>>

InUse(u) == unit[u].active /\ ~unit[u].deleted

\* assertAcademicSelectionIsCoherent: units in use, and a rung in use of their ladder.
assertAcademicSelectionIsCoherent(r) ==
  (\A u \in Units : InUse(u)) /\ r \in academicYears("department")

\* checkAcademicStructure: a course is filed under units that exist, a material under units in use.
checkAcademicStructure(of, c) ==
  IF of = "material" THEN \A u \in {"university", "college", c} : InUse(u)
  ELSE \A u \in {"college", c} : ~unit[u].deleted

\* checkYearInLadder: a course may be filed on a retired rung, a material may not.
checkYearInLadder(of, c, r) ==
  LET s == resolveAcademicStructure(c) IN
  /\ s # 0 /\ r[1] = s
  /\ r[2] \in ladder[s].on \cup (IF of = "course" THEN ladder[s].retired ELSE {})

\* register or updateOwnProfile, a course or a material created or changed: checked ...
BeginFile(p, of, c, r) ==
  /\ IF of = "student" THEN c = "department" /\ assertAcademicSelectionIsCoherent(r)
     ELSE checkAcademicStructure(of, c) /\ checkYearInLadder(of, c, r)
  /\ Begin(p, "file", r, "none")

\* ... and written.
file(p) ==
  /\ At(p, "file")
  /\ filing' = call[p].saw
  /\ End(p)
  /\ UNCHANGED <<unit, system, ladder, pinned, cached, edits, outdated>>

-----------------------------------------------------------------------------
CatalogEdit ==
  \/ \E u \in Units, b \in BOOLEAN : updateUnit(u, b) \/ setActive(u, b)
  \/ \E kind \in Kinds : setDefault(kind)
  \/ \E kind \in Kinds \cup {"none"} : setFacultyAcademicSystemOverride(kind)
  \/ \E s \in Ladders :
       \/ updateAcademicStructure(s)
       \/ \E kept \in SUBSET Positions : replaceStructureEntries(s, kept)
       \/ \E o \in Positions : createAcademicYear(s, o) \/ setRungActive(s, o)
       \/ \E b \in BOOLEAN : setStructureFacultyOverrides(s, b)

CatalogNext ==
  \/ CatalogEdit
  \/ \E p \in Calls :
       \/ \E c \in Scopes, kind \in Kinds : BeginCreateStructure(p, c, kind)
       \/ createAcademicStructure(p)
       \/ \E c \in Listed : LoadYears(p, c)
       \/ StoreYears(p)
       \/ \E of \in {"student", "course", "material"}, c \in {"college", "department"},
            r \in Ladders \X Positions : BeginFile(p, of, c, r)
       \/ file(p)
  \/ \E c \in Listed : CacheLapses(c)

CatalogSpec == HandlersInit /\ CatalogInit /\ [][CatalogNext]_<<call, catalogVars>>

-----------------------------------------------------------------------------
\* A rung that a student, a course or a material has been filed on is never gone: it is at
\* most retired, whatever is done to its ladder, even between the check and the write
\* (replaceStructureEntries, createAcademicYear, setActive).  And the years offered to a
\* student are those of the ladder that applies to them: no change of the catalogue, however
\* far from the scope that is listed, leaves a list behind, unless it was loaded before the
\* change and stored after it (academicYears, bust, remember).
ListedYearsAreCurrent ==
  /\ filing # NoRung => filing[2] \in ladder[filing[1]].on \cup ladder[filing[1]].retired
  /\ ~outdated => \A c \in Listed : cached[c] \in {NotListed, academicYears(c)}
=============================================================================
