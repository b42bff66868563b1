----------------------------- MODULE Contracts -----------------------------
(***************************************************************************)
(* Rival contracts: the specification mails of archive/ that state a       *)
(* contract, the projection that selects the current one of each contract  *)
(* (harness/filter/rival_contract.go) and `rival export reasons --wave`    *)
(* (cmd/rival_export_reasons.go), over an archive that grows and is pruned.*)
(*                                                                         *)
(* A file is a number, in the order of the names; the mail's name is the   *)
(* file's.  Bodies are only compared; of the sections it matters which are *)
(* there.                                                                  *)
(*                                                                         *)
(* A list of mails is a function from places, which are numbers, to files; *)
(* part of a list is given by its places.                                  *)
(***************************************************************************)
EXTENDS Integers, FiniteSets

CONSTANTS
  Files,     \* numbers from 1 on, in the order of the D-Mail names
  Contents,  \* what a file may hold
  None

ContractsAssumption ==
  /\ IsFiniteSet(Files) /\ Files \subseteq Nat
  /\ \A m \in Contents : m.revision \in Int

VARIABLE archive  \* for each file None or its mail

vars == archive

TypeOK == archive \in [Files -> Contents \cup {None}]

Init == archive = [f \in Files |-> None]

(* A specification is archived, sent by this tool or received.             *)
Archived(f) ==
  /\ archive[f] = None
  /\ \E m \in Contents : archive' = [archive EXCEPT ![f] = m]

(* archive-prune deletes the file.                                         *)
Pruned(f) ==
  /\ archive[f] # None
  /\ archive' = [archive EXCEPT ![f] = None]

Next == \E f \in Files : Archived(f) \/ Pruned(f)

Spec == Init /\ [][Next]_vars
---------------------------------------------------------------------------
Sections == {"Intent", "Domain", "Decisions", "Steps", "Boundaries", "Evidence"}
DomainStyles == {"event-sourced", "generic", "mixed"}

ParseRivalContractMetadata(m) ==
  /\ m.schema = "rival-contract-v1"
  /\ m.id \notin {"", "spec-name_0a1b2c3d"}
  /\ m.revision > 0
  /\ m.style \in DomainStyles \cup {""}

ParseRivalContractBody(m) == m.titled /\ Sections \subseteq m.sections

Parses(m) == ParseRivalContractMetadata(m) /\ ParseRivalContractBody(m)

Present == {f \in Files : archive[f] # None}

(* The files that are there, in the order of their names.                  *)
ReadArchiveDMails == [f \in Present |-> f]

FilesAt(s, places) == {s[i] : i \in places}

(* The candidates for contract `id` among the mails s.                     *)
Group(s, id) ==
  {i \in DOMAIN s : /\ archive[s[i]].kind = "specification"
                    /\ Parses(archive[s[i]])
                    /\ archive[s[i]].id = id}

Top(s, group) ==
  {i \in group : \A j \in group : archive[s[j]].revision <= archive[s[i]].revision}

Least(numbers) == CHOOSE n \in numbers : \A m \in numbers : n <= m

Same(f, g) ==
  archive[f].body = archive[g].body /\ archive[f].supersedes = archive[g].supersedes

BodiesEqual(s, top) == \A i \in top : Same(s[i], s[Least(top)])

(* The keys that MarshalDMail puts into the mails are hashes over the name *)
(* too: those of two files differ.                                         *)
Key(f) == IF archive[f].keyed THEN f ELSE None

Duplicates(s, top) ==
  LET keys == {Key(f) : f \in FilesAt(s, top)}
  IN  IF None \in keys THEN BodiesEqual(s, top) ELSE \A k, l \in keys : k = l

(* Mutant: the first of the duplicates.                                    *)
PickFirst(s, top) == s[Least(top)]

PickDeterministic(s, top) == Least(FilesAt(s, top))

Conflict(reason, names) == [reason |-> reason, names |-> names]

(* The winner's predecessor must be there, in the group and older.         *)
SupersedesLineage(winner, files) ==
  LET prev == archive[winner].supersedes
  IN  \/ prev = None
      \/ prev \in files /\ archive[prev].revision < archive[winner].revision

(* What the projection of the mails s says of one contract: None, a        *)
(* conflict, or the file of the current revision.                          *)
ProjectCurrentContracts(s, id) ==
  LET group  == Group(s, id)
      top    == Top(s, group)
      winner == PickDeterministic(s, top)
  IN  IF group = {}
      THEN [current |-> None, conflict |-> None]
      ELSE IF (\E i, j \in top : i # j) /\ ~Duplicates(s, top)
      THEN [current |-> None, conflict |-> Conflict("same-revision", FilesAt(s, top))]
      ELSE IF ~SupersedesLineage(winner, FilesAt(s, group))
      THEN [current |-> None,
            conflict |-> Conflict("lineage", {winner, archive[winner].supersedes})]
      ELSE [current |-> winner, conflict |-> None]

(* The smallest of the conflict's names, if it has a contract to export.   *)
PickConflictFallback(names) ==
  LET pick == Least(names)
  IN  IF pick \in Files /\ archive[pick] # None /\ Parses(archive[pick])
      THEN pick ELSE None

(* The file whose contract is exported for a wave, or None: an error.      *)
Export(wave, allowConflict) ==
  LET p == ProjectCurrentContracts(ReadArchiveDMails, wave)
  IN  IF p.conflict = None THEN p.current
      ELSE IF allowConflict THEN PickConflictFallback(p.conflict.names)
      ELSE None

(* `--input`: one file, read for itself; its kind is not asked for.        *)
LoadRivalFromInputFile(f) ==
  IF archive[f] # None /\ Parses(archive[f]) THEN f ELSE None
---------------------------------------------------------------------------
ContractIDs == {m.id : m \in Contents}

Orders == {s \in [Present -> Present] : FilesAt(s, Present) = Present}

(* The projection does not depend on the order in which the archive is     *)
(* read, although duplicates collapse, keys may be missing and conflicts   *)
(* list names.                                                             *)
OrderDoesNotMatter ==
  \A id \in ContractIDs, s \in Orders :
    ProjectCurrentContracts(s, id) = ProjectCurrentContracts(ReadArchiveDMails, id)

(* The revision exported for a wave never falls, and its contract is not   *)
(* replaced by another of its revision, unless a file was pruned: late,    *)
(* repeated and invalid mails can only withhold it.                        *)
RevisionsRise ==
  (\E f \in Files : archive[f] = None /\ archive'[f] # None) =>
    \A w \in ContractIDs :
      LET old == Export(w, FALSE)
          new == Export(w, FALSE)'
      IN  old # None /\ new # None
          => \/ archive[old].revision < archive'[new].revision
             \/ /\ archive[old].revision = archive'[new].revision
                /\ archive[old].body = archive'[new].body

(* What `--wave` exports, by the projection or by the fallback of a        *)
(* conflict, is a file that `--input` would export as well.                *)
ModesAgree ==
  \A w \in ContractIDs, allow \in BOOLEAN :
    LET f == Export(w, allow)
    IN  f # None => f \in Files /\ LoadRivalFromInputFile(f) = f

ContractsAreStable == [](OrderDoesNotMatter /\ ModesAgree) /\ [][RevisionsRise]_vars

(* What `--wave` exports is a contract of that wave, with --allow-conflict *)
(* too.  It is not: a conflict of lineage names the superseded mail, which *)
(* may be another contract's (see the findings).                           *)
ExportIsOfTheWave ==
  \A w \in ContractIDs, allow \in BOOLEAN :
    Export(w, allow) # None => archive[Export(w, allow)].id = w
===========================================================================
