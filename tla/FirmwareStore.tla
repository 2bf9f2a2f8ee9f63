---------------------------- MODULE FirmwareStore ----------------------------
(***************************************************************************)
(* The directory of firmware files (internal/firmware/service.go): which   *)
(* file a request means, and which file is the newest of a flavor.         *)
(*                                                                         *)
(* A file is known by the directory it lies in and by its name, and a name *)
(* is abstracted to what parseFirmwareFilename finds in it: a flavor and a *)
(* version.  A version is the sequence of the parts splitVersion returns;  *)
(* Spelling gives the characters of the parts in use, because paths, and   *)
(* parts that are not numbers, are compared as text.                       *)
(***************************************************************************)
EXTENDS Integers, Sequences, FiniteSets, SequencesExt

CONSTANTS Files       \* files that may lie in the directory

VARIABLES shelf       \* files ListFirmware finds

NoFile == [dir |-> "none", flavor |-> "none", version |-> <<>>]

(***************************************************************************)
(* Text.                                                                   *)
(***************************************************************************)
Spelling == [p \in {"8", "9", "10", "rc3", "cust1"} |->
               CASE p = "8" -> <<56>> [] p = "9" -> <<57>> [] p = "10" -> <<49, 48>>
                 [] p = "rc3" -> <<114, 99, 51>> [] p = "cust1" -> <<99, 117, 115, 116, 49>>]

\* Numbers follow a dot, words follow a dash.
IsNumber(p) == p \in {"8", "9", "10"}
Separator(p) == IF IsNumber(p) THEN <<46>> ELSE <<45>>
Value(p) == CASE p = "8" -> 8 [] p = "9" -> 9 [] p = "10" -> 10

\* Go's < on strings.
TextBelow(s, t) ==
    \E i \in 1..Len(t) : /\ \A j \in 1..(i - 1) : j <= Len(s) /\ s[j] = t[j]
                         /\ i > Len(s) \/ s[i] < t[i]

TextOf(version) == FlattenSeq([i \in 1..Len(version) |->
                       (IF i = 1 THEN <<118>> ELSE Separator(version[i])) \o Spelling[version[i]]])

(***************************************************************************)
(* compareVersions: the sign of the comparison.                            *)
(***************************************************************************)
isPrerelease(p) == p \in {"rc3"}

\* Mutant of comparePart: numbers are compared as text as well.
comparePartText(p, q) ==
    IF isPrerelease(p) # isPrerelease(q) THEN IF isPrerelease(p) THEN -1 ELSE 1
    ELSE IF TextBelow(Spelling[p], Spelling[q]) THEN -1 ELSE 1

\* Two different parts at the same place.
comparePart(p, q) ==
    IF IsNumber(p) /\ IsNumber(q) THEN Value(p) - Value(q)
    ELSE IF isPrerelease(p) # isPrerelease(q) THEN IF isPrerelease(p) THEN -1 ELSE 1
    ELSE IF TextBelow(Spelling[p], Spelling[q]) THEN -1 ELSE 1

\* One version continues the other: a release is newer than its candidates
\* and older than its customisations.
compareTails(a, b) ==
    CASE Len(a) < Len(b) /\ (\E i \in (Len(a) + 1)..Len(b) : isPrerelease(b[i])) -> 1
      [] Len(a) > Len(b) /\ (\E i \in (Len(b) + 1)..Len(a) : isPrerelease(a[i])) -> -1
      [] OTHER -> Len(a) - Len(b)

Common(a, b) == 1..(IF Len(a) < Len(b) THEN Len(a) ELSE Len(b))

compareVersions(a, b) ==
    IF \A i \in Common(a, b) : a[i] = b[i] THEN compareTails(a, b)
    ELSE LET i == CHOOSE k \in Common(a, b) : a[k] # b[k] /\ \A j \in 1..(k - 1) : a[j] = b[j]
         IN  comparePart(a[i], b[i])

\* Whether a device already runs a file.
firmwareMatches(current, file) == compareVersions(current, file.version) = 0

(***************************************************************************)
(* Which file.  ListFirmware sorts by relative path, so the first file of  *)
(* equally new ones wins.                                                  *)
(***************************************************************************)
PathBelow(f, g) == \/ f.dir = "" /\ g.dir # ""
                   \/ f.dir = g.dir /\ f # g /\ TextBelow(TextOf(f.version), TextOf(g.version))

OfFlavor(flavor) == {f \in shelf : f.flavor = flavor}

First(files) == CHOOSE f \in files : \A g \in files : f = g \/ PathBelow(f, g)
LastListed(files) == CHOOSE f \in files : \A g \in files : f = g \/ PathBelow(g, f)

Newest(files) == {f \in files : \A g \in files : compareVersions(f.version, g.version) >= 0}

\* FindFirmwareForFlavor and SelectFirmwareForDevice: scan in path order and
\* replace the best only by a strictly newer file; scan is the best of those
\* listed so far.
FindFirmwareForFlavor(flavor) ==
    LET files == OfFlavor(flavor)
        scan[listed \in SUBSET files] ==
            IF listed = {} THEN NoFile
            ELSE LET f == LastListed(listed)
                     best == scan[listed \ {f}]
                 IN  IF best = NoFile \/ compareVersions(f.version, best.version) > 0 THEN f ELSE best
    IN  scan[files]

FindFirmwareByVersion(version, flavor) ==
    LET hits == {f \in OfFlavor(flavor) : compareVersions(f.version, version) = 0}
    IN  IF hits = {} THEN NoFile ELSE First(hits)

\* References: an id names a relative path, a name must be unique, and an
\* absolute path is neither.
SameName(f, g) == f.flavor = g.flavor /\ f.version = g.version

resolveFirmwareReference(ref) ==
    CASE ref.by = "id"   -> IF ref.file \in shelf THEN ref.file ELSE NoFile
      [] ref.by = "name" -> LET hits == {f \in shelf : SameName(f, ref.file)}
                            IN  IF Cardinality(hits) = 1 THEN CHOOSE f \in hits : TRUE ELSE NoFile
      [] ref.by = "path" -> NoFile

\* UpgradeDevice's choice for a device of a flavor.
FileFor(ref, flavor) ==
    CASE ref.by = "auto"    -> FindFirmwareForFlavor(flavor)
      [] ref.by = "version" -> FindFirmwareByVersion(ref.file.version, flavor)
      [] OTHER              -> resolveFirmwareReference(ref)

(***************************************************************************)
(* The operations on the directory.                                        *)
(***************************************************************************)
\* Uploads go to the top directory and never replace a file.
SaveFirmware(f) == f.dir = "" /\ f \notin shelf /\ shelf' = shelf \cup {f}

DeleteFirmware(ref) == /\ resolveFirmwareReference(ref) # NoFile
                       /\ shelf' = shelf \ {resolveFirmwareReference(ref)}

StoreInit == shelf \in SUBSET {f \in Files : f.dir # ""}

ShelfNext == \E f \in Files : \/ SaveFirmware(f)
                              \/ \E by \in {"id", "name"} : DeleteFirmware([by |-> by, file |-> f])

-----------------------------------------------------------------------------
Versions == {f.version : f \in Files}

\* Files lie in the top directory or in one other, and two of them differ in
\* their paths.  The comparison is taken to have no cycle on the versions in
\* use, or there need not be a newest: nothing in compareVersions rules one out.
ASSUME FilesAssumption ==
    /\ IsFiniteSet(Files) /\ NoFile \notin Files
    /\ \A f \in Files :
         /\ f = [dir |-> f.dir, flavor |-> f.flavor, version |-> f.version]
         /\ f.version \in Seq(DOMAIN Spelling)
    /\ \A f, g \in Files :
         /\ f.dir = "" \/ g.dir = "" \/ f.dir = g.dir
         /\ TextOf(f.version) = TextOf(g.version) => f.version = g.version
    /\ \A a, b, c \in Versions :
         compareVersions(a, b) > 0 /\ compareVersions(b, c) > 0 => compareVersions(a, c) > 0

\* SelectionSound: on the versions in use compareVersions is a total order in
\* which 10 follows 9, candidates come before and customisations after their
\* release; whatever files are there, the automatic choice for a flavor is a
\* newest one of that flavor; a version, an id or a name stands for a file
\* that matches it, or for none; and every file can be reached by its id.
SelectionSound ==
    /\ \A a, b \in Versions : /\ (compareVersions(a, b) = 0) = (a = b)
                              /\ (compareVersions(a, b) > 0) = (compareVersions(b, a) < 0)
    /\ \A a, b, c \in Versions :
         compareVersions(a, b) > 0 /\ compareVersions(b, c) > 0 => compareVersions(a, c) > 0
    /\ compareVersions(<<"8", "10">>, <<"8", "9">>) > 0
    /\ compareVersions(<<"8", "9">>, <<"8", "9", "rc3">>) > 0
    /\ \A f \in shelf :
         /\ FindFirmwareForFlavor(f.flavor) \in Newest(OfFlavor(f.flavor))
         /\ firmwareMatches(f.version, FindFirmwareByVersion(f.version, f.flavor))
         /\ resolveFirmwareReference([by |-> "id", file |-> f]) = f
         /\ SameName(f, FileFor([by |-> "name", file |-> f], f.flavor))
               \/ \E g \in shelf : g # f /\ SameName(f, g)

=============================================================================
