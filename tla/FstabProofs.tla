------------------------------- MODULE FstabProofs -------------------------------
(***************************************************************************)
(* For every system, every list of actions and every number of runs, kills   *)
(* and faults: after the fstab action the table still boots the system, the    *)
(* line for the EFI partition fits the one efifix makes, and auditd enlarges    *)
(* what fstab names, if it is full and there is room.                         *)
(***************************************************************************)
EXTENDS RepairScriptsProofs, FiniteSetTheorems, WellFoundedInduction

------------------------------------------------------------------------------
(* The lines at some positions: in their order, each once.                   *)

Rank(S, i) == Cardinality({j \in S : j < i})

LEMMA RankGrows ==
    ASSUME NEW S \in SUBSET Nat, IsFiniteSet(S), NEW i \in S
    PROVE  /\ Rank(S, i) \in 0..(Cardinality(S) - 1) /\ Cardinality(S) \in Nat
           /\ \A k \in S : Rank(S, k) = Rank(S, i) => k = i
<1>1. \A k \in S : LET T == {j \in S : j < k}
                   IN  IsFiniteSet(T) /\ Cardinality(T) \in Nat /\ Cardinality(T) <= Cardinality(S)
  BY FS_Subset, FS_CardinalityType
<1>2. Cardinality(S) \in Nat
  BY FS_CardinalityType
<1>3. Rank(S, i) # Cardinality(S)
  <2>1. {j \in S : j < i} # S
    OBVIOUS
  <2> QED  BY <2>1, FS_Subset DEF Rank
<1>4. \A k, l \in S : k < l => Rank(S, k) # Rank(S, l)
  <2> TAKE k, l \in S
  <2> HAVE k < l
  <2> DEFINE T == {j \in S : j < k}
             U == {j \in S : j < l}
  <2>1. T \in SUBSET U /\ T # U
    <3>1. \A j \in S : j \in Nat
      OBVIOUS
    <3>2. k \in U /\ k \notin T
      BY <3>1
    <3>3. \A j \in S : j < k => j < l
      BY <3>1
    <3> QED  BY <3>2, <3>3
  <2>2. IsFiniteSet(U)
    BY <1>1
  <2> HIDE DEF T, U
  <2>3. Cardinality(U) # Cardinality(T)
    BY <2>1, <2>2, FS_Subset
  <2> QED  BY <2>3 DEF Rank, T, U
<1>5. \A k \in S : Rank(S, k) = Rank(S, i) => k = i
  <2> TAKE k \in S
  <2>1. k \in Nat /\ i \in Nat
    OBVIOUS
  <2>2. k < i \/ i < k \/ k = i
    BY <2>1
  <2> QED  BY <1>4, <2>2
<1>6. Rank(S, i) \in Nat /\ Rank(S, i) <= Cardinality(S)
  BY <1>1 DEF Rank
<1> QED  BY <1>2, <1>3, <1>5, <1>6

LEMMA PositionIn ==
    ASSUME NEW S \in SUBSET Nat, IsFiniteSet(S), NEW n \in 1..Cardinality(S)
    PROVE  Position(S, n) \in S /\ Rank(S, Position(S, n)) = n - 1
<1> DEFINE T == 0..(Cardinality(S) - 1)
           f == [i \in S |-> Rank(S, i)]
<1>1. Cardinality(S) \in Nat
  BY FS_CardinalityType
<1>2. IsFiniteSet(T) /\ Cardinality(T) = Cardinality(S)
  <2>1. 0 \in Int /\ Cardinality(S) - 1 \in Int
    BY <1>1
  <2>2. /\ IsFiniteSet(T)
        /\ Cardinality(T) = IF 0 > Cardinality(S) - 1 THEN 0 ELSE Cardinality(S) - 1 - 0 + 1
    BY <2>1, FS_Interval
  <2> HIDE DEF T
  <2> QED  BY <1>1, <2>2
<1>3. f \in [S -> T] /\ \A i, k \in S : f[i] = f[k] => i = k
  BY RankGrows
<1>4. f \in Injection(S, T)
  BY <1>3 DEF Injection, IsInjective
<1>5. f \in Surjection(S, T)
  <2> HIDE DEF f, T
  <2> QED  BY <1>2, <1>4, FS_Injection
<1>6. n - 1 \in T
  BY <1>1
<1>7. \E i \in S : f[i] = n - 1
  BY <1>5, <1>6 DEF Surjection
<1>8. \E i \in S : Rank(S, i) = n - 1
  BY <1>7
<1> QED  BY <1>8 DEF Position, Rank

LEMMA LinesFrom ==
    ASSUME NEW lines \in Seq(Line), NEW S \in SUBSET DOMAIN lines,
           NEW res, res = LinesAt(lines, S)
    PROVE  /\ res \in Seq(Line)
           /\ \A n \in DOMAIN res : Position(S, n) \in S /\ res[n] = lines[Position(S, n)]
           /\ \A n, m \in DOMAIN res : Position(S, n) = Position(S, m) => n = m
<1>1. IsFiniteSet(S) /\ S \in SUBSET Nat
  <2>1. Len(lines) \in Nat /\ DOMAIN lines = 1..Len(lines)
    OBVIOUS
  <2>2. IsFiniteSet(1..Len(lines))
    BY <2>1, FS_Interval
  <2> QED  BY <2>1, <2>2, FS_Subset
<1>2. Cardinality(S) \in Nat
  BY <1>1, FS_CardinalityType
<1>3. \A n \in 1..Cardinality(S) : Position(S, n) \in S /\ Rank(S, Position(S, n)) = n - 1
  BY <1>1, PositionIn
<1>4. DOMAIN res = 1..Cardinality(S) /\ \A n \in DOMAIN res : res[n] = lines[Position(S, n)]
  BY DEF LinesAt
<1>5. res \in Seq(Line)
  <2>1. \A n \in 1..Cardinality(S) : lines[Position(S, n)] \in Line
    BY <1>3
  <2> QED  BY <1>2, <2>1 DEF LinesAt
<1> QED  BY <1>2, <1>3, <1>4, <1>5

LEMMA LinesOne ==
    ASSUME NEW lines \in Seq(Line), NEW r \in DOMAIN lines, NEW res, res = LinesAt(lines, {r})
    PROVE  res = <<lines[r]>>
<1>1. Cardinality({r}) = 1
  BY FS_Singleton
<1>2. DOMAIN res = 1..1
  BY <1>1 DEF LinesAt
<1>3. res \in Seq(Line) /\ \A n \in DOMAIN res : Position({r}, n) \in {r} /\ res[n] = lines[Position({r}, n)]
  BY LinesFrom
<1>4. res[1] = lines[r]
  <2>1. 1 \in DOMAIN res
    BY <1>2
  <2> QED  BY <1>3, <2>1
<1>5. Len(res) = 1
  BY <1>2, <1>3
<1> QED  BY <1>3, <1>4, <1>5

LEMMA Concat ==
    ASSUME NEW s \in Seq(Line), NEW t \in Seq(Line), NEW res, res = s \o t
    PROVE  /\ res \in Seq(Line)
           /\ \A i \in DOMAIN s : i \in DOMAIN res /\ res[i] = s[i]
           /\ \A i \in DOMAIN t : Len(s) + i \in DOMAIN res /\ res[Len(s) + i] = t[i]
           /\ \A i \in DOMAIN res : \/ i \in DOMAIN s
                                    \/ i - Len(s) \in DOMAIN t /\ i = Len(s) + (i - Len(s))
<1>1. Len(s) \in Nat /\ Len(t) \in Nat /\ DOMAIN s = 1..Len(s) /\ DOMAIN t = 1..Len(t)
  OBVIOUS
<1>2. res \in Seq(Line) /\ DOMAIN res = 1..(Len(s) + Len(t))
  BY <1>1
<1>3. \A i \in DOMAIN s : i \in DOMAIN res /\ res[i] = s[i]
  BY <1>1, <1>2
<1>4. \A i \in DOMAIN t : Len(s) + i \in DOMAIN res /\ res[Len(s) + i] = t[i]
  BY <1>1, <1>2
<1>5. \A i \in DOMAIN res : \/ i \in DOMAIN s
                            \/ i - Len(s) \in DOMAIN t /\ i = Len(s) + (i - Len(s))
  BY <1>1, <1>2
<1> QED  BY <1>2, <1>3, <1>4, <1>5

------------------------------------------------------------------------------
(* The table that fstab-impl.sh takes apart and writes *)

\* No second line for the places that matter, and no line that names the wrong thing: by
\* each name the action can use, if the root has one, the root is found again.
OneAt(lines, p) == \A i, j \in DOMAIN lines : lines[i].at = p /\ lines[j].at = p => i = j
Nameable(l)     == IF sys.lvm THEN l.by = "volume" ELSE l.by = "uuid" \/ sys.seen = RootUuid
Proper(l) ==
    /\ RootNameable => RightName(l) /\ (l.at = "/" => Nameable(l))
    /\ l.by = "resource" => l.at = "/mnt"
    /\ l.by = "bek" => l.at = "bek"
Single == {"/", "/boot/efi", "/var"}
Table(lines) ==
    /\ lines \in Seq(Line)
    /\ \A p \in Single : OneAt(lines, p)
    /\ \A i \in DOMAIN lines : Proper(lines[i])
HasRoot(lines) == \E i \in DOMAIN lines : lines[i].at = "/"

\* A table of these places only.
Part(lines, S) == Table(lines) /\ \A i \in DOMAIN lines : lines[i].at \in S

LEMMA Filtered ==
    ASSUME NEW lines, Table(lines), NEW S \in SUBSET DOMAIN lines, NEW P,
           \A i \in S : lines[i].at \in P,
           NEW res, res = LinesAt(lines, S)
    PROVE  Part(res, P)
<1>1. lines \in Seq(Line)
  BY DEF Table
<1>2. /\ res \in Seq(Line)
      /\ \A n \in DOMAIN res : Position(S, n) \in S /\ res[n] = lines[Position(S, n)]
      /\ \A n, m \in DOMAIN res : Position(S, n) = Position(S, m) => n = m
  BY <1>1, LinesFrom
<1>3. \A p \in Single : OneAt(res, p)
  BY <1>2 DEF Table, OneAt
<1>4. \A n \in DOMAIN res : Proper(res[n]) /\ res[n].at \in P
  BY <1>2 DEF Table
<1> QED  BY <1>2, <1>3, <1>4 DEF Part, Table

LEMMA Joined ==
    ASSUME NEW s, NEW S, Part(s, S), NEW t, NEW T, Part(t, T), S \cap T \cap Single = {},
           NEW res, res = s \o t, NEW U, U = S \cup T
    PROVE  Part(res, U) /\ (HasRoot(s) \/ HasRoot(t) => HasRoot(res))
<1>1. s \in Seq(Line) /\ t \in Seq(Line)
  BY DEF Part, Table
<1>2. /\ res \in Seq(Line)
      /\ \A i \in DOMAIN s : i \in DOMAIN res /\ res[i] = s[i]
      /\ \A i \in DOMAIN t : Len(s) + i \in DOMAIN res /\ res[Len(s) + i] = t[i]
      /\ \A i \in DOMAIN res : \/ i \in DOMAIN s
                               \/ i - Len(s) \in DOMAIN t /\ i = Len(s) + (i - Len(s))
  BY <1>1, Concat
<1>3. \A i \in DOMAIN res : \/ i \in DOMAIN s /\ res[i] = s[i]
                            \/ i - Len(s) \in DOMAIN t /\ res[i] = t[i - Len(s)]
  BY <1>2
<1>4. \A i \in DOMAIN res : Proper(res[i]) /\ res[i].at \in U
  BY <1>3 DEF Part, Table
<1>5. ASSUME NEW p \in Single PROVE OneAt(res, p)
  <2> SUFFICES ASSUME NEW i \in DOMAIN res, NEW j \in DOMAIN res, res[i].at = p, res[j].at = p
               PROVE  i = j
    BY DEF OneAt
  <2>1. \/ i \in DOMAIN s /\ j \in DOMAIN s
        \/ i - Len(s) \in DOMAIN t /\ j - Len(s) \in DOMAIN t
    BY <1>3, <1>5 DEF Part
  <2>2. CASE i \in DOMAIN s /\ j \in DOMAIN s
    BY <2>2, <1>2, <1>5 DEF Part, Table, OneAt
  <2>3. CASE i - Len(s) \in DOMAIN t /\ j - Len(s) \in DOMAIN t
    BY <2>3, <1>2, <1>5 DEF Part, Table, OneAt
  <2> QED  BY <2>1, <2>2, <2>3
<1>6. HasRoot(s) \/ HasRoot(t) => HasRoot(res)
  BY <1>2 DEF HasRoot
<1> QED  BY <1>2, <1>4, <1>5, <1>6 DEF Part, Table

LEMMA Retold ==
    ASSUME NEW p \in Places, NEW lines, Part(lines, {p}), NEW uuid \in Nat,
           lines # <<>> => Proper([at |-> p, by |-> "uuid", ref |-> uuid]),
           NEW res, res = Translated(lines, uuid)
    PROVE  Part(res, {p}) /\ (HasRoot(lines) => HasRoot(res))
<1>1. lines \in Seq(Line) /\ \A i \in DOMAIN lines : lines[i] \in Line /\ lines[i].at = p
  BY DEF Part, Table
<1>2. DOMAIN res = DOMAIN lines
  BY DEF Translated
<1>3. ASSUME NEW i \in DOMAIN res
      PROVE  res[i] = [at |-> p, by |-> "uuid", ref |-> uuid]
  <2>1. res[i] = [lines[i] EXCEPT !.by = "uuid", !.ref = uuid]
    BY <1>2, <1>3 DEF Translated
  <2> QED  BY <2>1, <1>1, <1>2, <1>3 DEF Line
<1>4. [at |-> p, by |-> "uuid", ref |-> uuid] \in Line
  BY DEF Line, Kinds
<1>5. res \in Seq(Line)
  <2>1. Len(lines) \in Nat /\ DOMAIN lines = 1..Len(lines)
    BY <1>1
  <2>2. res = [i \in 1..Len(lines) |-> res[i]]
    BY <2>1 DEF Translated
  <2> QED  BY <1>2, <1>3, <1>4, <2>1, <2>2
<1>6. \A i \in DOMAIN res : Proper(res[i]) /\ res[i].at = p
  <2>1. DOMAIN lines # {} => lines # <<>>
    OBVIOUS
  <2> QED  BY <1>2, <1>3, <2>1
<1>7. \A q \in Single : OneAt(res, q)
  BY <1>1, <1>2, <1>3 DEF Part, Table, OneAt
<1>8. HasRoot(lines) => HasRoot(res)
  BY <1>1, <1>2, <1>3 DEF HasRoot
<1> QED  BY <1>5, <1>6, <1>7, <1>8 DEF Part, Table

\* What is at one place in the copy that fstab is written from.
LEMMA FromSaved ==
    ASSUME Table(Saved), NEW p, NEW res, res = At(Saved, p)
    PROVE  Part(res, {p})
<1>1. LET S == {i \in DOMAIN Saved : Saved[i].at = p}
      IN  S \in SUBSET DOMAIN Saved /\ \A i \in S : Saved[i].at \in {p}
  OBVIOUS
<1> QED  BY <1>1, Filtered DEF At

LEMMA EmptyPart == \A S : Part(<<>>, S)
BY DEF Part, Table, OneAt

\* What awk finds of it.
LEMMA PrintedPart ==
    ASSUME Table(Saved), NEW p
    PROVE  Part(Printed(p), {p}) /\ (Printed(p) = At(Saved, p) \/ ~gawk)
<1>1. CASE gawk
  BY <1>1, FromSaved DEF Printed
<1>2. CASE ~gawk
  BY <1>2, EmptyPart DEF Printed
<1> QED  BY <1>1, <1>2

LEMMA VolumePart ==
    ASSUME Table(Saved), NEW p
    PROVE  Part(Volume(p), {p})
<1>1. LET S == {i \in DOMAIN Saved : Saved[i].by = "volume" /\ Saved[i].at = p}
      IN  S \in SUBSET DOMAIN Saved /\ \A i \in S : Saved[i].at \in {p}
  OBVIOUS
<1> QED  BY <1>1, Filtered DEF Volume

LEMMA KindPart ==
    ASSUME Table(Saved)
    PROVE  Part(PrintedBy("resource"), {"/mnt"}) /\ Part(PrintedBy("bek"), {"bek"})
<1>1. /\ LET S == {i \in DOMAIN Saved : Saved[i].by = "resource"}
         IN  S \in SUBSET DOMAIN Saved /\ \A i \in S : Saved[i].at \in {"/mnt"}
      /\ LET S == {i \in DOMAIN Saved : Saved[i].by = "bek"}
         IN  S \in SUBSET DOMAIN Saved /\ \A i \in S : Saved[i].at \in {"bek"}
  BY DEF Table, Proper
<1> QED  BY <1>1, Filtered DEF PrintedBy

LEMMA OneLine ==
    ASSUME NEW lines, Table(lines), NEW p \in Single, NEW r \in DOMAIN lines, lines[r].at = p
    PROVE  At(lines, p) = <<lines[r]>>
<1>1. {i \in DOMAIN lines : lines[i].at = p} = {r}
  BY DEF Table, OneAt
<1>2. lines \in Seq(Line)
  BY DEF Table
<1> QED  BY <1>1, <1>2, LinesOne DEF At

LEMMA EntryPart ==
    ASSUME Table(Saved), NEW p \in {"/boot", "/boot/efi"}, NEW mounted \in BOOLEAN, NEW uuid \in Nat,
           p = "/boot" => uuid = BootUuid,
           NEW res, res = Entry(p, mounted, uuid)
    PROVE  Part(res, {p})
<1> DEFINE old == Printed(p)
           new == [at |-> p, by |-> "uuid", ref |-> uuid]
<1>1. Part(old, {p})
  BY PrintedPart
<1>2. res \in {old, <<>>, <<new>>, Translated(old, uuid)}
  <2>1. res = CASE ByUuid(old) -> old
                [] ~ByUuid(old) /\ ~mounted -> <<>>
                [] mounted /\ old = <<>> -> <<new>>
                [] mounted /\ old # <<>> /\ ~ByUuid(old) -> Translated(old, uuid)
    BY DEF Entry
  <2>2. old = <<>> => ~ByUuid(old)
    BY DEF ByUuid
  <2> HIDE DEF old, new
  <2> QED  BY <2>1, <2>2
<1>3. p \in Places /\ Proper(new) /\ new \in Line
  BY DEF Places, Proper, RightName, Line, Kinds
<1>4. Part(<<new>>, {p})
  BY <1>3 DEF Part, Table, OneAt
<1>5. Part(Translated(old, uuid), {p})
  BY <1>1, <1>3, Retold
<1> HIDE DEF old, new
<1> QED  BY <1>1, <1>2, <1>4, <1>5, EmptyPart

\* The root's line is written again, and names what it named, if awk finds it.
RootLines == IF sys.lvm THEN Volume("/")
             ELSE IF ByUuid(Printed("/")) THEN Printed("/")
             ELSE Translated(Printed("/"), sys.seen)
LEMMA RootPart ==
    ASSUME Table(Saved), sys.seen \in Nat, NEW res, res = RootLines
    PROVE  Part(res, {"/"}) /\ (RootNameable /\ HasRoot(Saved) /\ gawk => HasRoot(res))
<1> DEFINE old == Printed("/")
           S == {i \in DOMAIN Saved : Saved[i].by = "volume" /\ Saved[i].at = "/"}
<1>1. Part(old, {"/"})
  BY PrintedPart
<1>2. ASSUME NEW r \in DOMAIN Saved, Saved[r].at = "/"
      PROVE  /\ gawk => HasRoot(old)
             /\ RootNameable => Nameable(Saved[r])
  <2>1. At(Saved, "/") = <<Saved[r]>>
    BY <1>2, OneLine DEF Single
  <2>2. HasRoot(At(Saved, "/"))
    BY <1>2, <2>1 DEF HasRoot
  <2>3. gawk => old = At(Saved, "/")
    BY PrintedPart
  <2> QED  BY <1>2, <2>2, <2>3 DEF Table, Proper
<1>3. CASE sys.lvm
  <2>1. res = LinesAt(Saved, S)
    BY <1>3 DEF RootLines, Volume
  <2>3. Part(res, {"/"})
    BY <1>3, VolumePart DEF RootLines
  <2>4. ASSUME RootNameable, NEW r \in DOMAIN Saved, Saved[r].at = "/"
        PROVE  HasRoot(res)
    <3>1. Saved[r].by = "volume"
      BY <2>4, <1>2, <1>3 DEF Nameable
    <3>2. S = {r}
      BY <2>4, <3>1 DEF Table, OneAt, Single
    <3>3. res = <<Saved[r]>>
      BY <2>1, <3>2, LinesOne DEF Table
    <3> QED  BY <2>4, <3>3 DEF HasRoot
  <2> QED  BY <2>3, <2>4 DEF HasRoot
<1>4. CASE ~sys.lvm /\ ByUuid(old)
  <2>1. res = old
    BY <1>4 DEF RootLines
  <2>2. HasRoot(Saved) /\ gawk => HasRoot(old)
    BY <1>2 DEF HasRoot
  <2> QED  BY <2>1, <2>2, <1>1
<1>5. CASE ~sys.lvm /\ ~ByUuid(old)
  <2>1. res = Translated(old, sys.seen)
    BY <1>5 DEF RootLines
  <2>2. ASSUME RootNameable, old # <<>>
        PROVE  sys.seen = RootUuid
    <3>1. old \in Seq(Line) /\ \A i \in DOMAIN old : old[i].at = "/" /\ Proper(old[i])
      BY <1>1 DEF Part, Table
    <3> HIDE DEF old
    <3>2. 1 \in DOMAIN old
      BY <3>1, <2>2
    <3> QED  BY <3>1, <3>2, <2>2, <1>5 DEF Proper, Nameable, ByUuid
  <2>3. old # <<>> => Proper([at |-> "/", by |-> "uuid", ref |-> sys.seen])
    BY <2>2, <1>5 DEF Proper, RightName, Nameable
  <2>4. Part(res, {"/"}) /\ (HasRoot(old) => HasRoot(res))
    BY <1>1, <2>1, <2>3, Retold DEF Places
  <2>5. HasRoot(Saved) /\ gawk => HasRoot(old)
    BY <1>2 DEF HasRoot
  <2> QED  BY <2>4, <2>5
<1> QED  BY <1>3, <1>4, <1>5

\* The last lines: those of the resource disk, of the BEK volume and of the volumes.
LastSteps == {"fstabResource", "fstabBek", "fstabHome", "fstabOpt", "fstabTmp", "fstabUsr", "fstabVar"}
LastPlaces == {"/mnt", "bek", "/home", "/opt", "/tmp", "/usr", "/var"}
Appended(p) == \E t : fstab' = fstab \o t /\ Part(t, {p})
LEMMA LastWritten ==
    ASSUME Table(Saved), WriteResource \/ WriteBek \/ WriteVolume
    PROVE  /\ \E p \in LastPlaces : Appended(p) /\ (p = "/var" => pc = "fstabVar")
           /\ pc \in LastSteps /\ pc' \in (LastSteps \ {"fstabResource"}) \cup {"next"}
           /\ pc = "fstabVar" => pc' = "next"
<1>1. CASE WriteResource
  BY <1>1, KindPart DEF WriteResource, Write, Goto, LastSteps, LastPlaces, Appended
<1>2. CASE WriteBek
  BY <1>2, KindPart DEF WriteBek, Write, Goto, LastSteps, LastPlaces, Appended
<1>3. CASE WriteVolume
  <2>1. /\ VolumeOf[pc] \in LastPlaces /\ (VolumeOf[pc] = "/var" => pc = "fstabVar")
        /\ pc \in LastSteps /\ AfterIt[pc] \in (LastSteps \ {"fstabResource"}) \cup {"next"}
        /\ pc = "fstabVar" => AfterIt[pc] = "next"
    BY <1>3 DEF WriteVolume, VolumeOf, AfterIt, LastSteps, LastPlaces
  <2>2. fstab' = fstab \o Volume(VolumeOf[pc]) /\ pc' = AfterIt[pc]
    BY <1>3 DEF WriteVolume, Write, Goto
  <2>3. Appended(VolumeOf[pc])
    BY <2>2, VolumePart DEF Appended
  <2> QED  BY <2>1, <2>2, <2>3
<1> QED  BY <1>1, <1>2, <1>3

Emptied == {"fstabPre", "fstabWrite", "fstabGawk", "fstabAfter", "fstabRoot"}
Unmade  == {"fstabPre", "fstabWrite", "fstabGawk"}
SoFar   == {"/", "/boot", "/boot/efi", "/mnt", "bek", "/home", "/opt", "/tmp", "/usr"}
Rebuilt == SoFar \cup {"/var"}

\* The root's line is there to be found, and awk finds it.
Firm == RootNameable /\ "fstab" \notin torn /\ (sys.gawk \/ faults = 0)

\* While fstab is built its copy is a proper table, with the root in it if no kill has hit
\* the building before; and outside, or once the root's line is written, fstab is.
TabInv ==
    /\ sys.gawk \/ (faults = 0 /\ pc \in FstabSteps \ Unmade) => gawk
    /\ Orderly(sys.fstab) =>
        /\ Table(fstab) /\ (VarFirst(sys.fstab) => VarFirst(fstab))
        /\ pc \in FstabSteps => Table(Saved)
        /\ pc \in Emptied => fstab = <<>>
        /\ pc = "fstabBoot" => Part(fstab, {"/"})
        /\ pc = "fstabEfi" => Part(fstab, {"/", "/boot"})
        /\ pc \in LastSteps => Part(fstab, SoFar)
        /\ Firm => /\ pc \in FstabSteps => HasRoot(Saved)
                   /\ pc \notin Emptied => HasRoot(fstab)

\* As many lines are found later as earlier, or fewer.
LEMMA FirmBefore ==
    ASSUME UNCHANGED sys, FaultsGrow, faults \in Nat, torn \subseteq torn'
    PROVE  (Firm' => Firm) /\ (faults' = 0 => faults = 0)
<1>1. RootNameable' => RootNameable
  BY DEF RootNameable
<1> QED  BY <1>1 DEF Firm, FaultsGrow

\* A table is one as long as the system is the same.
LEMMA Steady ==
    ASSUME sys' = sys
    PROVE  /\ Orderly(sys.fstab)' <=> Orderly(sys.fstab)
           /\ VarFirst(sys.fstab)' <=> VarFirst(sys.fstab)
           /\ RootNameable' <=> RootNameable
           /\ Table(fstab)' <=> Table(fstab')
           /\ Table(Saved)' <=> Table(Saved')
           /\ \A S : Part(fstab, S)' <=> Part(fstab', S)
BY DEF Orderly, VarFirst, RootNameable, Part, Table, OneAt, Proper, RightName, Nameable

LEMMA TabInit == Init => TabInv
<1> SUFFICES ASSUME Init PROVE TabInv
  OBVIOUS
<1>0. pc = "idle" /\ (sys.gawk => gawk)
  BY DEF Init
<1>7. CASE ~Orderly(sys.fstab)
  BY <1>0, <1>7 DEF TabInv, FstabSteps
<1>8. SUFFICES ASSUME Orderly(sys.fstab) PROVE TabInv
  BY <1>7
<1>1. fstab = sys.fstab /\ sys \in System
  BY SystemAssumption DEF Init
<1>2. fstab \in Seq(Line)
  BY <1>1 DEF System
<1>3. \A p \in Single : OneAt(fstab, p)
  BY <1>1, <1>8 DEF OneAt, Orderly
<1>4. ASSUME NEW i \in DOMAIN fstab PROVE Proper(fstab[i])
  <2>1. RightName(fstab[i])
    BY <1>1, <1>4, <1>8 DEF Orderly, RightName
  <2>2. RootNameable /\ fstab[i].at = "/" => Nameable(fstab[i])
    BY <1>1, <1>4, <1>8 DEF Orderly, RootNameable, Nameable
  <2> QED  BY <1>1, <1>4, <1>8, <2>1, <2>2 DEF Orderly, Proper
<1>5. RootNameable => HasRoot(fstab)
  BY <1>1 DEF RootNameable, HasRoot
<1> QED  BY <1>0, <1>1, <1>2, <1>3, <1>4, <1>5 DEF TabInv, Table, FstabSteps, Emptied, LastSteps, Firm

\* What has no part in fstab and its copies.
LEMMA TabElsewhere ==
    ASSUME TabInv, UNCHANGED <<sys, fstab, gawk, torn>>, FaultsGrow, faults \in Nat,
           pc \notin FstabSteps, pc' \notin FstabSteps
    PROVE  TabInv'
<1>1. Table(fstab)' <=> Table(fstab)
  BY Steady
<1>2. HasRoot(fstab)' <=> HasRoot(fstab)
  BY DEF HasRoot
<1>3. VarFirst(fstab)' <=> VarFirst(fstab)
  BY DEF VarFirst
<1>4. Firm' => Firm
  BY FirmBefore
<1> QED  BY <1>1, <1>2, <1>3, <1>4, Steady DEF TabInv, FstabSteps, Emptied, LastSteps

LEMMA TabSave ==
    ASSUME TabInv, faults \in Nat, Save
    PROVE  TabInv'
<1>1. pc = "fstabSave" /\ pc' = "fstabPre" /\ UNCHANGED <<sys, runs, torn, gawk, faults>>
  BY DEF Save, Goto, run
<1>2. stamp' \in DOMAIN copies' /\ copies'[stamp'] = fstab
  BY DEF Save
<1>3. fstab' = <<>> /\ Saved' = fstab
  BY <1>2 DEF Save, Saved
<1>4. ASSUME Orderly(sys.fstab)'
      PROVE  Table(Saved)' /\ Table(fstab)' /\ VarFirst(fstab)' /\ (Firm' => HasRoot(Saved)')
  <2>1. Table(fstab) /\ (Firm => HasRoot(fstab))
    BY <1>1, <1>4, Steady DEF TabInv, Emptied
  <2>2. Table(Saved)' /\ Table(fstab)'
    BY <1>1, <1>3, <2>1, EmptyPart, Steady DEF Part
  <2>3. Firm' => HasRoot(Saved)'
    BY <1>1, <1>3, <2>1, FirmBefore DEF HasRoot, FaultsGrow
  <2>4. VarFirst(fstab)'
    BY <1>3 DEF VarFirst
  <2> QED  BY <2>2, <2>3, <2>4
<1> QED  BY <1>1, <1>3, <1>4 DEF TabInv, Emptied, Unmade, LastSteps

\* The steps before the first line is written.
LEMMA TabEmptied ==
    ASSUME TabInv, faults \in Nat, FaultsGrow, UNCHANGED <<sys, fstab, copies, stamp, torn>>,
           pc \in Emptied, pc' \in Emptied,
           sys.gawk \/ (faults' = 0 /\ pc' \notin Unmade) => gawk'
    PROVE  TabInv'
<1>1. Saved' = Saved
  BY DEF Saved
<1>2. /\ Table(fstab)' <=> Table(fstab)
      /\ Table(Saved)' <=> Table(Saved)
  BY <1>1, Steady
<1>3. HasRoot(Saved)' <=> HasRoot(Saved)
  BY <1>1 DEF HasRoot
<1>4. VarFirst(fstab)' <=> VarFirst(fstab)
  BY DEF VarFirst
<1>5. Firm' => Firm
  BY FirmBefore
<1> QED  BY <1>2, <1>3, <1>4, <1>5, Steady DEF TabInv, FstabSteps, Emptied, LastSteps

LEMMA TabWrite ==
    ASSUME TabInv, sys.seen \in Nat, efi \in [uuid : Nat, mounted : BOOLEAN], sys.boot \in BOOLEAN,
           WriteRoot \/ WriteBoot \/ WriteEfi \/ WriteResource \/ WriteBek \/ WriteVolume
    PROVE  TabInv'
<1>1. UNCHANGED <<sys, torn, copies, stamp, gawk, faults>> /\ pc \in FstabSteps \ Unmade /\ Saved' = Saved
  BY VolumeSteps DEF WriteRoot, WriteBoot, WriteEfi, WriteResource, WriteBek, WriteVolume, VolumeOf,
     Write, Goto, run, FstabSteps, Unmade, Saved
<1>2. sys'.gawk \/ (faults' = 0 /\ pc' \in FstabSteps \ Unmade) => gawk'
  BY <1>1 DEF TabInv
<1> SUFFICES ASSUME Orderly(sys.fstab)' PROVE TabInv'
  BY <1>2 DEF TabInv
<1>3. /\ Table(fstab) /\ Table(Saved)
      /\ Firm => gawk /\ RootNameable /\ HasRoot(Saved) /\ (pc \notin Emptied => HasRoot(fstab))
  BY <1>1, Steady DEF TabInv, Firm
<1>4. \/ /\ pc = "fstabRoot" /\ pc' = "fstabBoot"
         /\ Part(fstab', {"/"}) /\ (Firm => HasRoot(fstab'))
      \/ /\ pc = "fstabBoot" /\ pc' = "fstabEfi"
         /\ Part(fstab', {"/", "/boot"}) /\ (Firm => HasRoot(fstab'))
      \/ /\ pc = "fstabEfi" /\ pc' = "fstabResource"
         /\ Part(fstab', SoFar) /\ (Firm => HasRoot(fstab'))
      \/ /\ pc \in LastSteps /\ pc' \in (LastSteps \ {"fstabResource"}) \cup {"next"}
         /\ Part(fstab', Rebuilt) /\ (pc' \in LastSteps => Part(fstab', SoFar))
         /\ (Firm => HasRoot(fstab'))
  <2>1. CASE WriteRoot
    <3>1. pc = "fstabRoot" /\ pc' = "fstabBoot" /\ fstab' = fstab \o RootLines
      BY <2>1 DEF WriteRoot, Write, Goto, RootLines
    <3>2. fstab = <<>>
      BY <1>1, <3>1, Steady DEF TabInv, Emptied
    <3>3. Part(RootLines, {"/"}) /\ (RootNameable /\ HasRoot(Saved) /\ gawk => HasRoot(RootLines))
      BY <1>3, RootPart
    <3>4. Part(<<>>, {})
      BY EmptyPart
    <3>5. Part(fstab', {"/"}) /\ (HasRoot(RootLines) => HasRoot(fstab'))
      BY <3>1, <3>2, <3>3, <3>4, Joined
    <3> QED  BY <1>3, <3>1, <3>3, <3>5
  <2>2. CASE WriteBoot
    <3> DEFINE res == Entry("/boot", sys.boot, BootUuid)
    <3>1. pc = "fstabBoot" /\ pc' = "fstabEfi" /\ fstab' = fstab \o res
      BY <2>2 DEF WriteBoot, Write, Goto
    <3>2. Part(fstab, {"/"})
      BY <1>1, <3>1, Steady DEF TabInv
    <3>3. BootUuid \in Nat
      BY DEF BootUuid
    <3> HIDE DEF res
    <3>4. Part(res, {"/boot"})
      BY <1>3, <3>3, EntryPart DEF res
    <3>5. {"/"} \cap {"/boot"} \cap Single = {} /\ {"/"} \cup {"/boot"} = {"/", "/boot"}
      OBVIOUS
    <3>6. Part(fstab', {"/", "/boot"}) /\ (HasRoot(fstab) => HasRoot(fstab'))
      BY <3>1, <3>2, <3>4, <3>5, Joined
    <3> QED  BY <1>3, <3>1, <3>6 DEF Emptied
  <2>3. CASE WriteEfi
    <3> DEFINE res == Entry("/boot/efi", efi.mounted, efi.uuid)
               Before == {"/", "/boot"}
               All == {"/", "/boot", "/boot/efi"}
    <3>1. pc = "fstabEfi" /\ pc' = "fstabResource" /\ fstab' = fstab \o res
      BY <2>3 DEF WriteEfi, Write, Goto
    <3>2. Part(fstab, Before)
      BY <1>1, <3>1, Steady DEF TabInv
    <3>3. efi.mounted \in BOOLEAN /\ efi.uuid \in Nat
      OBVIOUS
    <3> HIDE DEF res
    <3>4. Part(res, {"/boot/efi"})
      BY <1>3, <3>3, EntryPart DEF res
    <3>5. /\ Before \cap {"/boot/efi"} \cap Single = {} /\ All = Before \cup {"/boot/efi"}
          /\ All \subseteq SoFar
      BY DEF SoFar
    <3> HIDE DEF Before, All
    <3>6. Part(fstab', All) /\ (HasRoot(fstab) => HasRoot(fstab'))
      BY <3>1, <3>2, <3>4, <3>5, Joined
    <3>7. Part(fstab', SoFar)
      BY <3>5, <3>6 DEF Part
    <3> QED  BY <1>3, <3>1, <3>6, <3>7 DEF Emptied
  <2>4. CASE WriteResource \/ WriteBek \/ WriteVolume
    <3>1. /\ pc \in LastSteps /\ pc' \in (LastSteps \ {"fstabResource"}) \cup {"next"}
          /\ pc = "fstabVar" => pc' = "next"
      BY <1>3, <2>4, LastWritten
    <3>2. PICK p \in LastPlaces : Appended(p) /\ (p = "/var" => pc = "fstabVar")
      BY <1>3, <2>4, LastWritten
    <3>3. PICK t : fstab' = fstab \o t /\ Part(t, {p})
      BY <3>2 DEF Appended
    <3>4. Part(fstab, SoFar)
      BY <1>1, <3>1, Steady DEF TabInv
    <3> DEFINE All == SoFar \cup {p}
    <3>5. /\ SoFar \cap {p} \cap Single = {} /\ All \subseteq Rebuilt
          /\ p # "/var" => All = SoFar
      BY DEF LastPlaces, SoFar, Single, Rebuilt
    <3>6. Part(fstab', All) /\ (HasRoot(fstab) => HasRoot(fstab'))
      <4>1. All = SoFar \cup {p}
        OBVIOUS
      <4> HIDE DEF All
      <4> QED  BY <3>3, <3>4, <3>5, <4>1, Joined
    <3> HIDE DEF All
    <3>7. Part(fstab', Rebuilt)
      BY <3>5, <3>6 DEF Part
    <3>8. pc' \in LastSteps => Part(fstab', SoFar)
      BY <3>1, <3>2, <3>5, <3>6 DEF LastSteps
    <3> QED  BY <1>3, <3>1, <3>6, <3>7, <3>8 DEF Emptied, LastSteps
  <2> QED  BY <2>1, <2>2, <2>3, <2>4
<1>5. Part(fstab', Rebuilt)
  BY <1>4 DEF Part, Rebuilt, SoFar
<1>6. Table(fstab)' /\ VarFirst(fstab)'
  <2>1. \A i \in DOMAIN fstab' : fstab'[i].at \notin {"/var/log", "/var/log/audit"}
    BY <1>5 DEF Part, Rebuilt, SoFar
  <2> QED  BY <1>1, <1>5, <2>1, Steady DEF Part, VarFirst
<1>7. Table(Saved)' /\ (HasRoot(Saved)' <=> HasRoot(Saved)) /\ (HasRoot(fstab)' <=> HasRoot(fstab'))
  BY <1>1, <1>3, Steady DEF HasRoot
<1>8. Firm' <=> Firm
  BY <1>1, Steady DEF Firm
<1>9. /\ pc' \notin Emptied
      /\ pc' = "fstabBoot" => Part(fstab', {"/"})
      /\ pc' = "fstabEfi" => Part(fstab', {"/", "/boot"})
      /\ pc' \in LastSteps => Part(fstab', SoFar)
      /\ Firm => HasRoot(fstab')
  BY <1>4 DEF Emptied, LastSteps
<1> QED  BY <1>1, <1>2, <1>3, <1>6, <1>7, <1>8, <1>9, Steady DEF TabInv

\* efifix changes no more than the name of a line for /boot/efi.
LEMMA TabSed ==
    ASSUME TabInv, EfiSed, efi.uuid \in Nat
    PROVE  TabInv'
<1>1. /\ UNCHANGED <<sys, torn, faults, gawk>> /\ pc \notin FstabSteps /\ pc' \notin FstabSteps
      /\ fstab' \in {fstab, [i \in DOMAIN fstab |-> Renamed(fstab[i])]}
  BY DEF EfiSed, Goto, SedThen, run, FstabSteps
<1>0. sys'.gawk \/ (faults' = 0 /\ pc' \in FstabSteps \ Unmade) => gawk'
  BY <1>1 DEF TabInv
<1> SUFFICES ASSUME Orderly(sys.fstab)' PROVE TabInv'
  BY <1>0 DEF TabInv
<1>2. /\ Table(fstab) /\ (VarFirst(sys.fstab) => VarFirst(fstab))
      /\ Firm => HasRoot(fstab)
  BY <1>1, Steady DEF TabInv, Emptied, FstabSteps
<1>3. DOMAIN fstab' = DOMAIN fstab /\ \A i \in DOMAIN fstab : fstab'[i] \in {fstab[i], Renamed(fstab[i])}
  BY <1>1
<1>4. fstab \in Seq(Line) /\ \A i \in DOMAIN fstab : fstab[i] \in Line /\ Proper(fstab[i])
  BY <1>2 DEF Table
<1>5. NewEfiName \in Nat
  BY DEF NewEfiName
<1>6. ASSUME NEW l \in Line, Proper(l)
      PROVE  Renamed(l) \in Line /\ Proper(Renamed(l)) /\ Renamed(l).at = l.at
  <2>1. CASE l.at # "/boot/efi"
    BY <1>6, <2>1 DEF Renamed
  <2>2. CASE l.at = "/boot/efi"
    <3>1. Renamed(l) = [at |-> "/boot/efi", by |-> "uuid", ref |-> NewEfiName]
      BY <2>2 DEF Renamed, Line
    <3> QED  BY <3>1, <2>2, <1>5 DEF Line, Places, Kinds, Proper, RightName
  <2> QED  BY <2>1, <2>2
<1>7. \A i \in DOMAIN fstab : fstab'[i] \in Line /\ Proper(fstab'[i]) /\ fstab'[i].at = fstab[i].at
  BY <1>3, <1>4, <1>6
<1>8. fstab' \in Seq(Line)
  <2>1. Len(fstab) \in Nat /\ DOMAIN fstab = 1..Len(fstab)
    BY <1>4
  <2>2. fstab' = [i \in 1..Len(fstab) |-> fstab'[i]]
    <3>1. CASE fstab' = fstab
      BY <3>1, <2>1, <1>4
    <3>2. CASE fstab' = [i \in DOMAIN fstab |-> Renamed(fstab[i])]
      BY <3>2, <2>1
    <3> QED  BY <1>1, <3>1, <3>2
  <2> QED  BY <1>3, <1>7, <2>1, <2>2
<1>9. \A p \in Single : OneAt(fstab', p)
  BY <1>2, <1>3, <1>7 DEF Table, OneAt
<1>10. Table(fstab)'
  BY <1>1, <1>3, <1>7, <1>8, <1>9, Steady DEF Table
<1>11. (HasRoot(fstab)' <=> HasRoot(fstab)) /\ (VarFirst(fstab) => VarFirst(fstab)')
  <2>1. HasRoot(fstab)' <=> HasRoot(fstab)
    BY <1>3, <1>7 DEF HasRoot
  <2>2. ASSUME VarFirst(fstab), NEW i \in DOMAIN fstab,
                    fstab[i].at \in {"/var/log", "/var/log/audit"}
        PROVE  \E j \in 1..(i - 1) : fstab'[j].at = "/var"
    <3>1. PICK j \in 1..(i - 1) : fstab[j].at = "/var"
      BY <2>2 DEF VarFirst
    <3>2. j \in DOMAIN fstab
      BY <1>4
    <3> QED  BY <3>1, <3>2, <1>7
  <2>3. VarFirst(fstab) => VarFirst(fstab)'
    BY <1>3, <1>7, <2>2 DEF VarFirst
  <2> QED  BY <2>1, <2>3
<1>12. Firm' <=> Firm
  BY <1>1, Steady DEF Firm
<1> QED  BY <1>0, <1>1, <1>2, <1>10, <1>11, <1>12, Steady DEF TabInv, FstabSteps, Emptied, LastSteps

\* Where awk knows no classes of its own, gawk is installed, or that has failed.
LEMMA TabGawk ==
    ASSUME TabInv, faults \in Nat, sys \in Systems, InstallGawk
    PROVE  TabInv'
<1>1. PICK ok \in BOOLEAN : /\ Outcome(sys.distro \in {"ubuntu", "debian"}, ok)
                            /\ gawk' = (gawk \/ ok)
  BY DEF InstallGawk
<1>2. /\ UNCHANGED <<sys, fstab, copies, stamp, torn>> /\ FaultsGrow
      /\ pc = "fstabGawk" /\ pc' = "fstabAfter"
  BY <1>1, OutcomeGrows DEF InstallGawk, Goto, run
<1>3. faults' = 0 => gawk'
  <2>1. CASE sys.distro \in {"ubuntu", "debian"}
    BY <1>1, <2>1, NoFault
  <2>2. CASE sys.distro \notin {"ubuntu", "debian"}
    BY <1>1, <2>2, SystemAssumption DEF TabInv
  <2> QED  BY <2>1, <2>2
<1>4. sys.gawk => gawk'
  BY <1>1 DEF TabInv
<1> QED  BY <1>2, <1>3, <1>4, TabEmptied DEF Emptied

LEMMA TabStep == LinesInv /\ ConfigInv /\ TabInv /\ [Next]_vars => TabInv'
<1> SUFFICES ASSUME LinesInv, ConfigInv, TabInv, [Next]_vars PROVE TabInv'
  OBVIOUS
<1>0. /\ sys.seen \in Nat /\ sys.boot \in BOOLEAN /\ faults \in Nat /\ sys \in Systems
      /\ efi \in [uuid : Nat, mounted : BOOLEAN] /\ efi.uuid \in Nat
  BY DEF ConfigInv, GrubTyped, System, LinesInv
<1>1. CASE UNCHANGED vars \/ Rest
  <2>1. UNCHANGED <<sys, pc, torn, fstab, copies, stamp, gawk, faults>>
    BY <1>1 DEF vars, Rest, run, tab
  <2>2. Saved' = Saved
    BY <2>1 DEF Saved
  <2>3. /\ Table(fstab)' <=> Table(fstab)
        /\ Table(Saved)' <=> Table(Saved)
        /\ \A S : Part(fstab, S)' <=> Part(fstab, S)
        /\ Firm' <=> Firm
    BY <2>1, <2>2, Steady DEF Firm
  <2>4. /\ HasRoot(fstab)' <=> HasRoot(fstab)
        /\ HasRoot(Saved)' <=> HasRoot(Saved)
        /\ VarFirst(fstab)' <=> VarFirst(fstab)
    BY <2>1, <2>2 DEF HasRoot, VarFirst
  <2> QED  BY <2>1, <2>3, <2>4, Steady DEF TabInv
<1>2. CASE Start
  BY <1>0, <1>2, TabElsewhere DEF Start, FstabSteps, FaultsGrow
<1>3. CASE Crash
  <2>1. UNCHANGED <<sys, fstab, gawk, faults>> /\ pc' = "idle" /\ torn \subseteq torn'
    BY <1>3 DEF Crash, tab
  <2>2. /\ Table(fstab)' <=> Table(fstab)
        /\ HasRoot(fstab)' <=> HasRoot(fstab)
        /\ VarFirst(fstab)' <=> VarFirst(fstab)
    BY <2>1, Steady DEF HasRoot, VarFirst
  <2>3. Firm' => Firm /\ pc \notin Emptied
    <3>1. Firm' => pc \notin FstabSteps
      BY <1>3, CrashTears DEF Firm
    <3>2. Firm' => Firm
      BY <1>0, <2>1, FirmBefore DEF FaultsGrow
    <3> QED  BY <3>1, <3>2 DEF Emptied, FstabSteps
  <2> QED  BY <2>1, <2>2, <2>3, Steady DEF TabInv, FstabSteps, Emptied, LastSteps
<1>4. CASE NextAction
  <2>1. UNCHANGED <<sys, fstab, gawk, torn, faults>> /\ pc = "next"
    BY <1>4 DEF NextAction, run, tab
  <2>2. pc' \notin FstabSteps
    BY <1>4, ActionMoves DEF First, Names, FstabSteps
  <2> QED  BY <1>0, <2>1, <2>2, TabElsewhere DEF FstabSteps, FaultsGrow
<1>5. CASE FstabNext
  <2>1. CASE Save
    BY <1>0, <2>1, TabSave
  <2>2. CASE WriteRoot \/ WriteBoot \/ WriteEfi \/ WriteResource \/ WriteBek \/ WriteVolume
    BY <2>2, <1>0, TabWrite
  <2>3. CASE \/ MoveResolv("fstabPre", "fstabWrite") \/ WriteResolv("fstabWrite", "fstabGawk")
             \/ RestoreResolv("fstabAfter", "fstabRoot")
    <3>1. UNCHANGED <<sys, fstab, copies, stamp, gawk, torn, faults>> /\ pc \in Emptied /\ pc' \in Emptied
          /\ (pc' \notin Unmade => pc \in FstabSteps \ Unmade)
      BY <2>3 DEF MoveResolv, WriteResolv, RestoreResolv, Goto, run, tab, Emptied, Unmade, FstabSteps
    <3>2. sys.gawk \/ (faults' = 0 /\ pc' \notin Unmade) => gawk'
      BY <3>1 DEF TabInv
    <3> QED  BY <1>0, <3>1, <3>2, TabEmptied DEF FaultsGrow
  <2>4. CASE InstallGawk
    BY <1>0, <2>4, TabGawk
  <2> QED  BY <1>5, <2>1, <2>2, <2>3, <2>4 DEF FstabNext
<1>6. CASE GrubNext
  BY <1>0, <1>6, GrubMoves, TabElsewhere DEF GrubSteps, FstabSteps, run, tab
<1>7. CASE EfiNext
  <2>1. CASE EfiSed
    BY <1>0, <2>1, TabSed
  <2>2. CASE ~EfiSed
    BY <1>0, <1>7, <2>2, EfiMoves, TabElsewhere DEF EfiSteps, FstabSteps, run
  <2> QED  BY <2>1, <2>2
<1>8. CASE ConfigNext
  BY <1>0, <1>8, ConfigMoves, TabElsewhere DEF ConfigSteps, FstabSteps, run, tab
<1>9. CASE AuditNext
  BY <1>0, <1>9, AuditMoves, TabElsewhere DEF FstabSteps, run, tab
<1>10. CASE SudoNext
  BY <1>0, <1>10, SudoMoves, TabElsewhere DEF SudoSteps, Later, Late, FstabSteps, run, tab
<1> QED  BY <1>1, <1>2, <1>3, <1>4, <1>5, <1>6, <1>7, <1>8, <1>9, <1>10 DEF Next, Step

\* Outside the script, however often it ran, fstab has one line for the root, which names
\* it as the table did, if that one could be named, and no line that names the wrong thing;
\* where awk is not enough, as long as nothing has failed.
THEOREM FstabStaysGood == Spec => []FstabBoots
<1>1. TabInv => FstabBoots
  <2> SUFFICES ASSUME TabInv, Orderly(sys.fstab), RootNameable, sys.gawk \/ faults = 0,
                      "fstab" \notin torn, pc \notin FstabSteps
               PROVE  /\ Len(At(fstab, "/")) = 1
                      /\ \A i \in DOMAIN fstab : RightName(fstab[i])
    BY DEF FstabBoots
  <2>1. Table(fstab) /\ HasRoot(fstab)
    BY DEF TabInv, Firm, Emptied, FstabSteps
  <2>2. PICK r \in DOMAIN fstab : fstab[r].at = "/"
    BY <2>1 DEF HasRoot
  <2>3. At(fstab, "/") = <<fstab[r]>>
    BY <2>1, <2>2, OneLine DEF Single
  <2> QED  BY <2>1, <2>3 DEF Table, Proper
<1> QED  BY <1>1, LinesInit, LinesStep, ConfigInit, ConfigStep, TabInit, TabStep, PTL DEF Spec

------------------------------------------------------------------------------
(* The line for the EFI partition, which efifix makes anew                   *)

FitsTo(lines, uuid) == \A i \in DOMAIN lines :
    lines[i].at = "/boot/efi" /\ lines[i].by = "uuid" => lines[i].ref = uuid

\* The new file system is there, and the line names the old one.
Azure    == sys.distro = "azurelinux"
Changing == {"efiRemove", "efiInstall", "efiCopy"}
Renaming == pc \in {"efiMount", "efiOwn", "efiSed"} \cup Changing \/ (pc = "efiMain" /\ ~Azure)
Renewed  == pc = "efiAfter" \/ (Azure /\ pc \in {"efiImage", "efiMain"})

EfiInv ==
    /\ crashes \in Nat
    /\ pc \in EfiSteps \ {"efiPre"} => sys.distro # "debian"
    /\ Orderly(sys.fstab) /\ sys.distro # "ubuntu" =>
          /\ Renewed /\ efi.mounted => FitsTo(fstab, efi.uuid)
          /\ faults = 0 /\ crashes = 0 =>
                /\ pc \in {"efiUmount", "efiOwn", "efiMain", "efiImage", "efiSed"} \cup Changing => efi.mounted
                /\ pc \in {"efiMkfs", "efiMount"} => ~efi.mounted /\ sys.efi
                /\ ~Renaming => FitsTo(fstab, efi.uuid)
                /\ pc \in FstabSteps => FitsTo(Saved, efi.uuid)

LEMMA EfiInit == Init => EfiInv
<1> SUFFICES ASSUME Init PROVE EfiInv
  OBVIOUS
<1>1. pc = "idle" /\ crashes = 0 /\ fstab = sys.fstab /\ efi = [uuid |-> EfiUuid, mounted |-> FALSE]
  BY DEF Init
<1>2. Orderly(sys.fstab) => FitsTo(fstab, efi.uuid)
  BY <1>1 DEF Orderly, FitsTo
<1> QED  BY <1>1, <1>2 DEF EfiInv, EfiSteps, Changing, Renewed, FstabSteps

\* What has no part in the partition or in fstab.
LEMMA EfiElsewhere ==
    ASSUME ConfigInv, EfiInv, UNCHANGED <<sys, crashes, fstab>>, efi'.uuid = efi.uuid, FaultsGrow,
           pc \notin EfiSteps \cup FstabSteps, pc' \notin (EfiSteps \ {"efiPre"}) \cup FstabSteps
    PROVE  EfiInv'
<1>1. FitsTo(fstab, efi.uuid)' <=> FitsTo(fstab, efi.uuid)
  BY DEF FitsTo
<1>2. faults' = 0 => faults = 0
  BY DEF FaultsGrow, ConfigInv, GrubTyped
<1> QED  BY <1>1, <1>2, Steady DEF EfiInv, EfiSteps, Changing, Renaming, Renewed

LEMMA EfiStart ==
    ASSUME ConfigInv, EfiInv, Start
    PROVE  EfiInv'
<1>1. /\ UNCHANGED <<sys, crashes, fstab>> /\ pc = "idle" /\ pc' = "next" /\ faults' = faults
      /\ efi' = [efi EXCEPT !.mounted = sys.efi]
  BY DEF Start, tab
<1>2. efi'.uuid = efi.uuid
  BY <1>1 DEF ConfigInv, GrubTyped
<1> QED  BY <1>1, <1>2, EfiElsewhere DEF FaultsGrow, EfiSteps, FstabSteps

LEMMA EfiCrash ==
    ASSUME EfiInv, Crash
    PROVE  EfiInv'
<1>1. crashes \in Nat /\ crashes' = crashes + 1 /\ pc' = "idle"
  BY DEF EfiInv, Crash
<1>2. crashes' \in Nat /\ crashes' # 0
  BY <1>1
<1> QED  BY <1>1, <1>2 DEF EfiInv, EfiSteps, Changing, Renewed

\* Before the partition is unmounted, and once the line is as it will be.
LEMMA EfiQuiet ==
    ASSUME ConfigInv, EfiInv,
           EfiNoPre \/ EfiMove \/ WriteResolv("efiWrite", "efiCheck") \/ EfiCheck
           \/ MisplaceResolv("efiAfter", "next") \/ EfiMain \/ EfiImage \/ EfiOwn
           \/ EfiRemove \/ EfiInstall \/ EfiCopy
    PROVE  EfiInv'
<1>0. UNCHANGED <<sys, crashes>> /\ FaultsGrow /\ faults \in Nat
      /\ sys.distro \in {"redhat", "suse", "ubuntu", "debian", "azurelinux"}
  BY EfiMoves DEF EfiNext, run, ConfigInv, GrubTyped, System
<1>1. UNCHANGED <<efi, fstab>>
  BY DEF EfiNoPre, EfiMove, MoveResolv, WriteResolv, EfiCheck, MisplaceResolv, EfiMain, Mkconfig,
         EfiImage, EfiOwn, EfiRemove, EfiInstall, EfiCopy, Same, tab, boot
<1>2. FitsTo(fstab, efi.uuid)' <=> FitsTo(fstab, efi.uuid)
  BY <1>1 DEF FitsTo
<1>3. \/ pc \in {"efiPre", "efiWrite"} /\ pc' \in {"efiWrite", "efiCheck", "next"}
         /\ (pc = "efiPre" => pc' = "next" \/ sys.distro # "debian")
      \/ pc = "efiCheck" /\ pc' \in {"efiUmount", "next"} /\ (pc' = "efiUmount" => efi.mounted)
      \/ pc = "efiAfter" /\ pc' = "next"
      \/ pc = "efiImage" /\ pc' = "efiMain"
      \/ pc = "efiOwn" /\ pc' \in {"efiMain", "efiSed"} /\ (Azure => pc' = "efiSed")
      \/ pc = "efiMain" /\ pc' = "efiOwn" /\ sys.distro = "redhat"
      \/ pc = "efiMain" /\ pc' = "efiSed" /\ sys.distro \in {"suse", "ubuntu"}
      \/ pc = "efiMain" /\ pc' = "efiAfter" /\ sys.distro \in {"azurelinux", "debian"}
      \/ pc = "efiPre" /\ pc' = "efiUmount" /\ sys.distro = "ubuntu"
      \/ pc \in Changing /\ pc' \in {"efiInstall", "efiCopy", "efiOwn"}
  BY <1>0 DEF EfiNoPre, EfiMove, MoveResolv, WriteResolv, EfiCheck, MisplaceResolv, EfiMain, Mkconfig,
         EfiImage, EfiOwn, EfiRemove, EfiInstall, EfiCopy, Goto, Azure, HasPre, Changing
<1> QED  BY <1>0, <1>1, <1>2, <1>3, Steady
         DEF EfiInv, EfiSteps, Changing, FaultsGrow, Renaming, Renewed, Azure, FstabSteps

LEMMA EfiAnew ==
    ASSUME ConfigInv, EfiInv, EfiUmount \/ EfiMkfs \/ EfiMount
    PROVE  EfiInv'
<1>0. UNCHANGED <<sys, crashes, fstab>> /\ FaultsGrow /\ faults \in Nat
      /\ sys.efi \in BOOLEAN /\ efi \in [uuid : Nat, mounted : BOOLEAN]
  BY EfiMoves DEF EfiNext, EfiSed, EfiUmount, EfiMkfs, EfiMount, Goto, run, tab, ConfigInv, GrubTyped, System
<1>1. efi.mounted => sys.efi
  BY DEF ConfigInv, Reached
<1>2. faults' = 0 => faults = 0
  BY <1>0 DEF FaultsGrow
<1>3. CASE EfiUmount
  <2>1. PICK ok \in BOOLEAN : Outcome(efi.mounted, ok) /\ efi' = [efi EXCEPT !.mounted = @ /\ ~ok]
    BY <1>3 DEF EfiUmount
  <2>2. efi'.uuid = efi.uuid /\ efi'.mounted = (efi.mounted /\ ~ok)
    BY <1>0, <2>1
  <2>3. faults' = 0 /\ efi.mounted => ~efi'.mounted
    <3>1. faults' = 0 /\ efi.mounted => ok
      BY <1>0, <2>1 DEF Outcome, Fails
    <3> QED  BY <2>2, <3>1, Zenon
  <2>4. FitsTo(fstab, efi.uuid)' <=> FitsTo(fstab, efi.uuid)
    BY <1>0, <2>2 DEF FitsTo
  <2>5. pc = "efiUmount" /\ pc' = "efiMkfs"
    BY <1>3 DEF EfiUmount, Goto
  <2> QED  BY <1>0, <1>1, <1>2, <2>3, <2>4, <2>5, Steady
           DEF EfiInv, EfiSteps, Changing, Renaming, Renewed, FstabSteps
<1>4. CASE EfiMkfs
  <2>1. efi'.mounted = efi.mounted
    BY <1>0, <1>4 DEF EfiMkfs
  <2>2. pc = "efiMkfs" /\ pc' = "efiMount"
    BY <1>4 DEF EfiMkfs, Goto
  <2> QED  BY <1>0, <1>2, <2>1, <2>2, Steady
           DEF EfiInv, EfiSteps, Changing, Renaming, Renewed, FstabSteps
<1>5. CASE EfiMount
  <2>1. PICK ok \in BOOLEAN : /\ Outcome(sys.efi /\ ~efi.mounted, ok)
                              /\ efi' = [efi EXCEPT !.mounted = @ \/ ok]
    BY <1>5 DEF EfiMount
  <2>2. efi'.mounted = (efi.mounted \/ ok)
    BY <1>0, <2>1
  <2>3. faults' = 0 /\ sys.efi /\ ~efi.mounted => efi'.mounted
    BY <1>0, <2>1, <2>2 DEF Outcome, Fails
  <2>4. pc = "efiMount" /\ pc' \in {"efiMain", "efiOwn", "efiRemove"} /\ (pc' = "efiMain" => sys.distro = "redhat")
    BY <1>5 DEF EfiMount, Goto
  <2> QED  BY <1>0, <1>2, <2>3, <2>4, Steady
           DEF EfiInv, EfiSteps, Changing, Renaming, Renewed, Azure, FstabSteps
<1> QED  BY <1>3, <1>4, <1>5

\* A line that a UUID names is given that of what is mounted.
LEMMA EfiNamed ==
    ASSUME ConfigInv, TabInv, EfiInv, EfiSed
    PROVE  EfiInv'
<1>0. UNCHANGED <<sys, crashes, efi, faults>> /\ pc = "efiSed" /\ pc' = SedThen
      /\ fstab' = IF Replaceable THEN [i \in DOMAIN fstab |-> Renamed(fstab[i])] ELSE fstab
  BY DEF EfiSed, Goto, run, boot
<1>1. ASSUME Orderly(sys.fstab), sys.distro # "ubuntu", efi.mounted
      PROVE  FitsTo(fstab', efi.uuid)
  <2>1. Table(fstab)
    BY <1>1 DEF TabInv
  <2>2. CASE Replaceable
    <3>1. DOMAIN fstab' = DOMAIN fstab /\ \A i \in DOMAIN fstab : fstab'[i] = Renamed(fstab[i])
      BY <1>0, <2>2
    <3>2. \A l \in Line : Renamed(l).at = "/boot/efi" => Renamed(l).ref = efi.uuid
      BY <1>1 DEF Renamed, NewEfiName, Line
    <3>3. \A i \in DOMAIN fstab : fstab[i] \in Line
      BY <2>1 DEF Table
    <3> QED  BY <3>1, <3>2, <3>3 DEF FitsTo
  <2>3. CASE ~Replaceable
    <3>1. ~\E i \in DOMAIN fstab : fstab[i].at = "/boot/efi" /\ fstab[i].by # "device"
      BY <1>1, <2>1, <2>3 DEF Replaceable, Table, OneAt, Single
    <3> QED  BY <1>0, <2>3, <3>1 DEF FitsTo
  <2> QED  BY <2>2, <2>3
<1>2. FitsTo(fstab, efi.uuid)' <=> FitsTo(fstab', efi.uuid)
  BY <1>0 DEF FitsTo
<1> QED  BY <1>0, <1>1, <1>2, Steady
         DEF EfiInv, EfiSteps, Changing, Renaming, Renewed, Azure, SedThen, FstabSteps

LEMMA FitsJoined ==
    ASSUME NEW u, NEW s \in Seq(Line), NEW t \in Seq(Line), FitsTo(s, u), FitsTo(t, u),
           NEW res, res = s \o t
    PROVE  FitsTo(res, u)
<1>1. /\ \A i \in DOMAIN s : i \in DOMAIN res /\ res[i] = s[i]
      /\ \A i \in DOMAIN t : Len(s) + i \in DOMAIN res /\ res[Len(s) + i] = t[i]
      /\ \A i \in DOMAIN res : \/ i \in DOMAIN s
                               \/ i - Len(s) \in DOMAIN t /\ i = Len(s) + (i - Len(s))
  BY Concat
<1>2. \A i \in DOMAIN res : \/ i \in DOMAIN s /\ res[i] = s[i]
                            \/ i - Len(s) \in DOMAIN t /\ res[i] = t[i - Len(s)]
  BY <1>1
<1> QED  BY <1>2 DEF FitsTo

\* The line of the old table, or one for what is mounted.
LEMMA EntryFits ==
    ASSUME Table(Saved), NEW mounted \in BOOLEAN, NEW uuid \in Nat,
           FitsTo(Saved, uuid), NEW res, res = Entry("/boot/efi", mounted, uuid)
    PROVE  FitsTo(res, uuid)
<1> DEFINE there == At(Saved, "/boot/efi")
           old == Printed("/boot/efi")
           new == [at |-> "/boot/efi", by |-> "uuid", ref |-> uuid]
<1>1. Saved \in Seq(Line)
  BY DEF Table
<1>6. FitsTo(there, uuid)
  <2> DEFINE S == {i \in DOMAIN Saved : Saved[i].at = "/boot/efi"}
  <2>1. S \in SUBSET DOMAIN Saved /\ there = LinesAt(Saved, S)
    BY DEF At
  <2> HIDE DEF there, S
  <2>2. \A n \in DOMAIN there : Position(S, n) \in S /\ there[n] = Saved[Position(S, n)]
    BY <1>1, <2>1, LinesFrom
  <2>3. \A n \in DOMAIN there : Position(S, n) \in DOMAIN Saved
    BY <2>1, <2>2
  <2> QED  BY <2>2, <2>3 DEF FitsTo
<1>2. FitsTo(old, uuid)
  <2>1. old \in {there, <<>>}
    BY DEF Printed
  <2> QED  BY <1>6, <2>1 DEF FitsTo
<1>3. FitsTo(Translated(old, uuid), uuid)
  <2>1. old \in Seq(Line)
    BY PrintedPart DEF Part, Table
  <2> HIDE DEF old
  <2>2. \A i \in DOMAIN old : old[i] \in Line
    BY <2>1
  <2> QED  BY <2>2 DEF FitsTo, Translated, Line
<1>4. FitsTo(<<new>>, uuid) /\ FitsTo(<<>>, uuid)
  BY DEF FitsTo
<1>5. res \in {old, <<>>, <<new>>, Translated(old, uuid)}
  <2>1. res = CASE ByUuid(old) -> old
                [] ~ByUuid(old) /\ ~mounted -> <<>>
                [] mounted /\ old = <<>> -> <<new>>
                [] mounted /\ old # <<>> /\ ~ByUuid(old) -> Translated(old, uuid)
    BY DEF Entry
  <2>2. old = <<>> => ~ByUuid(old)
    BY DEF ByUuid
  <2> HIDE DEF old, new
  <2> QED  BY <2>1, <2>2
<1> HIDE DEF old, new
<1> QED  BY <1>2, <1>3, <1>4, <1>5

LEMMA NoneFits ==
    ASSUME NEW S, NEW lines, Part(lines, S), "/boot/efi" \notin S
    PROVE  \A u : FitsTo(lines, u)
BY DEF Part, FitsTo

LEMMA EfiFstab ==
    ASSUME LinesInv, ConfigInv, TabInv, TabInv', EfiInv, FstabNext
    PROVE  EfiInv'
<1>0. /\ UNCHANGED <<sys, crashes, efi>> /\ (faults' = 0 => faults = 0)
      /\ efi \in [uuid : Nat, mounted : BOOLEAN]
      /\ pc \in {"fstabSave"} \cup FstabSteps /\ pc' \in FstabSteps \cup {"next"}
  BY FstabMoves DEF run, boot, FaultsGrow, ConfigInv, GrubTyped
<1>2. ASSUME Orderly(sys.fstab), sys.distro # "ubuntu", faults = 0, crashes = 0
      PROVE  FitsTo(fstab', efi.uuid) /\ (pc' \in FstabSteps => FitsTo(Saved', efi.uuid))
  <2>1. FitsTo(fstab, efi.uuid) /\ (pc \in FstabSteps => FitsTo(Saved, efi.uuid) /\ Table(Saved))
    BY <1>0, <1>2 DEF EfiInv, TabInv, Renaming, Changing, FstabSteps
  <2>2. CASE Save
    <3>1. pc = "fstabSave" /\ stamp' \in DOMAIN copies' /\ copies'[stamp'] = fstab /\ fstab' = <<>>
      BY <2>2 DEF Save, Goto
    <3>2. Saved' = fstab
      BY <3>1 DEF Saved
    <3>3. FitsTo(<<>>, efi.uuid)
      BY DEF FitsTo
    <3> QED  BY <2>1, <3>1, <3>2, <3>3
  <2>3. CASE ~Save
    <3>1. pc \in FstabSteps /\ UNCHANGED <<copies, stamp>>
      <4>1. CASE WriteVolume
        BY <4>1, VolumeSteps DEF WriteVolume, Write
      <4> QED  BY <2>3, <4>1 DEF FstabNext, WriteRoot, WriteBoot, WriteEfi, WriteResource, WriteBek,
                  Write, InstallGawk, MoveResolv, WriteResolv, RestoreResolv, Goto, FstabSteps, tab
    <3>2. Saved' = Saved
      BY <3>1 DEF Saved
    <3>3. CASE fstab' = fstab
      BY <2>1, <3>1, <3>2, <3>3
    <3>4. CASE WriteRoot \/ WriteBoot
      <4>1. pc' = "fstabBoot" \/ pc' = "fstabEfi"
        BY <3>4 DEF WriteRoot, WriteBoot, Write, Goto
      <4>2. Part(fstab', {"/"}) \/ Part(fstab', {"/", "/boot"})
        BY <1>0, <1>2, <4>1, Steady DEF TabInv
      <4>3. FitsTo(fstab', efi.uuid)
        BY <4>2, NoneFits
      <4> QED  BY <2>1, <3>1, <3>2, <4>3
    <3>5. CASE WriteEfi
      <4> DEFINE res == Entry("/boot/efi", efi.mounted, efi.uuid)
      <4>1. pc = "fstabEfi" /\ fstab' = fstab \o res
        BY <3>5 DEF WriteEfi, Write, Goto
      <4>2. efi.mounted \in BOOLEAN /\ efi.uuid \in Nat
        BY <1>0
      <4> HIDE DEF res
      <4>3. FitsTo(res, efi.uuid)
        BY <2>1, <3>1, <4>2, EntryFits DEF res
      <4>4. Part(res, {"/boot/efi"})
        BY <2>1, <3>1, <4>2, EntryPart DEF res
      <4>5. fstab \in Seq(Line) /\ res \in Seq(Line)
        BY <1>2, <4>4 DEF TabInv, Part, Table
      <4>6. FitsTo(fstab', efi.uuid)
        BY <2>1, <4>1, <4>3, <4>5, FitsJoined
      <4> QED  BY <2>1, <3>1, <3>2, <4>6
    <3>6. CASE WriteResource \/ WriteBek \/ WriteVolume
      <4>1. PICK p \in LastPlaces : Appended(p)
        BY <2>1, <3>1, <3>6, LastWritten
      <4>2. PICK t : fstab' = fstab \o t /\ Part(t, {p})
        BY <4>1 DEF Appended
      <4>3. FitsTo(t, efi.uuid)
        <5>1. "/boot/efi" \notin {p}
          BY DEF LastPlaces
        <5> QED  BY <4>2, <5>1, NoneFits
      <4>4. fstab \in Seq(Line) /\ t \in Seq(Line)
        BY <1>2, <4>2 DEF TabInv, Part, Table
      <4>5. FitsTo(fstab', efi.uuid)
        BY <2>1, <4>2, <4>3, <4>4, FitsJoined
      <4> QED  BY <2>1, <3>1, <3>2, <4>5
    <3> QED  BY <2>3, <3>3, <3>4, <3>5, <3>6
             DEF FstabNext, InstallGawk, MoveResolv, WriteResolv, RestoreResolv, tab
  <2> QED  BY <2>2, <2>3
<1>3. /\ FitsTo(fstab, efi.uuid)' <=> FitsTo(fstab', efi.uuid)
      /\ FitsTo(Saved, efi.uuid)' <=> FitsTo(Saved', efi.uuid)
  BY <1>0 DEF FitsTo
<1> QED  BY <1>0, <1>2, <1>3, Steady DEF EfiInv, EfiSteps, Changing, Renaming, Renewed, FstabSteps

LEMMA EfiStep == LinesInv /\ ConfigInv /\ TabInv /\ TabInv' /\ EfiInv /\ [Next]_vars => EfiInv'
<1> SUFFICES ASSUME LinesInv, ConfigInv, TabInv, TabInv', EfiInv, [Next]_vars PROVE EfiInv'
  OBVIOUS
<1>1. CASE UNCHANGED vars \/ Rest
  <2>1. UNCHANGED <<sys, pc, crashes, faults, efi, fstab, copies, stamp>>
    BY <1>1 DEF vars, Rest, run, tab, boot
  <2>2. Saved' = Saved
    BY <2>1 DEF Saved
  <2>3. /\ FitsTo(fstab, efi.uuid)' <=> FitsTo(fstab, efi.uuid)
        /\ FitsTo(Saved, efi.uuid)' <=> FitsTo(Saved, efi.uuid)
    BY <2>1, <2>2 DEF FitsTo
  <2> QED  BY <2>1, <2>3, Steady DEF EfiInv, Renaming, Renewed, Azure
<1>2. CASE NextAction
  <2>1. UNCHANGED <<sys, crashes, fstab, efi, faults>> /\ pc = "next"
    BY <1>2 DEF NextAction, run, tab, boot
  <2>2. pc' \notin (EfiSteps \ {"efiPre"}) \cup FstabSteps
    BY <1>2, ActionMoves DEF First, Names, EfiSteps, FstabSteps
  <2> QED  BY <2>1, <2>2, EfiElsewhere DEF EfiSteps, FstabSteps, FaultsGrow
<1>3. CASE GrubNext
  <2>1. efi' = efi
    BY <1>3 DEF GrubNext, GrubRefuse, GrubNoPre, GrubMove, GrubInstall, GrubConfig, Mkconfig,
                MoveResolv, WriteResolv, RestoreResolv, Same, boot
  <2> QED  BY <1>3, <2>1, GrubMoves, EfiElsewhere DEF GrubSteps, EfiSteps, FstabSteps, run, tab
<1>4. CASE EfiNext
  <2>1. CASE EfiSed
    BY <2>1, EfiNamed
  <2>2. CASE EfiUmount \/ EfiMkfs \/ EfiMount
    BY <2>2, EfiAnew
  <2> QED  BY <1>4, <2>1, <2>2, EfiQuiet DEF EfiNext
<1>5. CASE ConfigNext
  <2>1. efi' = efi
    BY <1>5 DEF ConfigNext, KernelLine, KernelPick, KernelEfi, KernelMain, SerialNone, SerialLine,
                SerialEfi, SerialMain, InitrdRemove, InitrdMake, InitrdMain, InitrdEfi, Edit, Mkconfig, boot
  <2> QED  BY <1>5, <2>1, ConfigMoves, EfiElsewhere DEF ConfigSteps, EfiSteps, FstabSteps, run, tab
<1>6. CASE AuditNext
  <2>1. efi' = efi
    BY <1>6 DEF AuditNext, Configure, Walk, Look, Continue, AuditEnd, boot
  <2> QED  BY <1>6, <2>1, AuditMoves, EfiElsewhere DEF EfiSteps, FstabSteps, run, tab
<1>7. CASE SudoNext
  BY <1>7, SudoMoves, EfiElsewhere DEF SudoSteps, Later, Late, EfiSteps, FstabSteps, run, tab, boot
<1> QED  BY <1>1, <1>2, <1>3, <1>4, <1>5, <1>6, <1>7, EfiStart, EfiCrash, EfiFstab DEF Next, Step

\* The line for the EFI partition names the file system that is there when efifix has
\* mounted the new one, and after runs that met no fault and no kill.
THEOREM EfiEntryKept == Spec => []EfiEntryFits
<1>1. EfiInv => EfiEntryFits
  BY DEF EfiInv, EfiEntryFits, FitsTo, Renewed, Renaming, Changing
<1> QED  BY <1>1, LinesInit, LinesStep, ConfigInit, ConfigStep, TabInit, TabStep, EfiInit, EfiStep,
            PTL DEF Spec

------------------------------------------------------------------------------
(* The logical volumes, which auditd enlarges                                *)

Important     == {"/", "/var", "/var/log"}
AuditSteps    == {"audWalk", "audLook", "audEnd"}
Settled(p)    == p \notin volumes.full \/ volumes.free <= sys.tenth[p]
VolumeLine(p) == \E i \in DOMAIN fstab : fstab[i].at = p /\ fstab[i].by = "volume"

\* A volume df measures that could grow is still to be looked at, or is about to be; one that
\* has grown is no longer full.  No other grows but where that one is full.
AuditInv ==
    /\ volumes \in [full : SUBSET Places, grown : [Places -> Nat], free : Nat]
    /\ volumes.full \subseteq sys.full
    /\ later \subseteq Important /\ need \subseteq Important
    /\ pc \in AuditSteps => ~audit
    /\ pc = "audEnd" => later = {}
    /\ Orderly(sys.fstab) /\ VarFirst(sys.fstab) /\ faults = 0 =>
          /\ \A p \in Measured : \/ volumes.grown[p] = 0
                                 \/ volumes.grown[p] = 1 /\ p \in sys.full \ volumes.full
          /\ \A p \in Places : volumes.grown[p] > 0 => Holder(p) \in sys.full
          /\ pc \in AuditSteps => \A p \in Measured : VolumeLine(p) =>
                Settled(p) \/ p \in later \cap need \/ (pc # "audEnd" /\ p = dir)
          /\ pc = "audLook" => Found

LEMMA AuditInit == Init => AuditInv
<1> SUFFICES ASSUME Init PROVE AuditInv
  OBVIOUS
<1>1. sys \in System /\ pc = "idle" /\ later = {} /\ need = {}
      /\ volumes = [full |-> sys.full, grown |-> [p \in Places |-> 0], free |-> sys.free]
  BY SystemAssumption DEF Init
<1>2. sys.full \in SUBSET Places /\ sys.free \in Nat
  BY <1>1 DEF System
<1> QED  BY <1>1, <1>2 DEF AuditInv, AuditSteps, Measured, Places

\* Which volume df measures does not change.
LEMMA SameHolder == ASSUME sys' = sys PROVE \A p : Holder(p)' = Holder(p)
BY DEF Holder

\* What has no part in this: it does not begin where the volumes are looked at.
LEMMA NotAudit ==
    ASSUME ConfigInv, AuditInv, UNCHANGED <<sys, aud>>, FaultsGrow, pc' \notin AuditSteps
    PROVE  AuditInv'
<1>1. UNCHANGED <<volumes, later, need>>
  BY DEF aud
<1>2. faults' = 0 => faults = 0
  BY DEF FaultsGrow, ConfigInv, GrubTyped
<1> QED  BY <1>1, <1>2, Steady, SameHolder DEF AuditInv, AuditSteps

LEMMA LeastOf ==
    ASSUME NEW S \in SUBSET Nat, S # {}
    PROVE  \E x \in S : \A y \in S : x <= y
<1>1. IsWellFoundedOn(OpToRel(<, Nat), Nat)
  BY NatLessThanWellFounded
<1>2. PICK x \in S : \A y \in S : ~(<<y, x>> \in OpToRel(<, Nat))
  BY <1>1, WFMin, Zenon
<1>3. \A y \in S : ~(y < x)
  BY <1>2 DEF OpToRel
<1> QED  BY <1>3

\* grep finds the line of / and /var itself: /var is before what is below it in the table.
LEMMA LineFound ==
    ASSUME Table(fstab), VarFirst(fstab), Found
    PROVE  /\ dir \in Measured => FirstLine.at = dir
           /\ \E r \in DOMAIN fstab : FirstLine = fstab[r] /\ Matches(fstab[r])
<1> DEFINE FirstMatch(i) == Matches(fstab[i]) /\ \A j \in 1..(i - 1) : ~Matches(fstab[j])
           S == {i \in DOMAIN fstab : Matches(fstab[i])}
<1>1. DOMAIN fstab \in SUBSET Nat /\ \A i \in DOMAIN fstab : \A j \in 1..(i - 1) : j \in DOMAIN fstab /\ j < i
  BY DEF Table
<1>2. \E i \in DOMAIN fstab : FirstMatch(i)
  <2>1. S \in SUBSET Nat /\ S # {}
    BY <1>1 DEF Found
  <2> HIDE DEF S
  <2>2. PICK i \in S : \A j \in S : i <= j
    BY <2>1, LeastOf
  <2>3. i \in DOMAIN fstab /\ Matches(fstab[i])
    BY <2>2 DEF S
  <2>4. ASSUME NEW j \in 1..(i - 1), Matches(fstab[j]) PROVE FALSE
    <3>1. j \in S /\ j < i
      BY <1>1, <2>3, <2>4 DEF S
    <3> QED  BY <1>1, <2>1, <2>2, <3>1
  <2> QED  BY <2>3, <2>4
<1>3. PICK r \in DOMAIN fstab : FirstMatch(r) /\ FirstLine = fstab[r]
  BY <1>2 DEF FirstLine
<1>4. dir \in Measured => fstab[r].at = dir
  <2>1. CASE dir \in Measured /\ fstab[r].at # dir
    <3>1. dir = "/var" /\ fstab[r].at \in {"/var/log", "/var/log/audit"}
      BY <1>3, <2>1 DEF Matches, Measured
    <3>2. PICK j \in 1..(r - 1) : fstab[j].at = "/var"
      BY <3>1 DEF VarFirst
    <3> QED  BY <1>3, <3>1, <3>2 DEF Matches
  <2> QED  BY <2>1
<1> QED  BY <1>3, <1>4

LEMMA ForemostIn ==
    ASSUME NEW S \in SUBSET Important, S # {}
    PROVE  Foremost(S) \in S
<1>1. CASE "/" \in S
  BY <1>1 DEF Foremost
<1>2. CASE "/" \notin S /\ "/var" \in S
  BY <1>2 DEF Foremost
<1>3. CASE "/" \notin S /\ "/var" \notin S
  <2>1. S = {"/var/log"}
    BY <1>3 DEF Important
  <2> QED  BY <2>1 DEF Foremost
<1> QED  BY <1>1, <1>2, <1>3

LEMMA AuditWalks ==
    ASSUME ConfigInv, AuditInv, Configure \/ Walk \/ AuditEnd
    PROVE  AuditInv'
<1>1. UNCHANGED <<sys, fstab, volumes, faults>>
  BY DEF Configure, Walk, AuditEnd, Goto, run, tab, aud
<1>2. \A p : (Settled(p)' <=> Settled(p)) /\ (VolumeLine(p)' <=> VolumeLine(p))
  BY <1>1 DEF Settled, VolumeLine
<1>3. CASE Configure
  <2>1. CASE sys.distro = "azurelinux"
    BY <1>3, <2>1, NotAudit DEF Configure, Goto, run, AuditSteps, FaultsGrow
  <2>2. CASE sys.distro # "azurelinux"
    <3>1. /\ pc' = "audWalk" /\ audit' = FALSE
          /\ later' = Important /\ need' = Important
      BY <1>3, <2>2 DEF Configure, Goto, Important
    <3>2. Measured \subseteq Important
      BY DEF Measured, Important
    <3> QED  BY <1>1, <3>1, <3>2, Steady, SameHolder DEF AuditInv, AuditSteps
  <2> QED  BY <2>1, <2>2
<1>4. CASE Walk
  <2>1. pc = "audWalk" /\ UNCHANGED <<later, audit>>
    BY <1>4 DEF Walk, Goto
  <2>2. CASE Found
    <3>1. pc' = "audLook" /\ UNCHANGED <<dir, need>>
      BY <1>4, <2>2 DEF Walk, Goto
    <3>2. Found'
      BY <1>1, <2>2, <3>1 DEF Found, Matches
    <3> QED  BY <1>1, <1>2, <2>1, <3>1, <3>2, Steady, SameHolder DEF AuditInv, AuditSteps
  <2>3. CASE ~Found
    <3>1. pc' = "audWalk" /\ need' = need \ {dir'}
      BY <1>4, <2>3 DEF Walk, Goto
    <3>2. ~VolumeLine(dir)
      BY <2>3 DEF Found, Matches, VolumeLine
    <3> QED  BY <1>1, <1>2, <2>1, <3>1, <3>2, Steady, SameHolder DEF AuditInv, AuditSteps
  <2> QED  BY <2>2, <2>3
<1>5. CASE AuditEnd
  BY <1>5, NotAudit DEF AuditEnd, Goto, run, AuditSteps, FaultsGrow
<1> QED  BY <1>3, <1>4, <1>5

\* What lvextend does to the volumes.
LEMMA Grown ==
    ASSUME ConfigInv, AuditInv, Growable, Grow, NEW p, p = FirstLine.at
    PROVE  /\ p \in Places /\ sys.tenth[p] \in Nat
           /\ volumes' \in [full : SUBSET Places, grown : [Places -> Nat], free : Nat]
           /\ volumes'.full \subseteq volumes.full /\ volumes'.free <= volumes.free
           /\ faults' = 0 => /\ volumes'.full = volumes.full \ {p}
                             /\ volumes'.grown = [volumes.grown EXCEPT ![p] = @ + 1]
           /\ FaultsGrow
<1>1. p \in sys.lvs /\ volumes.free > sys.tenth[p] /\ sys \in System /\ faults \in Nat
  BY DEF Growable, ConfigInv, GrubTyped
<1>2. p \in Places /\ sys.tenth[p] \in Nat
  BY <1>1 DEF System
<1>3. volumes \in [full : SUBSET Places, grown : [Places -> Nat], free : Nat]
  BY DEF AuditInv
<1> DEFINE more == [volumes EXCEPT !.grown[p] = @ + 1, !.free = @ - sys.tenth[p]]
           whole == [more EXCEPT !.full = @ \ {p}]
           once == [volumes.grown EXCEPT ![p] = @ + 1]
           rest == volumes.free - sys.tenth[p]
<1>4. \/ Works /\ volumes' = whole
      \/ Fails /\ volumes' \in {volumes, more}
  BY DEF Grow
<1>5. rest \in Nat /\ rest <= volumes.free
  BY <1>1, <1>2, <1>3
<1>6. once \in [Places -> Nat]
  BY <1>2, <1>3
<1>7. more = [volumes EXCEPT !.grown = once, !.free = rest]
  BY <1>2, <1>3
<1> HIDE DEF once, rest, more
<1>8. more = [full |-> volumes.full, grown |-> once, free |-> rest]
  BY <1>3, <1>5, <1>6, <1>7
<1>9. whole = [full |-> volumes.full \ {p}, grown |-> once, free |-> rest]
  BY <1>8
<1> HIDE DEF whole
<1>10. volumes' \in {volumes, more, whole}
  BY <1>4
<1>11. /\ volumes' \in [full : SUBSET Places, grown : [Places -> Nat], free : Nat]
       /\ volumes'.full \subseteq volumes.full /\ volumes'.free <= volumes.free
  BY <1>3, <1>5, <1>6, <1>8, <1>9, <1>10
<1>12. faults' = 0 => volumes' = whole
  BY <1>1, <1>4 DEF Fails
<1>13. faults' = 0 => volumes'.full = volumes.full \ {p} /\ volumes'.grown = once
  BY <1>9, <1>12
<1>14. FaultsGrow
  BY <1>4, FaultAssumption DEF FaultsGrow, Works, Fails
<1> QED  BY <1>2, <1>11, <1>13, <1>14 DEF once

LEMMA AuditLook ==
    ASSUME LinesInv, ConfigInv, TabInv, AuditInv, Look
    PROVE  AuditInv'
<1> DEFINE p == FirstLine.at
<1>0. /\ UNCHANGED <<sys, fstab, need, audit>> /\ pc = "audLook"
      /\ pc' = IF Left = {} THEN "audEnd" ELSE "audWalk"
      /\ dir' = IF Left = {} THEN dir ELSE Foremost(Left)
      /\ later' = IF Left = {} THEN {} ELSE Left \ {Foremost(Left)}
  BY DEF Look, Continue, Goto, run, tab
<1>1. /\ sys \in System /\ sys.full \subseteq sys.lvs /\ faults \in Nat
  BY SystemAssumption DEF LinesInv, ConfigInv, GrubTyped
<1>2. /\ volumes' \in [full : SUBSET Places, grown : [Places -> Nat], free : Nat]
      /\ volumes'.full \subseteq volumes.full /\ volumes'.free <= volumes.free
      /\ faults' = 0 => faults = 0
  <2>1. CASE Growable
    BY <1>1, <2>1, Grown DEF Look, FaultsGrow
  <2>2. CASE ~Growable
    BY <2>2 DEF Look, AuditInv
  <2> QED  BY <2>1, <2>2
<1>3. Left = later \cap need /\ Left \subseteq Important
  BY DEF Left, AuditInv
<1>4. later' \subseteq Important /\ (Left # {} => Foremost(Left) \in Left)
  BY <1>0, <1>3, ForemostIn
<1>5. ASSUME Orderly(sys.fstab), VarFirst(sys.fstab), faults' = 0
      PROVE  /\ \A q \in Measured : \/ volumes'.grown[q] = 0
                                    \/ volumes'.grown[q] = 1 /\ q \in sys.full \ volumes'.full
             /\ \A q \in Places : volumes'.grown[q] > 0 => Holder(q) \in sys.full
             /\ \A q \in Measured : VolumeLine(q) =>
                   Settled(q)' \/ q \in later' \cap need \/ (pc' # "audEnd" /\ q = dir')
  <2>1. Table(fstab) /\ VarFirst(fstab) /\ Found
    BY <1>0, <1>2, <1>5 DEF TabInv, AuditInv
  <2>2. PICK r \in DOMAIN fstab : FirstLine = fstab[r] /\ fstab[r].at = p /\ Matches(fstab[r])
    BY <2>1, LineFound
  <2>3. (dir \in Measured => p = dir) /\ (p \in Measured => p = dir)
    <3>1. dir \in Measured => p = dir
      BY <2>1, LineFound
    <3> HIDE DEF p
    <3> QED  BY <2>2, <3>1 DEF Matches, Measured
  <2>4. (p \in Measured /\ p \in sys.lvs => Holder(dir) = p) /\ Holder(p) = Holder(dir)
    <3> HIDE DEF p
    <3> QED  BY <2>2, <2>3 DEF Holder, Measured, Matches
  <2>5. \A q \in Measured : Settled(q) => Settled(q)'
    <3>1. \A q \in Measured : sys.tenth[q] \in Nat
      BY <1>1 DEF System, Measured, Places
    <3>2. volumes.free \in Nat /\ volumes'.free \in Nat
      BY <1>2 DEF AuditInv
    <3> QED  BY <1>0, <1>2, <3>1, <3>2 DEF Settled
  <2>6. ASSUME NEW q \in Measured, q = p, VolumeLine(q)
        PROVE  Settled(q)'
    <3>1. FirstLine.by = "volume"
      <4>1. PICK i \in DOMAIN fstab : fstab[i].at = q /\ fstab[i].by = "volume"
        BY <2>6 DEF VolumeLine
      <4>2. q \in Single
        BY DEF Measured, Single
      <4>3. i = r
        BY <2>1, <2>2, <2>6, <4>1, <4>2 DEF Table, OneAt
      <4> QED  BY <2>2, <4>1, <4>3
    <3>2. CASE Growable
      <4>1. volumes'.full = volumes.full \ {q}
        BY <1>5, <2>6, <3>2, Grown DEF Look
      <4> QED  BY <1>0, <4>1 DEF Settled
    <3>3. CASE ~Growable
      <4>1. q \notin sys.lvs \/ q \notin volumes.full \/ ~(volumes.free > sys.tenth[q])
        BY <2>4, <2>6, <3>1, <3>3 DEF Growable
      <4>2. volumes.full \subseteq sys.lvs /\ volumes.free \in Nat
        BY <1>1 DEF AuditInv
      <4>3. sys.tenth[q] \in Nat
        BY <1>1 DEF System, Measured, Places
      <4>4. Settled(q)
        BY <4>1, <4>2, <4>3 DEF Settled
      <4> QED  BY <2>5, <4>4
    <3> QED  BY <3>2, <3>3
  <2>7. ASSUME NEW q \in Measured, VolumeLine(q)
        PROVE  Settled(q)' \/ q \in later' \cap need \/ (pc' # "audEnd" /\ q = dir')
    <3>1. Settled(q) \/ q \in Left \/ q = p
      BY <1>0, <1>2, <1>3, <1>5, <2>3, <2>7 DEF AuditInv, AuditSteps
    <3>2. CASE Settled(q)
      BY <2>5, <3>2
    <3>3. CASE q = p
      BY <2>6, <2>7, <3>3
    <3>4. CASE q \in Left
      BY <1>0, <1>3, <3>4
    <3> QED  BY <3>1, <3>2, <3>3, <3>4
  <2>8. ASSUME NEW q \in Measured
        PROVE  \/ volumes'.grown[q] = 0
               \/ volumes'.grown[q] = 1 /\ q \in sys.full \ volumes'.full
    <3>1. \/ volumes.grown[q] = 0
          \/ volumes.grown[q] = 1 /\ q \in sys.full \ volumes.full
      BY <1>2, <1>5, <2>8 DEF AuditInv
    <3>2. CASE Growable
      <4>1. p \in Measured => p \in volumes.full /\ p \in sys.full
        BY <2>4, <3>2 DEF Growable, AuditInv
      <4>2. /\ volumes'.full = volumes.full \ {p}
            /\ volumes'.grown = [volumes.grown EXCEPT ![p] = @ + 1]
        BY <1>5, <3>2, Grown DEF Look
      <4>3. volumes.grown \in [Places -> Nat] /\ q \in Places
        BY <2>8 DEF AuditInv, Measured, Places
      <4> HIDE DEF p
      <4>4. CASE q = p
        BY <2>8, <3>1, <4>1, <4>2, <4>3, <4>4
      <4>5. CASE q # p
        BY <3>1, <4>2, <4>3, <4>5
      <4> QED  BY <4>4, <4>5
    <3>3. CASE ~Growable
      BY <3>1, <3>3 DEF Look
    <3> QED  BY <3>2, <3>3
  <2>9. ASSUME NEW q \in Places, volumes'.grown[q] > 0
        PROVE  Holder(q) \in sys.full
    <3>1. volumes.grown[q] > 0 => Holder(q) \in sys.full
      BY <1>2, <1>5, <2>9 DEF AuditInv
    <3>2. CASE Growable
      <4>1. Holder(p) \in sys.full
        BY <2>4, <3>2 DEF Growable, AuditInv
      <4>2. volumes'.grown = [volumes.grown EXCEPT ![p] = @ + 1]
        BY <1>5, <3>2, Grown DEF Look
      <4>3. volumes.grown \in [Places -> Nat]
        BY DEF AuditInv
      <4> HIDE DEF p
      <4>4. CASE q = p
        BY <4>1, <4>4
      <4>5. CASE q # p
        BY <2>9, <3>1, <4>2, <4>3, <4>5
      <4> QED  BY <4>4, <4>5
    <3>3. CASE ~Growable
      BY <2>9, <3>1, <3>3 DEF Look
    <3> QED  BY <3>2, <3>3
  <2> QED  BY <2>7, <2>8, <2>9
<1>6. \A q : VolumeLine(q)' <=> VolumeLine(q)
  BY <1>0 DEF VolumeLine
<1>7. pc' \in {"audEnd", "audWalk"} /\ volumes'.full \subseteq sys'.full /\ ~audit'
  BY <1>0, <1>2 DEF AuditInv, AuditSteps
<1>8. need' \subseteq Important
  BY <1>0 DEF AuditInv
<1> QED  BY <1>0, <1>2, <1>4, <1>5, <1>6, <1>7, <1>8, Steady, SameHolder DEF AuditInv, AuditSteps

LEMMA AuditStep == LinesInv /\ ConfigInv /\ TabInv /\ AuditInv /\ [Next]_vars => AuditInv'
<1> SUFFICES ASSUME LinesInv, ConfigInv, TabInv, AuditInv, [Next]_vars PROVE AuditInv'
  OBVIOUS
<1>1. CASE UNCHANGED vars \/ Rest
  <2>1. UNCHANGED <<sys, pc, dir, later, need, audit, volumes, fstab, faults>>
    BY <1>1 DEF vars, Rest, run, tab, aud
  <2>2. /\ \A p : (Settled(p)' <=> Settled(p)) /\ (VolumeLine(p)' <=> VolumeLine(p))
        /\ Found' <=> Found
    BY <2>1 DEF Settled, VolumeLine, Found, Matches
  <2> QED  BY <2>1, <2>2, Steady, SameHolder DEF AuditInv
<1>2. CASE Start
  BY <1>2, NotAudit DEF Start, AuditSteps, FaultsGrow
<1>3. CASE Crash
  BY <1>3, NotAudit DEF Crash, AuditSteps, FaultsGrow
<1>4. CASE NextAction
  <2>1. UNCHANGED <<sys, aud, faults>>
    BY <1>4 DEF NextAction, run
  <2>2. pc' \notin AuditSteps
    BY <1>4, ActionMoves DEF First, Names, AuditSteps
  <2> QED  BY <2>1, <2>2, NotAudit DEF FaultsGrow
<1>5. CASE FstabNext
  <2>1. UNCHANGED <<sys, aud>> /\ FaultsGrow /\ pc' \notin AuditSteps
    BY <1>5, FstabMoves DEF FstabSteps, AuditSteps, run
  <2> QED  BY <2>1, NotAudit
<1>6. CASE GrubNext
  BY <1>6, GrubMoves, NotAudit DEF GrubSteps, AuditSteps, run
<1>7. CASE EfiNext
  BY <1>7, EfiMoves, NotAudit DEF EfiSteps, AuditSteps, run
<1>8. CASE ConfigNext
  BY <1>8, ConfigMoves, NotAudit DEF ConfigSteps, AuditSteps, run
<1>9. CASE AuditNext
  BY <1>9, AuditWalks, AuditLook DEF AuditNext
<1>10. CASE SudoNext
  BY <1>10, SudoMoves, NotAudit DEF SudoSteps, Later, Late, AuditSteps, run
<1> QED  BY <1>1, <1>2, <1>3, <1>4, <1>5, <1>6, <1>7, <1>8, <1>9, <1>10 DEF Next, Step

\* At the end of the auditd action, without a fault: no HALT, the volumes of / and /var
\* that fstab names have grown once if they were full and there was room, and none has grown
\* unless that was full in which df finds it.
THEOREM AuditHolds == Spec => []AuditDone
<1>1. ConfigInv /\ TabInv /\ AuditInv => AuditDone
  <2> SUFFICES ASSUME ConfigInv, TabInv, AuditInv, pc = "audEnd", Orderly(sys.fstab), VarFirst(sys.fstab),
                      faults = 0
               PROVE  /\ ~audit
                      /\ \A i \in DOMAIN fstab :
                            LET p == fstab[i].at
                            IN  p \in Measured /\ fstab[i].by = "volume" =>
                                    p \notin volumes.full \/ volumes.free <= sys.tenth[p]
                      /\ \A p \in Measured : volumes.grown[p] <= 1
                      /\ \A p \in Places : volumes.grown[p] > 0 => Holder(p) \in sys.full
    BY DEF AuditDone
  <2>1. ~audit
    BY DEF AuditInv, AuditSteps
  <2>2. \A p \in Measured : volumes.grown[p] <= 1
    BY DEF AuditInv
  <2>3. \A p \in Measured : VolumeLine(p) => Settled(p)
    BY DEF AuditInv, AuditSteps
  <2>4. \A p \in Places : volumes.grown[p] > 0 => Holder(p) \in sys.full
    BY DEF AuditInv
  <2> QED  BY <2>1, <2>2, <2>3, <2>4 DEF VolumeLine, Settled
<1> QED  BY <1>1, LinesInit, LinesStep, ConfigInit, ConfigStep, TabInit, TabStep, AuditInit, AuditStep,
            PTL DEF Spec
================================================================================
