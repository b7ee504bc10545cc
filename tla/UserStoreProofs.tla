--------------------------- MODULE UserStoreProofs ---------------------------
(***************************************************************************)
(* What the operators of UserStore return, for every string and every      *)
(* file: that a storable user survives its line, that appending a line is  *)
(* inserting its user, that what save() writes of any map is read back as  *)
(* that map, and that the loop of load() computes what Load says.          *)
(***************************************************************************)
EXTENDS UserStore, SequenceTheorems, FiniteSetTheorems, WellFoundedInduction, TLAPS

-----------------------------------------------------------------------------
(* Least and greatest elements. *)

\* Every non-empty set of naturals has a least element.
LEMMA LeastElement ==
    ASSUME NEW T, T \subseteq Nat, T # {}
    PROVE  \E x \in T : \A y \in T : x <= y
<1> DEFINE R == {ss \in Nat \X Nat : ss[1] < ss[2]}
<1>1. IsWellFoundedOn(R, Nat)
  BY NatLessThanWellFounded DEF OpToRel
<1>2. PICK x \in T : \A y \in T : ~(<<y, x>> \in R)
  <2> HIDE DEF R
  <2> QED  BY <1>1, WFMin
<1>3. \A y \in T : x <= y
  <2> TAKE y \in T
  <2>1. x \in Nat /\ y \in Nat
    OBVIOUS
  <2>2. ~(y < x)
    BY <1>2, <2>1
  <2> QED  BY <2>1, <2>2
<1> QED  BY <1>3

\* So does every non-empty set of indices have a greatest one.
LEMMA GreatestIndex ==
    ASSUME NEW n \in Nat, NEW T, T \subseteq 1..n, T # {}
    PROVE  \E x \in T : \A y \in T : y <= x
<1> DEFINE D == {n - i : i \in T}
<1>1. D # {} /\ \A i \in T : n - i \in Nat
  <2>1. PICK k \in T : TRUE
    OBVIOUS
  <2>2. n - k \in D
    BY <2>1
  <2>3. \A i \in T : i \in Int /\ 1 <= i /\ i <= n
    OBVIOUS
  <2> QED  BY <2>2, <2>3
<1>2. PICK d \in D : \A e \in D : d <= e
  <2>1. D \subseteq Nat
    BY <1>1
  <2> HIDE DEF D
  <2> QED  BY <1>1, <2>1, LeastElement
<1>3. PICK x \in T : d = n - x
  BY <1>2
<1>4. \A y \in T : n - x <= n - y
  BY <1>2, <1>3
<1>5. \A y \in T : y <= x
  BY <1>4
<1> QED  BY <1>5

-----------------------------------------------------------------------------
(* One line. *)

LEMMA CharIsInt == Char \subseteq Int /\ Colon \in Char
BY DEF Char, Blank, Colon

\* serialize yields a line, and the delimiter follows the name in it.
LEMMA SerializeLine ==
    ASSUME NEW u \in User
    PROVE  /\ Serialize(u) \in Text
           /\ Len(Serialize(u)) = Len(u.username) + 1 + Len(u.password)
           /\ \A i \in 1..Len(u.username) : Serialize(u)[i] = u.username[i]
           /\ Serialize(u)[Len(u.username) + 1] = Colon
           /\ \A i \in 1..Len(u.password) :
                 Serialize(u)[Len(u.username) + 1 + i] = u.password[i]
<1> DEFINE a == u.username
           b == <<Colon>>
           c == u.password
<1>1. a \in Seq(Char) /\ b \in Seq(Char) /\ c \in Seq(Char)
  BY CharIsInt DEF User, Text
<1>2. /\ Len(a) \in Nat /\ Len(b) = 1 /\ Len(c) \in Nat
      /\ b[1] = Colon
  BY <1>1, LenProperties
<1>3. /\ a \o b \in Seq(Char)
      /\ Len(a \o b) = Len(a) + 1
      /\ \A i \in 1..(Len(a) + 1) : (a \o b)[i] = IF i <= Len(a) THEN a[i] ELSE b[i - Len(a)]
  <2> HIDE DEF a, b
  <2> QED  BY <1>1, <1>2, ConcatProperties
<1> DEFINE ab == a \o b
<1>4. /\ ab \o c \in Seq(Char)
      /\ Len(ab \o c) = Len(a) + 1 + Len(c)
      /\ \A i \in 1..(Len(a) + 1 + Len(c)) :
            (ab \o c)[i] = IF i <= Len(a) + 1 THEN ab[i] ELSE c[i - (Len(a) + 1)]
  <2>1. ab \in Seq(Char) /\ c \in Seq(Char) /\ Len(ab) = Len(a) + 1
    BY <1>1, <1>3
  <2> HIDE DEF ab, a, b, c
  <2>2. /\ ab \o c \in Seq(Char)
        /\ Len(ab \o c) = Len(ab) + Len(c)
        /\ \A i \in 1..(Len(ab) + Len(c)) :
              (ab \o c)[i] = IF i <= Len(ab) THEN ab[i] ELSE c[i - Len(ab)]
    BY <2>1, ConcatProperties
  <2> QED  BY <2>1, <2>2
<1>5. Serialize(u) = (a \o b) \o c
  BY DEF Serialize
<1> HIDE DEF a, b, c
<1>6. /\ \A i \in 1..Len(a) : ((a \o b) \o c)[i] = a[i]
      /\ ((a \o b) \o c)[Len(a) + 1] = Colon
  BY <1>2, <1>3, <1>4
<1>7. \A i \in 1..Len(c) : ((a \o b) \o c)[Len(a) + 1 + i] = c[i]
  <2> TAKE i \in 1..Len(c)
  <2>1. /\ Len(a) + 1 + i \in 1..(Len(a) + 1 + Len(c))
        /\ ~(Len(a) + 1 + i <= Len(a) + 1)
        /\ (Len(a) + 1 + i) - (Len(a) + 1) = i
    BY <1>2
  <2> QED  BY <1>4, <2>1
<1> QED  BY <1>4, <1>5, <1>6, <1>7 DEF a, c, Text
\* A line is cut at its first colon, wherever that is.
LEMMA CutAt ==
    ASSUME NEW line, NEW i \in 1..(Len(line) - 1), FirstColon(line, i), Len(line) \in Nat
    PROVE  Deserialize(line) = [username |-> SubSeq(line, 1, i - 1),
                                password |-> SubSeq(line, i + 1, Len(line))]
<1> DEFINE j == CHOOSE j \in 1..(Len(line) - 1) : FirstColon(line, j)
<1>1. j \in 1..(Len(line) - 1) /\ FirstColon(line, j)
  OBVIOUS
<1>2. Deserialize(line) = [username |-> SubSeq(line, 1, j - 1),
                           password |-> SubSeq(line, j + 1, Len(line))]
  BY DEF Deserialize
<1> HIDE DEF j
<1>3. /\ line[i] = Colon /\ \A k \in 1..(i - 1) : line[k] # Colon
      /\ line[j] = Colon /\ \A k \in 1..(j - 1) : line[k] # Colon
  BY <1>1 DEF FirstColon
<1>4. i = j
  BY <1>1, <1>3
<1> QED  BY <1>2, <1>4

LEMMA DeserializeType ==
    ASSUME NEW line \in Text
    PROVE  Deserialize(line) \in User
<1>1. CASE \E i \in 1..(Len(line) - 1) : FirstColon(line, i)
  <2>1. PICK i \in 1..(Len(line) - 1) : FirstColon(line, i)
    BY <1>1
  <2>2. Len(line) \in Nat /\ \A k \in 1..Len(line) : line[k] \in Char
    BY LenProperties DEF Text
  <2>3. SubSeq(line, 1, i - 1) \in Text
    <3>1. \A k \in 1..(i - 1) : line[k] \in Char
      BY <2>2
    <3> QED  BY <2>2, <3>1, SubSeqProperties DEF Text
  <2>4. SubSeq(line, i + 1, Len(line)) \in Text
    <3>1. \A k \in (i + 1)..Len(line) : line[k] \in Char
      BY <2>2
    <3> QED  BY <2>2, <3>1, SubSeqProperties DEF Text
  <2>5. Deserialize(line) = [username |-> SubSeq(line, 1, i - 1),
                             password |-> SubSeq(line, i + 1, Len(line))]
    BY <2>1, <2>2, CutAt
  <2> QED  BY <2>3, <2>4, <2>5 DEF User
<1>2. CASE ~ \E i \in 1..(Len(line) - 1) : FirstColon(line, i)
  <2>1. <<>> \in Text
    BY EmptySeq DEF Text
  <2> QED  BY <1>2, <2>1 DEF Deserialize, NoUser, User
<1> QED  BY <1>1, <1>2

\* A user with a name, without a colon in it, and with a password is read back
\* from its line as it was: nothing is assumed of the password.
THEOREM RoundTrip ==
    ASSUME NEW u \in User, Storable(u)
    PROVE  Deserialize(Serialize(u)) = u
<1> DEFINE line == Serialize(u)
           a    == u.username
           c    == u.password
           i    == Len(a) + 1
<1>1. /\ line \in Seq(Char) /\ a \in Seq(Char) /\ c \in Seq(Char)
      /\ Len(line) = Len(a) + 1 + Len(c)
      /\ \A k \in 1..Len(a) : line[k] = a[k]
      /\ line[Len(a) + 1] = Colon
      /\ \A k \in 1..Len(c) : line[Len(a) + 1 + k] = c[k]
  BY SerializeLine DEF User, Text
<1>2. Len(a) \in Nat /\ Len(c) \in Nat /\ Len(line) \in Nat
  BY <1>1, LenProperties
<1>3. Len(c) # 0 /\ \A k \in 1..Len(a) : a[k] # Colon
  <2>1. Len(c) # 0
    BY <1>1, EmptySeq DEF Storable
  <2>2. DOMAIN a = 1..Len(a)
    BY <1>1, LenProperties
  <2> QED  BY <2>1, <2>2 DEF Storable
<1>4. u = [username |-> a, password |-> c]
  BY DEF User
<1> HIDE DEF line, a, c
<1>5. i \in 1..(Len(line) - 1) /\ FirstColon(line, i)
  <2>1. \A k \in 1..(i - 1) : line[k] # Colon
    BY <1>1, <1>2, <1>3
  <2> QED  BY <1>1, <1>2, <1>3, <2>1 DEF FirstColon
<1>6. SubSeq(line, 1, i - 1) = a
  <2> DEFINE s == SubSeq(line, 1, i - 1)
  <2>1. \A k \in 1..(i - 1) : line[k] \in Char
    BY <1>1, <1>2, LenProperties
  <2>2. /\ s \in Seq(Char) /\ Len(s) = Len(a)
        /\ \A k \in 1..(i - 1) - 1 + 1 : s[k] = line[1 + k - 1]
    BY <1>2, <2>1, SubSeqProperties
  <2> HIDE DEF s
  <2>3. \A k \in 1..Len(s) : s[k] = a[k]
    BY <1>1, <1>2, <2>2
  <2>4. s = a
    BY <1>1, <2>2, <2>3, SeqEqual
  <2> QED  BY <2>4 DEF s
<1>7. SubSeq(line, i + 1, Len(line)) = c
  <2> DEFINE s == SubSeq(line, i + 1, Len(line))
  <2>1. \A k \in (i + 1)..Len(line) : line[k] \in Char
    BY <1>1, <1>2, LenProperties
  <2>2. /\ s \in Seq(Char) /\ Len(s) = Len(c)
        /\ \A k \in 1..Len(line) - (i + 1) + 1 : s[k] = line[(i + 1) + k - 1]
    BY <1>1, <1>2, <1>3, <2>1, SubSeqProperties
  <2> HIDE DEF s
  <2>3. \A k \in 1..Len(s) : s[k] = c[k]
    <3> TAKE k \in 1..Len(s)
    <3>1. /\ k \in 1..Len(line) - (i + 1) + 1 /\ k \in 1..Len(c)
          /\ (i + 1) + k - 1 = Len(a) + 1 + k
      BY <1>1, <1>2, <2>2
    <3> QED  BY <1>1, <2>2, <3>1
  <2>4. s = c
    BY <1>1, <2>2, <2>3, SeqEqual
  <2> QED  BY <2>4 DEF s
<1>8. Deserialize(line) = [username |-> a, password |-> c]
  BY <1>2, <1>5, <1>6, <1>7, CutAt
<1> QED  BY <1>4, <1>8 DEF line
-----------------------------------------------------------------------------
(* The whole file. *)

LEMMA ByteIs == /\ Char \subseteq Byte /\ Newline \in Byte /\ Newline \notin Char
                /\ \A c \in Byte : c # Newline => c \in Char
                /\ Text \subseteq Seq(Byte)
<1>1. Char \subseteq Byte /\ Newline \in Byte /\ \A c \in Byte : c # Newline => c \in Char
  BY DEF Byte
<1>2. Newline \notin Char
  BY DEF Char, Blank, Newline
<1>3. Text \subseteq Seq(Byte)
  BY <1>1, SeqMonotonic DEF Text
<1> QED  BY <1>1, <1>2, <1>3

LEMMA FileIs ==
    ASSUME NEW file \in Seq(Byte)
    PROVE  /\ Len(file) \in Nat
           /\ LineEnds(file) \subseteq 1..(Len(file) + 1)
           /\ Len(file) + 1 \in LineEnds(file)
           /\ \A i \in 1..Len(file) : file[i] \in Byte
BY LenProperties DEF LineEnds

\* A line begins where one reads it from, at the beginning of the file or
\* after a newline, if no newline is in between.
LEMMA LineFrom ==
    ASSUME NEW file \in Seq(Byte), NEW i \in LineEnds(file), NEW j \in 1..i,
           j = 1 \/ file[j - 1] = Newline,
           \A k \in j..(i - 1) : file[k] # Newline
    PROVE  LineTo(file, i) = SubSeq(file, j, i - 1) /\ LineTo(file, i) \in Text
<1> DEFINE start == CHOOSE s \in 1..i : /\ s = 1 \/ file[s - 1] = Newline
                                        /\ \A k \in s..(i - 1) : file[k] # Newline
<1>1. /\ start \in 1..i
      /\ start = 1 \/ file[start - 1] = Newline
      /\ \A k \in start..(i - 1) : file[k] # Newline
  OBVIOUS
<1>2. LineTo(file, i) = SubSeq(file, start, i - 1)
  BY DEF LineTo
<1> HIDE DEF start
<1>3. i \in Int /\ j \in Int /\ start \in Int /\ 1 <= j /\ 1 <= start /\ j <= i /\ start <= i
  BY <1>1, FileIs
<1>4. ~(start < j)
  <2> SUFFICES ASSUME start < j PROVE FALSE
    OBVIOUS
  <2>1. j - 1 \in start..(i - 1) /\ j # 1
    BY <1>3
  <2> QED  BY <1>1, <2>1
<1>5. ~(j < start)
  <2> SUFFICES ASSUME j < start PROVE FALSE
    OBVIOUS
  <2>1. start - 1 \in j..(i - 1) /\ start # 1
    BY <1>3
  <2> QED  BY <1>1, <2>1
<1>6. start = j
  BY <1>3, <1>4, <1>5
<1>7. \A k \in j..(i - 1) : file[k] \in Char
  <2> TAKE k \in j..(i - 1)
  <2>1. k \in 1..Len(file)
    BY <1>3, FileIs
  <2> QED  BY <2>1, FileIs, ByteIs
<1>8. SubSeq(file, j, i - 1) \in Seq(Char)
  BY <1>3, <1>7, SubSeqProperties
<1> QED  BY <1>2, <1>6, <1>8 DEF Text

LEMMA LineBegins ==
    ASSUME NEW file \in Seq(Byte), NEW i \in LineEnds(file)
    PROVE  \E j \in 1..i : /\ j = 1 \/ file[j - 1] = Newline
                           /\ \A k \in j..(i - 1) : file[k] # Newline
<1> DEFINE T == {j \in 1..i : j = 1 \/ file[j - 1] = Newline}
<1>1. i \in Nat /\ T \subseteq 1..i /\ 1 \in T
  BY FileIs
<1>2. PICK j \in T : \A k \in T : k <= j
  <2> HIDE DEF T
  <2> QED  BY <1>1, GreatestIndex
<1>3. ASSUME NEW k \in j..(i - 1), file[k] = Newline PROVE FALSE
  <2>1. k + 1 \in T
    <3>1. k + 1 \in 1..i /\ (k + 1) - 1 = k
      BY <1>1
    <3> QED  BY <1>3, <3>1
  <2>2. ~(k + 1 <= j)
    BY <1>1
  <2> HIDE DEF T
  <2> QED  BY <1>2, <2>1, <2>2
<1>4. j \in 1..i /\ (j = 1 \/ file[j - 1] = Newline)
  BY <1>2
<1> QED  BY <1>3, <1>4

LEMMA LineType ==
    ASSUME NEW file \in Seq(Byte), NEW i \in LineEnds(file)
    PROVE  LineTo(file, i) \in Text /\ Deserialize(LineTo(file, i)) \in User
BY LineBegins, LineFrom, DeserializeType

LineAt(file, i) == [end |-> i, user |-> Deserialize(LineTo(file, i))]

LEMMA KeptIs ==
    ASSUME NEW file \in Seq(Byte)
    PROVE  /\ \A i \in LineEnds(file) :
                 LineAt(file, i).user.username # <<>> => LineAt(file, i) \in Kept(file)
           /\ \A line \in Kept(file) :
                 /\ line.end \in LineEnds(file) /\ line = LineAt(file, line.end)
                 /\ line.end \in 1..(Len(file) + 1)
                 /\ line.user \in User /\ line.user.username # <<>>
<1>1. \A i \in LineEnds(file) :
         LineAt(file, i).user.username # <<>> => LineAt(file, i) \in Kept(file)
  BY DEF Kept, LineAt
<1>2. ASSUME NEW line \in Kept(file)
      PROVE  /\ line.end \in LineEnds(file) /\ line = LineAt(file, line.end)
             /\ line.end \in 1..(Len(file) + 1)
             /\ line.user \in User /\ line.user.username # <<>>
  <2>1. PICK i \in LineEnds(file) : line = LineAt(file, i) /\ line.user.username # <<>>
    BY DEF Kept, LineAt
  <2>2. line.end = i /\ line.user = Deserialize(LineTo(file, i))
    BY <2>1 DEF LineAt
  <2> QED  BY <2>1, <2>2, LineType, FileIs
<1> QED  BY <1>1, <1>2

\* The name of a kept line has a last line.
LEMMA LastOfExists ==
    ASSUME NEW file \in Seq(Byte), NEW line \in Kept(file)
    PROVE  LET last == LastOf(Kept(file), line.user.username)
           IN  /\ last \in Kept(file)
               /\ last.user.username = line.user.username
               /\ \A other \in Kept(file) :
                     other.user.username = line.user.username => other.end <= last.end
<1> DEFINE kept == Kept(file)
           name == line.user.username
           T    == {other.end : other \in {l \in kept : l.user.username = name}}
<1>1. T \subseteq 1..(Len(file) + 1) /\ T # {} /\ Len(file) + 1 \in Nat
  BY KeptIs, FileIs
<1>2. PICK x \in T : \A y \in T : y <= x
  <2> HIDE DEF T
  <2> QED  BY <1>1, GreatestIndex
<1>3. PICK last \in kept : /\ last.user.username = name
                           /\ \A other \in kept :
                                 other.user.username = name => other.end <= last.end
  BY <1>2
<1> HIDE DEF name, T, kept
<1>4. /\ LastOf(kept, name) \in kept
      /\ LastOf(kept, name).user.username = name
      /\ \A other \in kept : other.user.username = name => other.end <= LastOf(kept, name).end
  BY <1>3 DEF LastOf
<1> QED  BY <1>4 DEF name, kept

\* The last of the kept lines with a name gives the name its password.
LEMMA LoadAt ==
    ASSUME NEW file \in Seq(Byte), NEW line \in Kept(file),
           \A other \in Kept(file) :
              other.user.username = line.user.username => other.end <= line.end
    PROVE  /\ line.user.username \in DOMAIN Load(file)
           /\ Load(file)[line.user.username] = line.user.password
<1> DEFINE name == line.user.username
           last == LastOf(Kept(file), name)
<1>1. /\ last \in Kept(file) /\ last.user.username = name
      /\ \A other \in Kept(file) : other.user.username = name => other.end <= last.end
  BY LastOfExists
<1>2. last = line
  <2> HIDE DEF last
  <2>1. last.end \in Int /\ line.end \in Int
    BY <1>1, KeptIs, FileIs
  <2>2. last.end = line.end
    BY <1>1, <2>1
  <2> QED  BY <1>1, <2>2, KeptIs
<1>3. name \in {l.user.username : l \in Kept(file)}
  OBVIOUS
<1>4. Load(file)[name] = last.user.password
  BY <1>3 DEF Load
<1> QED  BY <1>2, <1>3, <1>4 DEF Load

LEMMA LoadDomain ==
    ASSUME NEW file
    PROVE  DOMAIN Load(file) = {line.user.username : line \in Kept(file)}
BY DEF Load

\* Each entry of the map is what some kept line says.
LEMMA LoadFromLine ==
    ASSUME NEW file \in Seq(Byte), NEW name \in DOMAIN Load(file)
    PROVE  \E line \in Kept(file) :
              /\ line.user.username = name
              /\ Load(file)[name] = line.user.password
              /\ \A other \in Kept(file) : other.user.username = name => other.end <= line.end
<1>0. name \in {line.user.username : line \in Kept(file)}
  BY LoadDomain
<1>1. PICK line \in Kept(file) : line.user.username = name
  BY <1>0
<1>2. /\ LastOf(Kept(file), name) \in Kept(file)
      /\ LastOf(Kept(file), name).user.username = name
      /\ \A other \in Kept(file) :
            other.user.username = name => other.end <= LastOf(Kept(file), name).end
  BY <1>1, LastOfExists
<1>3. Load(file)[name] = LastOf(Kept(file), name).user.password
  BY LoadDomain DEF Load
<1> QED  BY <1>2, <1>3

LEMMA LoadType ==
    ASSUME NEW file \in Seq(Byte)
    PROVE  IsUserMap(Load(file))
<1>1. ASSUME NEW name \in DOMAIN Load(file)
      PROVE  name \in Text /\ Load(file)[name] \in Text
  <2>1. PICK line \in Kept(file) : /\ line.user.username = name
                                   /\ Load(file)[name] = line.user.password
    BY LoadFromLine
  <2>2. line.user \in User
    BY KeptIs
  <2> QED  BY <2>1, <2>2 DEF User
<1>2. Load(file) = [name \in DOMAIN Load(file) |-> Load(file)[name]]
  BY DEF Load
<1>3. IsFiniteSet(DOMAIN Load(file))
  <2> DEFINE E      == {i \in LineEnds(file) : LineAt(file, i).user.username # <<>>}
             nameAt == [i \in E |-> LineAt(file, i).user.username]
  <2>1. nameAt \in Surjection(E, DOMAIN Load(file))
    <3>1. \A i \in E : LineAt(file, i) \in Kept(file)
      BY KeptIs
    <3>2. \A line \in Kept(file) : line.end \in E /\ line.user.username = nameAt[line.end]
      BY KeptIs
    <3>3. nameAt \in [E -> DOMAIN Load(file)]
      <4> SUFFICES ASSUME NEW i \in E
                   PROVE  LineAt(file, i).user.username \in DOMAIN Load(file)
        OBVIOUS
      <4>1. LineAt(file, i).user.username \in {line.user.username : line \in Kept(file)}
        BY <3>1
      <4> QED  BY <4>1, LoadDomain
    <3>4. ASSUME NEW name \in DOMAIN Load(file) PROVE \E i \in E : nameAt[i] = name
      <4>1. PICK line \in Kept(file) : line.user.username = name
        BY LoadFromLine
      <4> QED  BY <3>2, <4>1
    <3> HIDE DEF nameAt, E
    <3> QED  BY <3>3, <3>4 DEF Surjection
  <2>2. IsFiniteSet(E)
    <3>1. /\ E \in SUBSET (1..(Len(file) + 1))
          /\ 1 \in Int /\ Len(file) + 1 \in Int
      BY FileIs
    <3> HIDE DEF E
    <3> QED  BY <3>1, FS_Interval, FS_Subset
  <2> HIDE DEF nameAt, E
  <2> QED  BY <2>1, <2>2, FS_Surjection
<1> QED  BY <1>1, <1>2, <1>3 DEF IsUserMap

LEMMA PutType ==
    ASSUME NEW users, IsUserMap(users), NEW u \in User
    PROVE  IsUserMap(Put(users, u))
<1>1. IsFiniteSet(DOMAIN users \cup {u.username})
  BY FS_AddElement DEF IsUserMap
<1>2. DOMAIN Put(users, u) = DOMAIN users \cup {u.username}
  BY DEF Put
<1>3. /\ DOMAIN Put(users, u) \subseteq Text
      /\ Put(users, u) \in [DOMAIN Put(users, u) -> Text]
  BY DEF IsUserMap, Put, User
<1> QED  BY <1>1, <1>2, <1>3 DEF IsUserMap

-----------------------------------------------------------------------------
(* One more line. *)

\* A file whose last line has its newline.
Complete(file) == file = <<>> \/ file[Len(file)] = Newline

\* The bytes of a file and a line after it, with its newline or without.
LEMMA BytesAfter ==
    ASSUME NEW file \in Seq(Byte), NEW line \in Text,
           NEW new \in {file \o line, file \o (line \o <<Newline>>)}
    PROVE  /\ Len(file) \in Nat /\ Len(line) \in Nat
           /\ new \in Seq(Byte)
           /\ \A i \in 1..Len(file) : new[i] = file[i]
           /\ \A k \in 1..Len(line) : new[Len(file) + k] = line[k] /\ line[k] \in Char
           /\ \/ new = file \o line /\ Len(new) = Len(file) + Len(line)
              \/ /\ Len(new) = Len(file) + Len(line) + 1
                 /\ new[Len(file) + Len(line) + 1] = Newline
<1> DEFINE n == Len(file)
           m == Len(line)
           t == line \o <<Newline>>
<1>1. n \in Nat /\ m \in Nat /\ line \in Seq(Byte) /\ <<Newline>> \in Seq(Byte)
  BY LenProperties, ByteIs
<1>2. Len(<<Newline>>) = 1 /\ <<Newline>>[1] = Newline
  OBVIOUS
<1>3. /\ t \in Seq(Byte) /\ Len(t) = m + 1
      /\ \A k \in 1..(m + 1) : t[k] = IF k <= m THEN line[k] ELSE <<Newline>>[k - m]
  <2>1. /\ t \in Seq(Byte) /\ Len(t) = Len(line) + Len(<<Newline>>)
        /\ \A k \in 1..(Len(line) + Len(<<Newline>>)) :
              t[k] = IF k <= Len(line) THEN line[k] ELSE <<Newline>>[k - Len(line)]
    BY <1>1, ConcatProperties
  <2> HIDE DEF t
  <2> QED  BY <1>2, <2>1
<1>4. \A k \in 1..m : line[k] \in Char
  BY LenProperties DEF Text
<1> HIDE DEF t
<1>5. t[m + 1] = Newline /\ \A k \in 1..m : t[k] = line[k]
  BY <1>1, <1>2, <1>3
<1>6. ASSUME NEW s \in Seq(Byte), new = file \o s, Len(s) \in {m, m + 1},
             \A k \in 1..m : s[k] = line[k]
      PROVE  /\ new \in Seq(Byte) /\ Len(new) = n + Len(s)
             /\ \A i \in 1..n : new[i] = file[i]
             /\ \A k \in 1..m : new[n + k] = line[k]
             /\ Len(s) = m + 1 => new[n + m + 1] = s[m + 1]
  <2> DEFINE f == file \o s
  <2>1. /\ f \in Seq(Byte) /\ Len(f) = n + Len(s)
        /\ \A i \in 1..(n + Len(s)) : f[i] = IF i <= n THEN file[i] ELSE s[i - n]
    BY <1>6, ConcatProperties
  <2> HIDE DEF f, n, m
  <2>2. \A i \in 1..n : f[i] = file[i]
    BY <1>1, <1>6, <2>1
  <2>3. \A k \in 1..Len(s) : f[n + k] = s[k]
    <3> TAKE k \in 1..Len(s)
    <3>1. n + k \in 1..(n + Len(s)) /\ ~(n + k <= n) /\ (n + k) - n = k
      BY <1>1, <1>6
    <3> QED  BY <2>1, <3>1
  <2>4. \A k \in 1..m : k \in 1..Len(s)
    BY <1>1, <1>6
  <2>5. Len(s) = m + 1 => m + 1 \in 1..Len(s) /\ n + (m + 1) = n + m + 1
    BY <1>1
  <2>6. new = f
    BY <1>6 DEF f
  <2> QED  BY <1>6, <2>1, <2>2, <2>3, <2>4, <2>5, <2>6
<1>7. CASE new = file \o line
  <2>1. Len(line) \in {m, m + 1}
    OBVIOUS
  <2> QED  BY <1>1, <1>4, <1>6, <1>7, <2>1
<1>8. CASE new = file \o t
  <2>1. /\ new \in Seq(Byte) /\ Len(new) = n + (m + 1)
        /\ \A i \in 1..n : new[i] = file[i]
        /\ \A k \in 1..m : new[n + k] = line[k]
        /\ new[n + m + 1] = t[m + 1]
    BY <1>3, <1>5, <1>6, <1>8
  <2> QED  BY <1>1, <1>4, <1>5, <2>1
<1> QED  BY <1>7, <1>8 DEF t

\* Where the line ends is the one place more at which a line may be kept.
LEMMA KeptAfter ==
    ASSUME NEW file \in Seq(Byte), Complete(file), NEW line \in Text,
           NEW new \in {file \o line, file \o (line \o <<Newline>>)}
    PROVE  Kept(new) = Kept(file) \cup
               (IF Deserialize(line).username # <<>>
                THEN {[end |-> Len(file) + Len(line) + 1, user |-> Deserialize(line)]} ELSE {})
<1> DEFINE n == Len(file)
           m == Len(line)
           u == Deserialize(line)
           e == n + m + 1
<1>1. /\ n \in Nat /\ m \in Nat /\ new \in Seq(Byte)
      /\ \A i \in 1..n : new[i] = file[i]
      /\ \A k \in 1..m : new[n + k] = line[k] /\ new[n + k] # Newline
      /\ Len(new) = n + m \/ (Len(new) = n + m + 1 /\ new[n + m + 1] = Newline)
  <2>1. /\ n \in Nat /\ m \in Nat /\ new \in Seq(Byte)
        /\ \A i \in 1..n : new[i] = file[i]
        /\ \A k \in 1..m : new[n + k] = line[k] /\ line[k] \in Char
        /\ \/ new = file \o line /\ Len(new) = n + m
           \/ Len(new) = n + m + 1 /\ new[n + m + 1] = Newline
    BY BytesAfter
  <2> HIDE DEF n, m
  <2> QED  BY <2>1, ByteIs
<1>2. n = 0 \/ file[n] = Newline
  BY EmptySeq DEF Complete
<1>3. Deserialize(<<>>).username = <<>>
  BY DEF Deserialize, NoUser
<1>4. line = SubSeq(new, n + 1, e - 1) /\ \A k \in (n + 1)..(e - 1) : new[k] # Newline
  <2>1. \A k \in (n + 1)..(e - 1) : k - n \in 1..m /\ n + (k - n) = k
    BY <1>1
  <2>2. \A k \in (n + 1)..(e - 1) : new[k] = line[k - n] /\ new[k] # Newline
    BY <1>1, <2>1
  <2>3. \A k \in 1..m : line[k] \in Char
    BY LenProperties DEF Text
  <2>4. \A k \in (n + 1)..(e - 1) : new[k] \in Char
    BY <2>1, <2>2, <2>3
  <2> DEFINE s == SubSeq(new, n + 1, e - 1)
  <2>5. /\ s \in Seq(Char)
        /\ Len(s) = IF n + 1 <= e - 1 THEN (e - 1) - (n + 1) + 1 ELSE 0
        /\ \A k \in 1..((e - 1) - (n + 1) + 1) : s[k] = new[(n + 1) + k - 1]
    BY <1>1, <2>4, SubSeqProperties
  <2> HIDE DEF s
  <2>6. Len(s) = m
    BY <1>1, <2>5
  <2>7. \A k \in 1..Len(s) : s[k] = line[k]
    <3> TAKE k \in 1..Len(s)
    <3>1. k \in 1..m /\ k \in 1..((e - 1) - (n + 1) + 1) /\ (n + 1) + k - 1 = n + k
      BY <1>1, <2>6
    <3> QED  BY <1>1, <2>5, <3>1
  <2>8. s = line
    BY <2>5, <2>6, <2>7, SeqEqual DEF Text
  <2> QED  BY <2>2, <2>8 DEF s
<1> HIDE DEF u
\* Up to n both files have the same lines.
<1>5. \A i \in 1..n : i \in LineEnds(new) <=> i \in LineEnds(file)
  BY <1>1 DEF LineEnds
<1>6. ASSUME NEW i \in 1..n, i \in LineEnds(file)
      PROVE  LineAt(new, i) = LineAt(file, i)
  <2>1. PICK j \in 1..i : /\ j = 1 \/ file[j - 1] = Newline
                          /\ \A k \in j..(i - 1) : file[k] # Newline
    BY <1>6, LineBegins
  <2>2. /\ j = 1 \/ new[j - 1] = Newline
        /\ \A k \in j..(i - 1) : new[k] # Newline /\ new[k] = file[k]
    <3>1. j # 1 => j - 1 \in 1..n
      BY <1>1
    <3>2. \A k \in j..(i - 1) : k \in 1..n
      BY <1>1
    <3> QED  BY <1>1, <2>1, <3>1, <3>2
  <2>3. LineTo(file, i) = SubSeq(file, j, i - 1) /\ LineTo(new, i) = SubSeq(new, j, i - 1)
    BY <1>1, <1>5, <1>6, <2>1, <2>2, LineFrom
  <2>4. SubSeq(new, j, i - 1) = SubSeq(file, j, i - 1)
    <3>1. /\ \A k \in j..(i - 1) : new[k] \in Byte /\ file[k] \in Byte
          /\ j \in Int /\ i - 1 \in Int
      BY <1>1, FileIs, <2>2
    <3> DEFINE a == SubSeq(new, j, i - 1)
               b == SubSeq(file, j, i - 1)
    <3>2. /\ a \in Seq(Byte) /\ Len(a) = IF j <= i - 1 THEN (i - 1) - j + 1 ELSE 0
          /\ \A k \in 1..((i - 1) - j + 1) : a[k] = new[j + k - 1]
      BY <3>1, SubSeqProperties
    <3>3. /\ b \in Seq(Byte) /\ Len(b) = IF j <= i - 1 THEN (i - 1) - j + 1 ELSE 0
          /\ \A k \in 1..((i - 1) - j + 1) : b[k] = file[j + k - 1]
      BY <3>1, SubSeqProperties
    <3> HIDE DEF a, b
    <3>4. \A k \in 1..Len(a) : a[k] = b[k]
      <4> TAKE k \in 1..Len(a)
      <4>1. k \in 1..((i - 1) - j + 1) /\ j + k - 1 \in j..(i - 1)
        BY <3>1, <3>2
      <4> QED  BY <2>2, <3>2, <3>3, <4>1
    <3>5. a = b
      BY <3>2, <3>3, <3>4, SeqEqual
    <3> QED  BY <3>5 DEF a, b
  <2> QED  BY <2>3, <2>4 DEF LineAt
<1>7. e \in LineEnds(new) /\ LineAt(new, e) = [end |-> e, user |-> u]
  <2>1. e \in LineEnds(new)
    BY <1>1 DEF LineEnds
  <2>2. n + 1 \in 1..e /\ (n + 1 = 1 \/ new[(n + 1) - 1] = Newline)
    BY <1>1, <1>2
  <2>3. LineTo(new, e) = line
    <3> HIDE DEF e
    <3> QED  BY <1>1, <1>4, <2>1, <2>2, LineFrom
  <2> QED  BY <2>1, <2>3 DEF LineAt, u
\* Behind the newlines no line is kept.
<1>8. ASSUME NEW f \in Seq(Byte), Len(f) = 0 \/ f[Len(f)] = Newline
      PROVE  LineAt(f, Len(f) + 1).user.username = <<>>
  <2> DEFINE i == Len(f) + 1
  <2>1. i \in LineEnds(f) /\ i \in Nat /\ i >= 1
    BY FileIs
  <2>2. i \in 1..i /\ (i = 1 \/ f[i - 1] = Newline) /\ i - 1 < i
    BY <1>8, <2>1
  <2>3. \A k \in i..(i - 1) : f[k] # Newline
    BY <2>1
  <2>4. LineTo(f, i) = SubSeq(f, i, i - 1) /\ SubSeq(f, i, i - 1) = <<>>
    <3> HIDE DEF i
    <3> QED  BY <2>1, <2>2, <2>3, LineFrom, SubSeqEmpty
  <2> QED  BY <1>3, <2>4 DEF LineAt
<1>9. ASSUME NEW l \in Kept(new) PROVE l \in Kept(file) \/ (u.username # <<>> /\ l = [end |-> e, user |-> u])
  <2>1. /\ l.end \in LineEnds(new) /\ l = LineAt(new, l.end) /\ l.user.username # <<>>
        /\ l.end \in 1..(Len(new) + 1)
    BY <1>1, KeptIs
  <2>2. CASE l.end \in 1..n
    BY <1>5, <1>6, <2>1, <2>2, KeptIs
  <2>3. CASE l.end = e
    BY <1>7, <2>1, <2>3
  <2>4. CASE l.end \in (n + 1)..(n + m)
    <3>1. l.end - n \in 1..m /\ n + (l.end - n) = l.end
      BY <1>1, <2>4
    <3>2. new[l.end] # Newline /\ l.end <= n + m
      BY <1>1, <2>4, <3>1
    <3>3. FALSE
      BY <1>1, <2>1, <3>2 DEF LineEnds
    <3> QED  BY <3>3
  <2>5. CASE l.end = e + 1
    <3>1. Len(new) # n + m
      BY <1>1, <2>1, <2>5
    <3>2. /\ Len(new) = n + m + 1 /\ new[Len(new)] = Newline
          /\ l.end = Len(new) + 1 /\ new \in Seq(Byte)
      BY <1>1, <2>5, <3>1
    <3>3. LineAt(new, Len(new) + 1).user.username = <<>>
      BY <1>8, <3>2
    <3> QED  BY <2>1, <3>2, <3>3
  <2>6. l.end \in 1..n \/ l.end \in (n + 1)..(n + m) \/ l.end = e \/ l.end = e + 1
    BY <1>1, <2>1
  <2> QED  BY <2>2, <2>3, <2>4, <2>5, <2>6
<1>10. ASSUME NEW l \in Kept(file) PROVE l \in Kept(new)
  <2>1. /\ l.end \in LineEnds(file) /\ l = LineAt(file, l.end) /\ l.user.username # <<>>
        /\ l.end \in 1..(n + 1)
    BY KeptIs
  <2>2. l.end # n + 1
    <3>1. n = 0 => Len(file) = 0
      OBVIOUS
    <3> QED  BY <1>2, <1>8, <2>1
  <2>3. l.end \in 1..n
    BY <1>1, <2>1, <2>2
  <2> QED  BY <1>1, <1>5, <1>6, <2>1, <2>3, KeptIs
<1>11. u.username # <<>> => [end |-> e, user |-> u] \in Kept(new)
  <2>1. LineAt(new, e).user = u
    BY <1>7
  <2> HIDE DEF e
  <2> QED  BY <1>1, <1>7, <2>1, KeptIs
<1>12. Kept(new) = Kept(file) \cup (IF u.username # <<>> THEN {[end |-> e, user |-> u]} ELSE {})
  BY <1>9, <1>10, <1>11
<1> QED  BY <1>12 DEF u

\* One turn of the loop in load(): a line that is kept puts its user into the
\* map, any other line leaves no trace.
LEMMA LoadLine ==
    ASSUME NEW file \in Seq(Byte), Complete(file), NEW line \in Text,
           NEW new \in {file \o line, file \o (line \o <<Newline>>)}
    PROVE  Load(new) = IF Deserialize(line).username # <<>>
                       THEN Put(Load(file), Deserialize(line))
                       ELSE Load(file)
<1> DEFINE u    == Deserialize(line)
           last == [end |-> Len(file) + Len(line) + 1, user |-> u]
<1>1. /\ Kept(new) = Kept(file) \cup (IF u.username # <<>> THEN {last} ELSE {})
      /\ new \in Seq(Byte)
  <2>1. Kept(new) = Kept(file) \cup (IF u.username # <<>> THEN {last} ELSE {})
    BY KeptAfter
  <2>2. new \in Seq(Byte)
    BY BytesAfter
  <2> QED  BY <2>1, <2>2
<1>2. last.user = u /\ (u.username # <<>> =>
                           \A l \in Kept(file) : l.end < last.end /\ l.end \in Int)
  <2>1. Len(file) \in Nat /\ Len(line) \in Nat
    BY LenProperties DEF Text
  <2>2. last.end = Len(file) + Len(line) + 1 /\ last.user = u
    OBVIOUS
  <2>3. ASSUME NEW l \in Kept(file) PROVE l.end \in 1..(Len(file) + 1)
    BY KeptIs
  <2>4. u.username # <<>> => Len(line) # 0
    <3> SUFFICES ASSUME Len(line) = 0 PROVE u.username = <<>>
      OBVIOUS
    <3>1. line = <<>>
      BY EmptySeq DEF Text
    <3> QED  BY <3>1 DEF Deserialize, NoUser
  <2> HIDE DEF last, u
  <2> QED  BY <2>1, <2>2, <2>3, <2>4
<1> HIDE DEF u, last
<1>3. CASE u.username = <<>>
  <2>1. Kept(new) = Kept(file)
    BY <1>1, <1>3
  <2> QED  BY <1>3, <2>1 DEF Load, u
<1>4. CASE u.username # <<>>
  <2> DEFINE map == Put(Load(file), u)
  <2>1. Kept(new) = Kept(file) \cup {last}
    BY <1>1, <1>4
  <2>2. DOMAIN Load(new) = DOMAIN map
    <3>1. DOMAIN Load(new) = DOMAIN Load(file) \cup {u.username}
      BY <1>2, <2>1, LoadDomain
    <3> QED  BY <3>1 DEF Put
  <2>3. ASSUME NEW name \in DOMAIN Load(new)
        PROVE  Load(new)[name] = map[name]
    <3>1. PICK l \in Kept(new) :
             /\ l.user.username = name
             /\ Load(new)[name] = l.user.password
             /\ \A other \in Kept(new) : other.user.username = name => other.end <= l.end
      BY <1>1, LoadFromLine
    <3>2. CASE l = last
      <4>1. name = u.username /\ map[name] = u.password
        BY <1>2, <3>1, <3>2 DEF Put
      <4> QED  BY <1>2, <3>1, <3>2, <4>1
    <3>3. CASE l # last
      <4>1. l \in Kept(file)
        BY <2>1, <3>3
      <4>2. name # u.username
        <5>1. last.end \in Int /\ l.end \in Int /\ ~(last.end <= l.end)
          <6>1. last.end \in Int
            BY LenProperties DEF last, Text
          <6> QED  BY <1>2, <1>4, <4>1, <6>1
        <5> QED  BY <1>2, <2>1, <3>1, <5>1
      <4>3. name \in DOMAIN Load(file) /\ Load(file)[name] = l.user.password
        BY <2>1, <3>1, <4>1, LoadAt
      <4>4. map[name] = Load(file)[name]
        BY <4>2, <4>3 DEF Put
      <4> QED  BY <3>1, <4>3, <4>4
    <3> QED  BY <3>2, <3>3
  <2>4. /\ Load(new) = [name \in DOMAIN Load(new) |-> Load(new)[name]]
        /\ map = [name \in DOMAIN map |-> map[name]]
    BY DEF Load, Put
  <2>5. Load(new) = map
    <3> HIDE DEF map
    <3> QED  BY <2>2, <2>3, <2>4
  <2> QED  BY <1>4, <2>5 DEF u
<1> QED  BY <1>3, <1>4

\* The line of a user is whole and made of bytes, and so is a file after it.
LEMMA LineOfIs ==
    ASSUME NEW file \in Seq(Byte), NEW u \in User
    PROVE  /\ LineOf(u) \in Seq(Byte)
           /\ file \o LineOf(u) \in Seq(Byte)
           /\ Complete(file \o LineOf(u)) /\ Complete(LineOf(u))
           /\ LineOf(u) # <<>>
<1>1. Serialize(u) \in Text /\ Serialize(u) \in Seq(Byte) /\ <<Newline>> \in Seq(Byte)
  <2>1. Serialize(u) \in Text
    BY SerializeLine
  <2>2. <<Newline>> \in Seq(Byte)
    BY ByteIs
  <2> QED  BY <2>1, <2>2, ByteIs
<1>2. LineOf(u) = Serialize(u) \o <<Newline>> /\ LineOf(u) \in Seq(Byte)
  BY <1>1, ConcatProperties DEF LineOf
<1>3. ASSUME NEW f \in Seq(Byte)
      PROVE  f \o LineOf(u) \in Seq(Byte) /\ Complete(f \o LineOf(u)) /\ f \o LineOf(u) # <<>>
  <2> DEFINE new == f \o (Serialize(u) \o <<Newline>>)
             n   == Len(f)
             m   == Len(Serialize(u))
  <2>1. /\ new \in Seq(Byte) /\ n \in Nat /\ m \in Nat
        /\ \/ new = f \o Serialize(u) /\ Len(new) = n + m
           \/ Len(new) = n + m + 1 /\ new[n + m + 1] = Newline
    BY <1>1, <1>3, BytesAfter
  <2>2. Len(new) = n + (m + 1)
    <3>1. Len(Serialize(u) \o <<Newline>>) = m + 1
      BY <1>1, ConcatProperties
    <3> QED  BY <1>1, <1>2, <1>3, <3>1, ConcatProperties DEF LineOf
  <2>3. Len(new) = n + m + 1 /\ new[n + m + 1] = Newline
    BY <2>1, <2>2
  <2> HIDE DEF new
  <2>4. new # <<>> /\ Complete(new)
    BY <2>1, <2>3, EmptySeq DEF Complete
  <2> QED  BY <1>2, <2>1, <2>4 DEF new
<1>4. <<>> \o LineOf(u) = LineOf(u)
  BY <1>2, ConcatEmptySeq
<1>5. <<>> \in Seq(Byte)
  BY EmptySeq
<1> QED  BY <1>2, <1>3, <1>4, <1>5

\* Appending the line of a new or known user to a file whose lines are whole
\* is inserting the user into the map: registerUser keeps the file and the
\* memory in step.
THEOREM LoadAppend ==
    ASSUME NEW file \in Seq(Byte), Complete(file), NEW u \in User, Storable(u)
    PROVE  Load(file \o LineOf(u)) = Put(Load(file), u)
<1>1. Serialize(u) \in Text
  BY SerializeLine
<1>2. Deserialize(Serialize(u)) = u /\ u.username # <<>>
  BY RoundTrip DEF Storable
<1> QED  BY <1>1, <1>2, LoadLine DEF LineOf

StorableMap(users) == /\ IsUserMap(users)
                      /\ \A name \in DOMAIN users : Storable(EntryOf(users, name))

LEMMA LoadNothing == Load(<<>>) = EmptyMap
<1>1. Deserialize(<<>>) = NoUser
  BY DEF Deserialize
<1>2. <<>> \in Seq(Byte) /\ Len(<<>>) = 0
  BY EmptySeq
<1>3. LineEnds(<<>>) \subseteq {1}
  <2>1. 1..(0 + 1) = {1}
    OBVIOUS
  <2> QED  BY <1>2, <2>1 DEF LineEnds
<1>4. 1 \in LineEnds(<<>>) => LineTo(<<>>, 1) = <<>>
  <2>1. 1 \in 1..1 /\ \A k \in 1..(1 - 1) : FALSE
    OBVIOUS
  <2>2. SubSeq(<<>>, 1, 1 - 1) = <<>>
    BY SubSeqEmpty
  <2> QED  BY <1>2, <2>1, <2>2, LineFrom
<1>5. Kept(<<>>) = {}
  BY <1>1, <1>3, <1>4 DEF Kept, NoUser
<1> QED  BY <1>5 DEF Load, EmptyMap

\* What save() has written, when it has written the users of these names.
Written(saved, users, names) ==
    /\ saved \in Seq(Byte) /\ Complete(saved)
    /\ names \subseteq DOMAIN users
    /\ Load(saved) = [name \in names |-> users[name]]

LEMMA NothingWritten == ASSUME NEW users PROVE Written(<<>>, users, {})
<1>1. <<>> \in Seq(Byte)
  BY EmptySeq
<1> QED  BY <1>1, LoadNothing DEF Written, Complete, EmptyMap

\* One turn of the loop in save(): what is written so far is read back as the
\* users that are written.
THEOREM LoadSaved ==
    ASSUME NEW users, StorableMap(users), NEW names, NEW saved, Written(saved, users, names),
           NEW name \in DOMAIN users \ names
    PROVE  Written(saved \o LineOf(EntryOf(users, name)), users, names \cup {name})
<1> DEFINE u == EntryOf(users, name)
<1>1. u \in User /\ Storable(u) /\ u.username = name /\ u.password = users[name]
  BY DEF StorableMap, IsUserMap, EntryOf, User
<1> HIDE DEF u
<1>2. Load(saved \o LineOf(u)) = Put(Load(saved), u)
  BY <1>1, LoadAppend DEF Written
<1>3. Put(Load(saved), u) = [x \in names \cup {name} |-> users[x]]
  BY <1>1 DEF Put, Written
<1>4. saved \o LineOf(u) \in Seq(Byte) /\ Complete(saved \o LineOf(u))
  BY <1>1, LineOfIs DEF Written
<1> QED  BY <1>2, <1>3, <1>4 DEF Written, u

LEMMA AllWritten ==
    ASSUME NEW users, IsUserMap(users), NEW saved, Written(saved, users, DOMAIN users)
    PROVE  Load(saved) = users
BY DEF Written, IsUserMap

\* As far as any newline, the bytes say nothing that the map does not say.
WholeLines(bytes, users) ==
    \A i \in 1..Len(bytes) : bytes[i] = Newline =>
        Accounts(Load(SubSeq(bytes, 1, i))) \subseteq Accounts(users)

\* One turn of the loop in save() adds one newline, at the end of the line.
LEMMA WholeLinesGrow ==
    ASSUME NEW users, StorableMap(users), NEW names, NEW saved \in Seq(Byte),
           WholeLines(saved, users), NEW name \in DOMAIN users,
           Written(saved \o LineOf(EntryOf(users, name)), users, names)
    PROVE  WholeLines(saved \o LineOf(EntryOf(users, name)), users)
<1> DEFINE u    == EntryOf(users, name)
           line == Serialize(u)
           new  == saved \o LineOf(u)
           n    == Len(saved)
           m    == Len(line)
<1>1. u \in User
  BY DEF StorableMap, IsUserMap, EntryOf, User
<1>2. line \in Text /\ LineOf(u) = line \o <<Newline>> /\ LineOf(u) \in Seq(Byte)
  BY <1>1, SerializeLine, LineOfIs DEF LineOf
<1>3. /\ n \in Nat /\ m \in Nat /\ new \in Seq(Byte)
      /\ \A k \in 1..n : new[k] = saved[k]
      /\ \A k \in 1..m : new[n + k] \in Char
  <2>1. new = saved \o (line \o <<Newline>>)
    BY <1>2
  <2> HIDE DEF line, new
  <2> QED  BY <1>2, <2>1, BytesAfter
<1>4. Len(new) = n + m + 1
  <2>1. Len(line \o <<Newline>>) = m + 1
    BY <1>2, ByteIs, ConcatProperties DEF Text
  <2> HIDE DEF line
  <2> QED  BY <1>2, <1>3, <2>1, ConcatProperties
<1>5. Load(new) = [x \in names |-> users[x]] /\ names \subseteq DOMAIN users
  BY DEF Written
<1> SUFFICES ASSUME NEW i \in 1..Len(new), new[i] = Newline
             PROVE  Accounts(Load(SubSeq(new, 1, i))) \subseteq Accounts(users)
  BY DEF WholeLines
<1>6. CASE i <= n
  <2>1. i \in 1..n /\ 1 \in 1..n
    BY <1>3, <1>4, <1>6
  <2>2. saved[i] = Newline
    BY <1>3, <2>1
  <2>3. SubSeq(new, 1, i) = SubSeq(saved, 1, i)
    BY <1>2, <2>1, SubSeqOfConcat1
  <2> QED  BY <2>1, <2>2, <2>3 DEF WholeLines
<1>7. CASE ~(i <= n)
  <2> HIDE DEF u, line, new
  <2>1. i = Len(new)
    <3>1. CASE i # n + m + 1
      <4>1. i - n \in 1..m /\ i = n + (i - n)
        <5>1. n \in Nat /\ m \in Nat /\ i \in 1..(n + m + 1) /\ ~(i <= n) /\ i # n + m + 1
          BY <1>3, <1>4, <1>7, <3>1
        <5> HIDE DEF n, m
        <5> QED  BY <5>1
      <4>2. new[i] \in Char
        BY <1>3, <4>1
      <4> QED  BY <4>2, ByteIs
    <3> QED  BY <1>4, <3>1
  <2>2. SubSeq(new, 1, i) = new
    BY <1>3, <2>1, SubSeqFull
  <2>3. Accounts(Load(new)) \subseteq Accounts(users)
    BY <1>5 DEF Accounts, EntryOf
  <2> QED  BY <2>2, <2>3
<1> QED  BY <1>6, <1>7

LEMMA WholeLinesOfPart ==
    ASSUME NEW users, NEW part \in Seq(Byte), NEW rest \in Seq(Byte),
           WholeLines(part \o rest, users)
    PROVE  WholeLines(part, users)
<1> SUFFICES ASSUME NEW i \in 1..Len(part), part[i] = Newline
             PROVE  Accounts(Load(SubSeq(part, 1, i))) \subseteq Accounts(users)
  BY DEF WholeLines
<1> DEFINE all == part \o rest
<1>1. /\ Len(part) \in Nat /\ Len(rest) \in Nat /\ Len(all) = Len(part) + Len(rest)
      /\ \A k \in 1..(Len(part) + Len(rest)) :
             all[k] = IF k <= Len(part) THEN part[k] ELSE rest[k - Len(part)]
  BY ConcatProperties, LenProperties
<1>2. SubSeq(all, 1, i) = SubSeq(part, 1, i)
  <2>1. 1 \in 1..Len(part)
    BY <1>1
  <2> QED  BY <2>1, SubSeqOfConcat1
<1>3. i \in 1..Len(all) /\ all[i] = Newline
  <2> HIDE DEF all
  <2> QED  BY <1>1
<1> QED  BY <1>2, <1>3 DEF WholeLines

\* A write puts bytes where there are bytes, and behind the last of them it
\* appends.
LEMMA WrittenAtType ==
    ASSUME NEW file \in Seq(Byte), NEW offset \in Nat, NEW bytes \in Seq(Byte)
    PROVE  /\ WrittenAt(file, offset, bytes) \in Seq(Byte)
           /\ offset = Len(file) => WrittenAt(file, offset, bytes) = file \o bytes
<1> DEFINE n   == Len(file)
           m   == Len(bytes)
           len == IF n > offset + m THEN n ELSE offset + m
           new == [i \in 1..len |-> IF i \in (offset + 1)..(offset + m) THEN bytes[i - offset]
                                    ELSE IF i <= n THEN file[i] ELSE 0]
<1>1. /\ n \in Nat /\ m \in Nat /\ len \in Nat
      /\ \A i \in 1..n : file[i] \in Byte
      /\ \A i \in 1..m : bytes[i] \in Byte
  BY LenProperties
<1>2. CASE bytes = <<>>
  <2>1. file \o bytes = file
    BY <1>2, ConcatEmptySeq
  <2> QED  BY <1>2, <2>1 DEF WrittenAt
<1>3. CASE bytes # <<>>
  <2>1. WrittenAt(file, offset, bytes) = new
    BY <1>3 DEF WrittenAt
  <2>2. 0 \in Byte
    BY DEF Byte, Char, Blank
  <2>3. new \in [1..len -> Byte]
    <3>1. \A i \in 1..len : /\ i \in (offset + 1)..(offset + m) => i - offset \in 1..m
                            /\ i <= n => i \in 1..n
      BY <1>1
    <3> QED  BY <1>1, <2>2, <3>1
  <2> HIDE DEF new, len
  <2>4. new \in Seq(Byte) /\ Len(new) = len
    <3>1. new \in Seq(Byte)
      BY <1>1, <2>3, SeqDef
    <3>2. DOMAIN new = 1..len /\ DOMAIN new = 1..Len(new) /\ Len(new) \in Nat
      BY <2>3, <3>1, LenProperties
    <3> QED  BY <1>1, <3>1, <3>2
  <2>5. ASSUME offset = n PROVE new = file \o bytes
    <3> DEFINE cat == file \o bytes
    <3>1. /\ cat \in Seq(Byte) /\ Len(cat) = n + m
          /\ \A i \in 1..(n + m) : cat[i] = IF i <= n THEN file[i] ELSE bytes[i - n]
      BY ConcatProperties
    <3>2. len = n + m
      BY <1>1, <2>5 DEF len
    <3> HIDE DEF cat
    <3>3. \A i \in 1..Len(new) : new[i] = cat[i]
      <4> TAKE i \in 1..Len(new)
      <4>1. i \in 1..len /\ i \in 1..(n + m) /\ (i \in (offset + 1)..(offset + m) <=> ~(i <= n))
        BY <1>1, <2>4, <2>5, <3>2
      <4>2. new[i] = IF i \in (offset + 1)..(offset + m) THEN bytes[i - offset]
                     ELSE IF i <= n THEN file[i] ELSE 0
        BY <4>1 DEF new
      <4> QED  BY <2>5, <3>1, <4>1, <4>2
    <3>4. new = cat
      BY <2>4, <3>1, <3>2, <3>3, SeqEqual
    <3> QED  BY <3>4 DEF cat
  <2> QED  BY <2>1, <2>4, <2>5
<1> QED  BY <1>2, <1>3

\* The part of some bytes that is written and the part that stays buffered.
LEMMA Parts ==
    ASSUME NEW bytes \in Seq(Byte), NEW n \in 0..Len(bytes)
    PROVE  /\ SubSeq(bytes, 1, n) \in Seq(Byte)
           /\ Len(SubSeq(bytes, 1, n)) = n
           /\ SubSeq(bytes, n + 1, Len(bytes)) \in Seq(Byte)
           /\ SubSeq(bytes, 1, n) \o SubSeq(bytes, n + 1, Len(bytes)) = bytes
<1>1. /\ Len(bytes) \in Nat /\ n \in Nat
      /\ \A i \in 1..Len(bytes) : bytes[i] \in Byte
  BY LenProperties
<1>2. SubSeq(bytes, 1, n) \in Seq(Byte) /\ Len(SubSeq(bytes, 1, n)) = n
  BY <1>1, SubSeqProperties
<1>3. SubSeq(bytes, n + 1, Len(bytes)) \in Seq(Byte)
  BY <1>1, SubSeqProperties
<1>4. SubSeq(bytes, 1, n) \o SubSeq(bytes, n + 1, Len(bytes)) = SubSeq(bytes, 1, Len(bytes))
  <2>1. 1 \in 1..(Len(bytes) + 1) /\ n \in (1 - 1)..Len(bytes) /\ Len(bytes) \in n..Len(bytes)
    BY <1>1
  <2> QED  BY <2>1, ConcatAdjacentSubSeq
<1> QED  BY <1>2, <1>3, <1>4, SubSeqFull

-----------------------------------------------------------------------------
(* The order in which save() visits a std::map. *)

LEMMA TextIs ==
    ASSUME NEW s \in Text
    PROVE  /\ Len(s) \in Nat /\ s = [i \in 1..Len(s) |-> s[i]]
           /\ \A i \in 1..Len(s) : s[i] \in Int
BY CharIsInt, LenProperties DEF Text

\* The place up to which two strings agree, and at which s is the lesser.
LesserAt(s, t, k) == /\ k \in 1..Len(t)
                     /\ \A j \in 1..(k - 1) : j <= Len(s) /\ s[j] = t[j]
                     /\ k <= Len(s) => s[k] < t[k]

LEMMA BeforeAt ==
    ASSUME NEW s, NEW t
    PROVE  Before(s, t) <=> \E k : LesserAt(s, t, k)
BY DEF Before, LesserAt

LEMMA BeforeIsStrict ==
    ASSUME NEW s \in Text
    PROVE  ~Before(s, s)
BY TextIs DEF Before

LEMMA BeforeIsTransitive ==
    ASSUME NEW s \in Text, NEW t \in Text, NEW u \in Text, Before(s, t), Before(t, u)
    PROVE  Before(s, u)
<1>1. PICK k : LesserAt(s, t, k)
  BY BeforeAt
<1>2. PICK m : LesserAt(t, u, m)
  BY BeforeAt
<1>3. /\ Len(s) \in Nat /\ Len(t) \in Nat /\ Len(u) \in Nat /\ k \in Int /\ m \in Int
      /\ \A i \in 1..Len(s) : s[i] \in Int
      /\ \A i \in 1..Len(t) : t[i] \in Int
      /\ \A i \in 1..Len(u) : u[i] \in Int
  BY <1>1, <1>2, TextIs DEF LesserAt
<1>4. CASE k < m
  <2>1. LesserAt(s, u, k)
    BY <1>1, <1>2, <1>3, <1>4 DEF LesserAt
  <2> QED  BY <2>1, BeforeAt
<1>5. CASE m < k
  <2>1. LesserAt(s, u, m)
    BY <1>1, <1>2, <1>3, <1>5 DEF LesserAt
  <2> QED  BY <2>1, BeforeAt
<1>6. CASE k = m
  <2>1. LesserAt(s, u, k)
    BY <1>1, <1>2, <1>3, <1>6 DEF LesserAt
  <2> QED  BY <2>1, BeforeAt
<1> QED  BY <1>3, <1>4, <1>5, <1>6

LEMMA BeforeIsTotal ==
    ASSUME NEW s \in Text, NEW t \in Text, s # t
    PROVE  Before(s, t) \/ Before(t, s)
<1> DEFINE Agree(k) == k <= Len(s) /\ k <= Len(t) /\ s[k] = t[k]
           D        == {k \in Nat \ {0} : (k <= Len(s) \/ k <= Len(t)) /\ ~Agree(k)}
<1>1. /\ Len(s) \in Nat /\ Len(t) \in Nat
      /\ \A i \in 1..Len(s) : s[i] \in Int
      /\ \A i \in 1..Len(t) : t[i] \in Int
      /\ s = [i \in 1..Len(s) |-> s[i]] /\ t = [i \in 1..Len(t) |-> t[i]]
  BY TextIs
<1>2. D # {}
  <2> SUFFICES ASSUME D = {} PROVE s = t
    OBVIOUS
  <2>1. \A k \in Nat \ {0} : k <= Len(s) \/ k <= Len(t) => Agree(k)
    OBVIOUS
  <2>2. Len(s) = Len(t)
    <3>1. CASE Len(s) < Len(t)
      <4>1. Len(t) \in Nat \ {0} /\ ~(Len(t) <= Len(s))
        BY <1>1, <3>1
      <4> QED  BY <2>1, <4>1
    <3>2. CASE Len(t) < Len(s)
      <4>1. Len(s) \in Nat \ {0} /\ ~(Len(s) <= Len(t))
        BY <1>1, <3>2
      <4> QED  BY <2>1, <4>1
    <3>3. Len(s) \in Nat /\ Len(t) \in Nat
      BY <1>1
    <3> QED  BY <3>1, <3>2, <3>3
  <2>3. \A k \in 1..Len(s) : s[k] = t[k]
    BY <1>1, <2>1
  <2> QED  BY <1>1, <2>2, <2>3
<1>3. PICK k \in D : \A j \in D : k <= j
  <2>1. D \subseteq Nat
    OBVIOUS
  <2> HIDE DEF D
  <2> QED  BY <1>2, <2>1, LeastElement
<1>4. /\ k \in Nat \ {0} /\ (k <= Len(s) \/ k <= Len(t)) /\ ~Agree(k)
      /\ \A j \in 1..(k - 1) : Agree(j)
  <2>1. k \in Nat \ {0} /\ (k <= Len(s) \/ k <= Len(t)) /\ ~Agree(k)
    OBVIOUS
  <2>2. ASSUME NEW j \in 1..(k - 1) PROVE Agree(j)
    <3>1. j \notin D /\ j \in Nat \ {0}
      BY <1>3, <2>1
    <3>2. j <= Len(s) \/ j <= Len(t)
      BY <1>1, <2>1
    <3> QED  BY <3>1, <3>2
  <2> QED  BY <2>1, <2>2
<1> HIDE DEF D
<1>5. LesserAt(s, t, k) \/ LesserAt(t, s, k)
  BY <1>1, <1>4 DEF LesserAt
<1> QED  BY <1>5, BeforeAt

\* Take the least number of names of which none goes before the others:
\* without one of them there is a first, which goes before or after it.
LEMMA FirstExists ==
    ASSUME NEW names \in SUBSET Text, IsFiniteSet(names), names # {}
    PROVE  \E name \in names : IsFirst(name, names)
<1> DEFINE Bad == {n \in Nat : \E T \in SUBSET Text : /\ IsFiniteSet(T) /\ T # {}
                                                      /\ n = Cardinality(T)
                                                      /\ \A name \in T : ~IsFirst(name, T)}
<1>1. SUFFICES Bad = {}
  <2>1. Cardinality(names) \in Nat
    BY FS_CardinalityType
  <2> QED  BY <2>1
<1>2. SUFFICES ASSUME Bad # {} PROVE FALSE
  OBVIOUS
<1>3. PICK n \in Bad : \A m \in Bad : n <= m
  <2>1. Bad \subseteq Nat
    OBVIOUS
  <2> HIDE DEF Bad
  <2> QED  BY <1>2, <2>1, LeastElement
<1>4. PICK T \in SUBSET Text : /\ IsFiniteSet(T) /\ T # {} /\ n = Cardinality(T)
                               /\ \A name \in T : ~IsFirst(name, T)
  OBVIOUS
<1>5. PICK x \in T : TRUE
  BY <1>4
<1> DEFINE rest == T \ {x}
<1>6. IsFiniteSet(rest) /\ Cardinality(rest) = n - 1 /\ n - 1 \in Nat /\ n \in Nat
  <2>1. IsFiniteSet(rest) /\ Cardinality(rest) = n - 1
    BY <1>4, <1>5, FS_RemoveElement
  <2> QED  BY <2>1, FS_CardinalityType
<1>7. rest # {}
  <2> SUFFICES ASSUME rest = {} PROVE FALSE
    OBVIOUS
  <2>1. IsFirst(x, T)
    BY <1>5 DEF IsFirst
  <2> QED  BY <1>4, <2>1
<1>8. PICK y \in rest : IsFirst(y, rest)
  <2>1. n - 1 \notin Bad
    <3>1. ~(n <= n - 1)
      BY <1>6
    <3> HIDE DEF Bad
    <3> QED  BY <1>3, <3>1
  <2>2. rest \in SUBSET Text
    BY <1>4
  <2> HIDE DEF rest
  <2> QED  BY <1>6, <1>7, <2>1, <2>2
<1>9. x \in Text /\ y \in Text /\ x # y /\ T = rest \cup {x}
  BY <1>4, <1>5, <1>8
<1>10. CASE Before(x, y)
  <2>1. ASSUME NEW other \in T \ {x} PROVE Before(x, other)
    <3>1. CASE other = y
      BY <1>10, <3>1
    <3>2. CASE other # y
      <4>1. Before(y, other) /\ other \in Text
        BY <1>4, <1>8, <2>1, <3>2 DEF IsFirst
      <4> QED  BY <1>9, <1>10, <4>1, BeforeIsTransitive
    <3> QED  BY <3>1, <3>2
  <2> QED  BY <1>4, <1>5, <2>1 DEF IsFirst
<1>11. CASE Before(y, x)
  <2>1. IsFirst(y, T)
    BY <1>8, <1>9, <1>11 DEF IsFirst
  <2> QED  BY <1>4, <1>8, <2>1
<1> QED  BY <1>9, <1>10, <1>11, BeforeIsTotal

\* Whatever map is in memory, save() finds a user to write next until it has
\* written them all.
THEOREM SaveFindsNext ==
    ASSUME NEW users, IsUserMap(users), NEW names \in SUBSET DOMAIN users,
           names # DOMAIN users
    PROVE  \E name \in DOMAIN users : IsFirst(name, DOMAIN users \ names)
<1>1. /\ DOMAIN users \ names \in SUBSET Text /\ DOMAIN users \ names # {}
      /\ DOMAIN users \ names \subseteq DOMAIN users
  BY DEF IsUserMap
<1>2. IsFiniteSet(DOMAIN users \ names)
  BY <1>1, FS_Subset DEF IsUserMap
<1>3. PICK name \in DOMAIN users \ names : IsFirst(name, DOMAIN users \ names)
  BY <1>1, <1>2, FirstExists
<1> QED  BY <1>1, <1>3

\* What load() builds can be written and read back, whatever was in the file.
LEMMA LoadStorable ==
    ASSUME NEW file \in Seq(Byte)
    PROVE  StorableMap(Load(file))
<1>1. ASSUME NEW name \in DOMAIN Load(file)
      PROVE  Storable(EntryOf(Load(file), name))
  <2>1. PICK k \in Kept(file) : /\ k.user.username = name
                                /\ Load(file)[name] = k.user.password
    BY LoadFromLine
  <2> DEFINE line == LineTo(file, k.end)
  <2>0. k.end \in LineEnds(file) /\ k.user = Deserialize(line) /\ k.user.username # <<>>
    BY KeptIs DEF LineAt
  <2>2. /\ line \in Seq(Char) /\ Len(line) \in Nat
        /\ \A j \in 1..Len(line) : line[j] \in Char
        /\ Deserialize(line).username # <<>>
    <3>1. line \in Text
      BY <2>0, LineType
    <3> QED  BY <2>0, <3>1, LenProperties DEF Text
  <2> HIDE DEF line
  <2>3. PICK i \in 1..(Len(line) - 1) : FirstColon(line, i)
    BY <2>2 DEF Deserialize, NoUser
  <2>4. Deserialize(line) = [username |-> SubSeq(line, 1, i - 1),
                             password |-> SubSeq(line, i + 1, Len(line))]
    BY <2>2, <2>3, CutAt
  <2>5. SubSeq(line, i + 1, Len(line)) # <<>>
    <3> DEFINE s == SubSeq(line, i + 1, Len(line))
    <3>1. /\ i + 1 \in Int /\ i + 1 <= Len(line)
          /\ \A j \in (i + 1)..Len(line) : line[j] \in Char
      BY <2>2, <2>3
    <3>2. Len(s) = Len(line) - (i + 1) + 1
      BY <2>2, <3>1, SubSeqProperties
    <3> HIDE DEF s
    <3>3. Len(s) # 0
      BY <2>2, <3>1, <3>2
    <3>4. s # <<>>
      BY <3>3, EmptySeq
    <3> QED  BY <3>4 DEF s
  <2>6. \A j \in DOMAIN SubSeq(line, 1, i - 1) : SubSeq(line, 1, i - 1)[j] # Colon
    <3> DEFINE s == SubSeq(line, 1, i - 1)
    <3>1. /\ i - 1 \in Int /\ i \in Nat
          /\ \A j \in 1..(i - 1) : line[j] \in Char
      BY <2>2, <2>3
    <3>2. /\ s \in Seq(Char)
          /\ Len(s) = IF 1 <= i - 1 THEN (i - 1) - 1 + 1 ELSE 0
          /\ \A j \in 1..((i - 1) - 1 + 1) : s[j] = line[1 + j - 1]
      BY <3>1, SubSeqProperties
    <3> HIDE DEF s
    <3>3. DOMAIN s = 1..Len(s)
      BY <3>2, LenProperties
    <3>4. \A j \in DOMAIN s : j \in 1..(i - 1) /\ s[j] = line[j]
      BY <3>1, <3>2, <3>3
    <3>5. \A j \in DOMAIN s : s[j] # Colon
      BY <2>3, <3>4 DEF FirstColon
    <3> QED  BY <3>5 DEF s
  <2>7. EntryOf(Load(file), name) = Deserialize(line)
    <3>1. k.user = [username |-> name, password |-> Load(file)[name]]
      BY <2>0, <2>1, <2>4
    <3> QED  BY <2>0, <3>1 DEF line, EntryOf
  <2>8. Storable(Deserialize(line))
    <3> DEFINE u == Deserialize(line)
    <3>1. u.username = SubSeq(line, 1, i - 1) /\ u.password = SubSeq(line, i + 1, Len(line))
      BY <2>4
    <3>2. u.username # <<>> /\ u.password # <<>>
      BY <2>2, <2>5, <3>1
    <3> HIDE DEF u
    <3>3. \A j \in DOMAIN u.username : u.username[j] # Colon
      BY <2>6, <3>1
    <3>4. Storable(u)
      BY <3>2, <3>3 DEF Storable
    <3> QED  BY <3>4 DEF u
  <2> QED  BY <2>7, <2>8
<1> QED  BY <1>1, LoadType DEF StorableMap

LEMMA PutStorable ==
    ASSUME NEW users, StorableMap(users), NEW u \in User, Storable(u)
    PROVE  StorableMap(Put(users, u))
<1>1. ASSUME NEW name \in DOMAIN Put(users, u)
      PROVE  Storable(EntryOf(Put(users, u), name))
  <2>1. CASE name = u.username
    <3>1. EntryOf(Put(users, u), name) = u
      BY <2>1 DEF Put, EntryOf, User
    <3> QED  BY <3>1
  <2>2. CASE name # u.username
    <3>1. name \in DOMAIN users /\ EntryOf(Put(users, u), name) = EntryOf(users, name)
      BY <2>2 DEF Put, EntryOf
    <3> QED  BY <3>1 DEF StorableMap
  <2> QED  BY <2>1, <2>2
<1> QED  BY <1>1, PutType DEF StorableMap

LEMMA EmptyMapStorable == StorableMap(EmptyMap)
BY FS_EmptySet DEF StorableMap, IsUserMap, EmptyMap

\* Put keeps every other account, and matches its own user.
LEMMA PutMatches ==
    ASSUME NEW users, NEW u, NEW v, Matches(users, v), u.username \notin DOMAIN users
    PROVE  Matches(Put(users, u), v) /\ Matches(Put(users, u), u)
BY DEF Matches, Put

-----------------------------------------------------------------------------
(* The loops of load() and save(), as LoadLoop has them. *)

\* Files of up to mf bytes, characters out of cs and newlines.
Reading(cs, mf, file, pos, users, saved, written) ==
    INSTANCE LoadLoop WITH Letters <- cs, MaxFile <- mf

\* The operators that LoadLoop takes from UserStore are those of UserStore.
LEMMA LoopOperators ==
    ASSUME NEW cs \in SUBSET Char, NEW mf \in Nat,
           NEW file, NEW pos, NEW users, NEW saved, NEW written
    PROVE  /\ \A l : Reading(cs, mf, file, pos, users, saved, written)!Deserialize(l)
                       = Deserialize(l)
           /\ \A m, u : Reading(cs, mf, file, pos, users, saved, written)!Put(m, u) = Put(m, u)
           /\ \A f : Reading(cs, mf, file, pos, users, saved, written)!LineEnds(f) = LineEnds(f)
           /\ \A f : Reading(cs, mf, file, pos, users, saved, written)!Load(f) = Load(f)
           /\ \A u : Reading(cs, mf, file, pos, users, saved, written)!LineOf(u) = LineOf(u)
           /\ \A m, name : Reading(cs, mf, file, pos, users, saved, written)!EntryOf(m, name)
                             = EntryOf(m, name)
           /\ \A m : Reading(cs, mf, file, pos, users, saved, written)!Accounts(m) = Accounts(m)
           /\ \A name, T : Reading(cs, mf, file, pos, users, saved, written)!IsFirst(name, T)
                             <=> IsFirst(name, T)
<1>1. \A l : Reading(cs, mf, file, pos, users, saved, written)!Deserialize(l) = Deserialize(l)
  BY DEF Reading!Deserialize, Reading!FirstColon, Reading!NoUser, Reading!Colon,
         Deserialize, FirstColon, NoUser, Colon
<1>2. \A f : Reading(cs, mf, file, pos, users, saved, written)!LineEnds(f) = LineEnds(f)
  BY DEF Reading!LineEnds, Reading!Newline, LineEnds, Newline
<1>3. \A f, i : Reading(cs, mf, file, pos, users, saved, written)!LineTo(f, i) = LineTo(f, i)
  BY DEF Reading!LineTo, Reading!Newline, LineTo, Newline
<1>4. \A f : Reading(cs, mf, file, pos, users, saved, written)!Kept(f) = Kept(f)
  BY <1>1, <1>2, <1>3 DEF Reading!Kept, Kept
<1>5. \A k, name : Reading(cs, mf, file, pos, users, saved, written)!LastOf(k, name)
                     = LastOf(k, name)
  BY DEF Reading!LastOf, LastOf
<1>6. \A f : Reading(cs, mf, file, pos, users, saved, written)!Load(f) = Load(f)
  BY <1>4, <1>5 DEF Reading!Load, Load
<1>7. \A m, u : Reading(cs, mf, file, pos, users, saved, written)!Put(m, u) = Put(m, u)
  BY DEF Reading!Put, Put
<1>8. \A u : Reading(cs, mf, file, pos, users, saved, written)!LineOf(u) = LineOf(u)
  BY DEF Reading!LineOf, Reading!Serialize, Reading!Colon, Reading!Newline,
         LineOf, Serialize, Colon, Newline
<1>9. /\ \A m, name : Reading(cs, mf, file, pos, users, saved, written)!EntryOf(m, name)
                        = EntryOf(m, name)
      /\ \A m : Reading(cs, mf, file, pos, users, saved, written)!Accounts(m) = Accounts(m)
  BY DEF Reading!EntryOf, Reading!Accounts, EntryOf, Accounts
<1>10. \A name, T : Reading(cs, mf, file, pos, users, saved, written)!IsFirst(name, T)
                      <=> IsFirst(name, T)
  BY DEF Reading!IsFirst, Reading!Before, IsFirst, Before
<1> QED  BY <1>1, <1>2, <1>6, <1>7, <1>8, <1>9, <1>10

\* The map holds what Load makes of the bytes read so far, which end a line,
\* and what is written is read back as the users that were written.
LoopInv(file, pos, users, saved, written) ==
    /\ file \in Seq(Byte)
    /\ pos \in 0..Len(file)
    /\ users = Load(SubSeq(file, 1, pos))
    /\ pos < Len(file) => /\ Complete(SubSeq(file, 1, pos))
                          /\ written = {} /\ saved = <<>>
    /\ StorableMap(users)
    /\ Written(saved, users, written)

LEMMA LoopStarts ==
    ASSUME NEW letters \in SUBSET Char, NEW most \in Nat,
           NEW file \in UNION {[1..n -> letters \cup {Newline}] : n \in 0..most}
    PROVE  LoopInv(file, 0, EmptyMap, <<>>, {})
<1>1. file \in Seq(Byte)
  <2>1. \A n \in Nat : \A f \in [1..n -> letters \cup {Newline}] : f \in Seq(Byte)
    BY SeqDef DEF Byte
  <2> QED  BY <2>1
<1>2. SubSeq(file, 1, 0) = <<>> /\ Len(file) \in Nat
  BY <1>1, SubSeqEmpty, LenProperties
<1>3. Load(<<>>) = EmptyMap /\ StorableMap(EmptyMap) /\ Written(<<>>, EmptyMap, {})
  BY LoadNothing, EmptyMapStorable, NothingWritten
<1>4. 0 \in 0..Len(file) /\ Complete(<<>>)
  BY <1>2 DEF Complete
<1> QED  BY <1>1, <1>2, <1>3, <1>4 DEF LoopInv

LoopNext(users, l) == IF l # <<>> /\ Deserialize(l).username # <<>>
                      THEN Put(users, Deserialize(l)) ELSE users

\* One turn of the loop of load().
LEMMA LoopReads ==
    ASSUME NEW file, NEW pos, NEW users, NEW saved, NEW written,
           LoopInv(file, pos, users, saved, written), pos < Len(file),
           NEW i \in LineEnds(file), i > pos, \A j \in LineEnds(file) : j > pos => i <= j
    PROVE  LoopInv(file, IF i <= Len(file) THEN i ELSE Len(file),
                   LoopNext(users, SubSeq(file, pos + 1, i - 1)), saved, written)
<1> DEFINE line == SubSeq(file, pos + 1, i - 1)
           done == SubSeq(file, 1, pos)
           next == IF i <= Len(file) THEN i ELSE Len(file)
           new  == SubSeq(file, 1, next)
<1>1. /\ file \in Seq(Byte) /\ Len(file) \in Nat /\ pos \in Nat /\ i \in Nat
      /\ i \in 1..(Len(file) + 1) /\ \A k \in 1..Len(file) : file[k] \in Byte
      /\ users = Load(done) /\ Complete(done) /\ written = {} /\ saved = <<>>
  BY FileIs, LenProperties DEF LoopInv
<1>2. \A k \in (pos + 1)..(i - 1) : file[k] \in Char /\ file[k] # Newline
  <2> TAKE k \in (pos + 1)..(i - 1)
  <2>1. k \in 1..Len(file) /\ k \in 1..(Len(file) + 1) /\ k > pos /\ ~(i <= k)
    BY <1>1
  <2>2. k \notin LineEnds(file)
    BY <2>1
  <2>3. file[k] # Newline
    BY <2>1, <2>2 DEF LineEnds
  <2> QED  BY <1>1, <2>1, <2>3, ByteIs
<1>3. line \in Text
  BY <1>1, <1>2, SubSeqProperties DEF Text
<1>4. done \in Seq(Byte)
  BY <1>1, SubSeqProperties
<1>5. done \o line = SubSeq(file, 1, i - 1)
  <2>1. 1 \in 1..(Len(file) + 1) /\ pos \in (1 - 1)..Len(file) /\ i - 1 \in pos..Len(file)
    BY <1>1
  <2> QED  BY <1>1, <2>1, ConcatAdjacentSubSeq
<1>6. new \in {done \o line, done \o (line \o <<Newline>>)}
  <2>1. CASE i <= Len(file)
    <3>1. file[i] = Newline
      BY <1>1, <2>1 DEF LineEnds
    <3>2. SubSeq(file, 1, i) = SubSeq(file, 1, i - 1) \o <<file[i]>>
      <4>1. 1 \in 1..Len(file) /\ i \in 1..Len(file)
        BY <1>1, <2>1
      <4> QED  BY <1>1, <4>1, SubSeqRecursiveSecond
    <3>3. done \o (line \o <<Newline>>) = (done \o line) \o <<Newline>>
      <4>1. line \in Seq(Byte)
        BY <1>3, ByteIs
      <4>2. <<Newline>> \in Seq(Byte)
        BY ByteIs
      <4> HIDE DEF done, line
      <4> QED  BY <1>4, <4>1, <4>2, ConcatAssociative
    <3> QED  BY <1>5, <2>1, <3>1, <3>2, <3>3
  <2>2. CASE ~(i <= Len(file))
    <3>1. i - 1 = Len(file)
      BY <1>1, <2>2
    <3> QED  BY <1>5, <2>2, <3>1
  <2> QED  BY <2>1, <2>2
<1>7. next \in 0..Len(file) /\ (next < Len(file) => next = i /\ i <= Len(file))
  BY <1>1
<1>8. next < Len(file) => Complete(new)
  <2> SUFFICES ASSUME next < Len(file) PROVE Complete(new)
    OBVIOUS
  <2>1. i \in 1..Len(file) /\ file[i] = Newline /\ new = SubSeq(file, 1, i)
    BY <1>1, <1>7 DEF LineEnds
  <2>2. Len(SubSeq(file, 1, i)) = i /\ SubSeq(file, 1, i)[i] = file[i]
    BY <1>1, <2>1, SubSeqProperties
  <2> QED  BY <2>1, <2>2 DEF Complete
<1>9. line = <<>> => Deserialize(line).username = <<>>
  BY DEF Deserialize, NoUser
<1>10. new \in Seq(Byte)
  <2>1. next \in Int /\ next <= Len(file) /\ \A k \in 1..next : file[k] \in Byte
    BY <1>1, <1>7
  <2> HIDE DEF next
  <2> QED  BY <1>1, <2>1, SubSeqProperties
<1> HIDE DEF line, done, new, next
<1>11. LoopNext(users, line) = Load(new)
  BY <1>1, <1>3, <1>4, <1>6, <1>9, LoadLine DEF LoopNext
<1>12. StorableMap(Load(new)) /\ Written(<<>>, Load(new), {})
  BY <1>10, LoadStorable, NothingWritten
<1>13. LoopInv(file, next, LoopNext(users, line), saved, written)
  BY <1>1, <1>7, <1>8, <1>11, <1>12 DEF LoopInv, new
<1> QED  BY <1>13 DEF next, line

\* One turn of the loop of save().
LEMMA LoopWrites ==
    ASSUME NEW file, NEW pos, NEW users, NEW saved, NEW written,
           LoopInv(file, pos, users, saved, written), pos = Len(file),
           NEW name \in DOMAIN users \ written
    PROVE  LoopInv(file, pos, users, saved \o LineOf(EntryOf(users, name)),
                   written \cup {name})
<1>1. Written(saved \o LineOf(EntryOf(users, name)), users, written \cup {name})
  BY LoadSaved DEF LoopInv
<1>2. ~(pos < Len(file))
  BY LenProperties DEF LoopInv
<1> QED  BY <1>1, <1>2 DEF LoopInv

LEMMA LoopHolds ==
    ASSUME NEW cs \in SUBSET Char, NEW mf \in Nat,
           NEW VARIABLE file, NEW VARIABLE pos, NEW VARIABLE users,
           NEW VARIABLE saved, NEW VARIABLE written
    PROVE  Reading(cs, mf, file, pos, users, saved, written)!Spec
             => []LoopInv(file, pos, users, saved, written)
<1>1. Reading(cs, mf, file, pos, users, saved, written)!Init
        => LoopInv(file, pos, users, saved, written)
  <2> SUFFICES ASSUME Reading(cs, mf, file, pos, users, saved, written)!Init
               PROVE  LoopInv(file, pos, users, saved, written)
    OBVIOUS
  <2>1. /\ file \in UNION {[1..n -> cs \cup {Newline}] : n \in 0..mf}
        /\ pos = 0 /\ users = EmptyMap /\ saved = <<>> /\ written = {}
    BY DEF Reading!Init, Reading!EmptyMap, Reading!Newline, EmptyMap, Newline
  <2> QED  BY <2>1, LoopStarts
<1>2. /\ LoopInv(file, pos, users, saved, written)
      /\ [Reading(cs, mf, file, pos, users, saved, written)!Next]_
           (Reading(cs, mf, file, pos, users, saved, written)!vars)
      => LoopInv(file, pos, users, saved, written)'
  <2> SUFFICES ASSUME LoopInv(file, pos, users, saved, written),
                      [Reading(cs, mf, file, pos, users, saved, written)!Next]_
                        (Reading(cs, mf, file, pos, users, saved, written)!vars)
               PROVE  LoopInv(file, pos, users, saved, written)'
    OBVIOUS
  <2>0. /\ \A l : Reading(cs, mf, file, pos, users, saved, written)!Deserialize(l)
                    = Deserialize(l)
        /\ \A m, u : Reading(cs, mf, file, pos, users, saved, written)!Put(m, u) = Put(m, u)
        /\ \A f : Reading(cs, mf, file, pos, users, saved, written)!LineEnds(f) = LineEnds(f)
        /\ \A u : Reading(cs, mf, file, pos, users, saved, written)!LineOf(u) = LineOf(u)
        /\ \A m, name : Reading(cs, mf, file, pos, users, saved, written)!EntryOf(m, name)
                          = EntryOf(m, name)
        /\ \A name, T : Reading(cs, mf, file, pos, users, saved, written)!IsFirst(name, T)
                          <=> IsFirst(name, T)
    BY LoopOperators
  <2>1. CASE Reading(cs, mf, file, pos, users, saved, written)!ReadLine
    <3>1. PICK i \in LineEnds(file) :
             /\ i > pos /\ \A j \in LineEnds(file) : j > pos => i <= j
             /\ users' = LoopNext(users, SubSeq(file, pos + 1, i - 1))
             /\ pos' = IF i <= Len(file) THEN i ELSE Len(file)
      BY <2>0, <2>1 DEF Reading!ReadLine, Reading!NextEnd, LoopNext
    <3>2. pos < Len(file) /\ file' = file /\ saved' = saved /\ written' = written
      BY <2>1 DEF Reading!ReadLine
    <3>3. LoopInv(file, pos', users', saved, written)
      BY <3>1, <3>2, LoopReads
    <3> QED  BY <3>2, <3>3 DEF LoopInv
  <2>2. CASE Reading(cs, mf, file, pos, users, saved, written)!WriteLine
    <3>1. PICK name \in DOMAIN users :
             /\ IsFirst(name, DOMAIN users \ written)
             /\ saved' = saved \o LineOf(EntryOf(users, name))
             /\ written' = written \cup {name}
      BY <2>0, <2>2 DEF Reading!WriteLine
    <3>2. pos = Len(file) /\ file' = file /\ pos' = pos /\ users' = users
      BY <2>2 DEF Reading!WriteLine
    <3>3. name \in DOMAIN users \ written
      BY <3>1 DEF IsFirst
    <3>4. LoopInv(file, pos, users, saved', written')
      BY <3>1, <3>2, <3>3, LoopWrites
    <3> QED  BY <3>2, <3>4 DEF LoopInv
  <2>3. CASE UNCHANGED Reading(cs, mf, file, pos, users, saved, written)!vars
    BY <2>3 DEF Reading!vars, LoopInv
  <2> QED  BY <2>1, <2>2, <2>3 DEF Reading!Next
<1> QED  BY <1>1, <1>2, PTL DEF Reading!Spec

\* load(), which reads a line at a time, computes Load of the bytes it has
\* read, whatever they are and however many.
THEOREM LoopIsLoad ==
    ASSUME NEW cs \in SUBSET Char, NEW mf \in Nat,
           NEW VARIABLE file, NEW VARIABLE pos, NEW VARIABLE users,
           NEW VARIABLE saved, NEW VARIABLE written
    PROVE  Reading(cs, mf, file, pos, users, saved, written)!Spec
             => []Reading(cs, mf, file, pos, users, saved, written)!LoopComputesLoad
<1>1. LoopInv(file, pos, users, saved, written)
        => Reading(cs, mf, file, pos, users, saved, written)!LoopComputesLoad
  <2>1. \A f : Reading(cs, mf, file, pos, users, saved, written)!Load(f) = Load(f)
    BY LoopOperators
  <2> QED  BY <2>1 DEF LoopInv, Reading!LoopComputesLoad
<1> QED  BY <1>1, LoopHolds, PTL

\* Whatever was in the file that load() read, save() finds a user to write
\* next until it has written them all, and what it has written is read back
\* as the users it has written.
THEOREM LoopIsReadBack ==
    ASSUME NEW cs \in SUBSET Char, NEW mf \in Nat,
           NEW VARIABLE file, NEW VARIABLE pos, NEW VARIABLE users,
           NEW VARIABLE saved, NEW VARIABLE written
    PROVE  Reading(cs, mf, file, pos, users, saved, written)!Spec
             => []Reading(cs, mf, file, pos, users, saved, written)!SavedIsReadBack
<1>1. LoopInv(file, pos, users, saved, written)
        => Reading(cs, mf, file, pos, users, saved, written)!SavedIsReadBack
  <2> SUFFICES ASSUME LoopInv(file, pos, users, saved, written)
               PROVE  Reading(cs, mf, file, pos, users, saved, written)!SavedIsReadBack
    OBVIOUS
  <2>0. /\ \A f : Reading(cs, mf, file, pos, users, saved, written)!Load(f) = Load(f)
        /\ \A m, name : Reading(cs, mf, file, pos, users, saved, written)!EntryOf(m, name)
                          = EntryOf(m, name)
        /\ \A m : Reading(cs, mf, file, pos, users, saved, written)!Accounts(m) = Accounts(m)
        /\ \A name, T : Reading(cs, mf, file, pos, users, saved, written)!IsFirst(name, T)
                          <=> IsFirst(name, T)
    BY LoopOperators
  <2>1. Accounts(Load(saved)) = {EntryOf(users, name) : name \in written}
    <3>1. Load(saved) = [name \in written |-> users[name]]
      BY DEF LoopInv, Written
    <3>2. \A name \in written : EntryOf(Load(saved), name) = EntryOf(users, name)
      BY <3>1 DEF EntryOf
    <3> QED  BY <3>1, <3>2 DEF Accounts
  <2>2. written # DOMAIN users =>
           \E name \in DOMAIN users : IsFirst(name, DOMAIN users \ written)
    <3>1. IsUserMap(users) /\ written \in SUBSET DOMAIN users
      BY DEF LoopInv, Written, StorableMap
    <3> QED  BY <3>1, SaveFindsNext
  <2> QED  BY <2>0, <2>1, <2>2 DEF Reading!SavedIsReadBack
<1> QED  BY <1>1, LoopHolds, PTL
=============================================================================
