---------------------------- MODULE PathsProofs ----------------------------
(***************************************************************************)
(* validatePath (zk/util.go) accepts the valid paths and, in one case,     *)
(* others, for paths of every length: run "calls" goes up to MaxPath.      *)
(***************************************************************************)
EXTENDS Paths, SequenceTheorems, WellFoundedInduction, TLAPS

(***************************************************************************)
(* The reference, rune by rune: the components "", "." and ".." that begin *)
(* after a slash at i.                                                     *)
(***************************************************************************)
Ends(p, j) == j = Len(p) + 1 \/ (j <= Len(p) /\ p[j] = Slash)

Nameless(p, i) ==
  \/ Ends(p, i + 1)
  \/ i + 1 <= Len(p) /\ p[i + 1] = Dot /\ Ends(p, i + 2)
  \/ i + 2 <= Len(p) /\ p[i + 1] = Dot /\ p[i + 2] = Dot /\ Ends(p, i + 3)

\* A sequence is told from a short one by its length and its elements.
LEMMA ShortSeqs ==
  ASSUME NEW c \in Seq(Runes), NEW x \in Runes, NEW y \in Runes
  PROVE  /\ c = <<>> <=> Len(c) = 0
         /\ c = <<x>> <=> Len(c) = 1 /\ c[1] = x
         /\ c = <<x, y>> <=> Len(c) = 2 /\ c[1] = x /\ c[2] = y
<1>1. /\ <<x>> \in Seq(Runes) /\ Len(<<x>>) = 1 /\ <<x>>[1] = x
      /\ <<x, y>> \in Seq(Runes) /\ Len(<<x, y>>) = 2
      /\ <<x, y>>[1] = x /\ <<x, y>>[2] = y
  OBVIOUS
<1>2. ASSUME Len(c) = 1, c[1] = x PROVE c = <<x>>
  <2>1. \A k \in 1 .. Len(c) : c[k] = <<x>>[k]
    BY <1>1, <1>2
  <2>2. QED  BY <1>1, <1>2, <2>1, SeqEqual
<1>3. ASSUME Len(c) = 2, c[1] = x, c[2] = y PROVE c = <<x, y>>
  <2>1. \A k \in 1 .. Len(c) : c[k] = <<x, y>>[k]
    BY <1>1, <1>3
  <2>2. QED  BY <1>1, <1>3, <2>1, SeqEqual
<1>4. c = <<>> <=> Len(c) = 0
  OBVIOUS
<1>5. QED  BY <1>1, <1>2, <1>3, <1>4

\* Which part of a path is one of the three.
LEMMA PartIs ==
  ASSUME NEW p \in Seq(Runes), NEW i \in 1 .. Len(p), NEW j \in i + 1 .. Len(p) + 1
  PROVE  /\ SubSeq(p, i + 1, j - 1) = <<>> <=> j = i + 1
         /\ SubSeq(p, i + 1, j - 1) = <<Dot>> <=> j = i + 2 /\ p[i + 1] = Dot
         /\ SubSeq(p, i + 1, j - 1) = <<Dot, Dot>> <=>
              j = i + 3 /\ p[i + 1] = Dot /\ p[i + 2] = Dot
<1>. DEFINE c == SubSeq(p, i + 1, j - 1)
<1>1. /\ c \in Seq(Runes) /\ Len(c) = j - 1 - i
      /\ \A k \in 1 .. j - 1 - i : c[k] = p[i + k]
  <2>1. \A k \in i + 1 .. j - 1 : p[k] \in Runes
    OBVIOUS
  <2>2. QED  BY <2>1, SubSeqProperties
<1>. HIDE DEF c
<1>2. Dot \in Runes
  BY DEF Runes
<1>3. /\ c = <<>> <=> Len(c) = 0
      /\ c = <<Dot>> <=> Len(c) = 1 /\ c[1] = Dot
      /\ c = <<Dot, Dot>> <=> Len(c) = 2 /\ c[1] = Dot /\ c[2] = Dot
  BY <1>1, <1>2, ShortSeqs
<1>4. /\ c = <<>> <=> j = i + 1
      /\ c = <<Dot>> <=> j = i + 2 /\ p[i + 1] = Dot
      /\ c = <<Dot, Dot>> <=> j = i + 3 /\ p[i + 1] = Dot /\ p[i + 2] = Dot
  BY <1>1, <1>3
<1>5. QED  BY <1>4 DEF c

\* The components are names when no slash begins one that is not.
LEMMA WellFormedByRune ==
  ASSUME NEW p \in Seq(Runes)
  PROVE  WellFormed(p) <=>
           /\ p # <<>> /\ p[1] = Slash
           /\ \A i \in 1 .. Len(p) : p[i] # Forbidden
           /\ \A i \in 1 .. Len(p) : p[i] = Slash => ~Nameless(p, i)
<1>. DEFINE Bad == {<<>>, <<Dot>>, <<Dot, Dot>>}
            Next(i, j) == /\ i \in Slashes(p) /\ j \in Slashes(p) \cup {Len(p) + 1}
                          /\ i < j /\ \A k \in Slashes(p) : k <= i \/ k >= j
<1>1. Components(p) =
        {SubSeq(p, ij[1] + 1, ij[2] - 1) :
           ij \in {q \in Slashes(p) \X (Slashes(p) \cup {Len(p) + 1}) : Next(q[1], q[2])}}
  BY DEF Components
<1>2. ASSUME NEW i \in 1 .. Len(p), p[i] = Slash, Nameless(p, i)
      PROVE  \E c \in Components(p) : c \in Bad
  <2>1. PICK j \in {i + 1, i + 2, i + 3} :
          /\ Ends(p, j) /\ \A k \in i + 1 .. j - 1 : k <= Len(p) /\ p[k] = Dot
    BY <1>2 DEF Nameless
  <2>2. j \in i + 1 .. Len(p) + 1
    BY <2>1 DEF Ends
  <2>3. SubSeq(p, i + 1, j - 1) \in Bad
    BY <2>1, <2>2, PartIs
  <2>4. Next(i, j)
    BY <1>2, <2>1, <2>2 DEF Slashes, Ends, Slash, Dot
  <2>5. <<i, j>> \in {q \in Slashes(p) \X (Slashes(p) \cup {Len(p) + 1}) : Next(q[1], q[2])}
    BY <2>4
  <2>6. SubSeq(p, i + 1, j - 1) \in Components(p)
    BY <1>1, <2>5
  <2>7. QED  BY <2>3, <2>6
<1>3. ASSUME NEW c \in Components(p), c \in Bad
      PROVE  \E i \in 1 .. Len(p) : p[i] = Slash /\ Nameless(p, i)
  <2>1. PICK q \in Slashes(p) \X (Slashes(p) \cup {Len(p) + 1}) :
          Next(q[1], q[2]) /\ c = SubSeq(p, q[1] + 1, q[2] - 1)
    BY <1>1
  <2>2. PICK i, j : Next(i, j) /\ c = SubSeq(p, i + 1, j - 1)
    BY <2>1
  <2>3. /\ i \in 1 .. Len(p) /\ p[i] = Slash /\ j \in i + 1 .. Len(p) + 1
        /\ Ends(p, j)
    BY <2>2 DEF Slashes, Ends
  <2>4. \/ j = i + 1
        \/ j = i + 2 /\ p[i + 1] = Dot
        \/ j = i + 3 /\ p[i + 1] = Dot /\ p[i + 2] = Dot
    BY <1>3, <2>2, <2>3, PartIs
  <2>5. QED  BY <2>3, <2>4 DEF Nameless
<1>4. QED  BY <1>2, <1>3 DEF WellFormed

-----------------------------------------------------------------------------
(* The dot that is let through, and the name that is left to the server. *)

\* The path with a name in the place of a first component ".".
Undotted(path) == IF FirstIsDot(path) THEN [path EXCEPT ![2] = Letter] ELSE path

LEMMA UndottedIs ==
  ASSUME NEW p \in Seq(Runes)
  PROVE  /\ Undotted(p) \in Seq(Runes) /\ Len(Undotted(p)) = Len(p)
         /\ \A i \in 1 .. Len(p) :
              Undotted(p)[i] = IF FirstIsDot(p) /\ i = 2 THEN Letter ELSE p[i]
<1>1. ASSUME FirstIsDot(p)
      PROVE  /\ [p EXCEPT ![2] = Letter] \in Seq(Runes)
             /\ Len([p EXCEPT ![2] = Letter]) = Len(p)
             /\ \A i \in 1 .. Len(p) :
                  [p EXCEPT ![2] = Letter][i] = IF i = 2 THEN Letter ELSE p[i]
  <2>1. 2 \in 1 .. Len(p) /\ Letter \in Runes
    BY <1>1 DEF FirstIsDot, Runes
  <2>2. QED  BY <2>1, ExceptSeq
<1>2. QED  BY <1>1 DEF Undotted

\* The path of the node, rune by rune.
LEMMA NodePathIs ==
  ASSUME NEW p \in Seq(Runes), NEW isSequential \in BOOLEAN
  PROVE  LET r == NodePath(p, isSequential)
             named == isSequential /\ Len(p) >= 1 /\ p[Len(p)] = Slash
         IN  /\ r \in Seq(Runes)
             /\ Len(r) = IF named THEN Len(p) + 1 ELSE Len(p)
             /\ \A i \in 1 .. Len(p) : r[i] = p[i]
             /\ named => r[Len(p) + 1] = Letter
<1>1. Letter \in Runes /\ (p # <<>> <=> Len(p) >= 1)
  BY DEF Runes
<1>2. QED  BY <1>1, AppendProperties DEF NodePath

\* Beyond the root, on a path that begins with a slash.
LEMMA LoopJudges ==
  ASSUME NEW p \in Seq(Runes), NEW isSequential \in BOOLEAN,
         Len(p) >= 2, p[1] = Slash
  PROVE  /\ isSequential \/ p[Len(p)] # Slash
         /\ \A i \in 2 .. Len(p) : ~BadRune(p, i)
         <=>
         WellFormed(NodePath(Undotted(p), isSequential))
<1>. DEFINE n == Len(p)
            r == NodePath(Undotted(p), isSequential)
            named == isSequential /\ p[n] = Slash
<1>0. /\ Undotted(p) \in Seq(Runes) /\ Len(Undotted(p)) = n /\ n \in Nat
      /\ \A i \in 1 .. n :
           Undotted(p)[i] = IF FirstIsDot(p) /\ i = 2 THEN Letter ELSE p[i]
      /\ Undotted(p)[n] = p[n]
  BY UndottedIs DEF FirstIsDot
<1>1. /\ r \in Seq(Runes)
      /\ Len(r) = IF named THEN n + 1 ELSE n
      /\ \A i \in 1 .. n : r[i] = IF FirstIsDot(p) /\ i = 2 THEN Letter ELSE p[i]
      /\ named => r[n + 1] = Letter
  BY <1>0, NodePathIs
<1>2. n \in Nat /\ \A i \in 1 .. n : p[i] \in Runes
  OBVIOUS
<1>3. WellFormed(r) <=>
        /\ r # <<>> /\ r[1] = Slash
        /\ \A i \in 1 .. Len(r) : r[i] # Forbidden
        /\ \A i \in 1 .. Len(r) : r[i] = Slash => ~Nameless(r, i)
  BY <1>1, WellFormedByRune
<1>. HIDE DEF r, n
<1>4. n >= 2 /\ p[1] = Slash /\ r # <<>> /\ r[1] = Slash
  BY <1>1 DEF n
<1>5. FirstIsDot(p) <=> n > 2 /\ p[2] = Dot /\ p[3] = Slash
  BY <1>4 DEF FirstIsDot, n
<1>7. \A i \in 2 .. n :
        BadDot(p, i) <=>
          /\ p[i] = Dot
          /\ p[i - 1] = Slash \/ (i > 2 /\ p[i - 1] = Dot /\ p[i - 2] = Slash)
          /\ i = n \/ (i > 2 /\ p[i + 1] = Slash)
  BY <1>2, <1>4 DEF BadDot, NextRune, n, Dot, Slash
<1>8. ASSUME isSequential \/ p[n] # Slash, \A i \in 2 .. n : ~BadRune(p, i)
      PROVE  WellFormed(r)
  <2>1. /\ \A i \in 2 .. n : p[i] # Forbidden
        /\ \A i \in 2 .. n : ~(p[i] = Slash /\ p[i - 1] = Slash)
        /\ \A i \in 2 .. n : ~BadDot(p, i)
    BY <1>8 DEF BadRune
  <2>3. \A i \in 1 .. Len(r) : r[i] # Forbidden
    BY <1>1, <1>2, <1>4, <2>1 DEF Letter, Forbidden, Slash
  <2>4. ASSUME NEW i \in 1 .. Len(r), r[i] = Slash, Nameless(r, i) PROVE FALSE
    <3>1. i \in 1 .. n /\ p[i] = Slash
      BY <1>1, <1>2, <2>4 DEF Letter, Slash
    <3>2. CASE Ends(r, i + 1)
      BY <1>1, <1>2, <1>4, <1>8, <2>1, <3>1, <3>2 DEF Ends, Letter, Slash
    <3>3. CASE i + 1 <= Len(r) /\ r[i + 1] = Dot /\ Ends(r, i + 2)
      BY <1>1, <1>2, <1>4, <1>5, <1>7, <2>1, <3>1, <3>3 DEF Ends, Letter, Slash, Dot
    <3>4. CASE i + 2 <= Len(r) /\ r[i + 1] = Dot /\ r[i + 2] = Dot /\ Ends(r, i + 3)
      <4>1. i + 2 \in 2 .. n /\ p[i + 1] = Dot /\ p[i + 2] = Dot
        BY <1>1, <1>2, <3>1, <3>4 DEF Letter, Dot
      <4>2. i + 2 = n \/ p[i + 2 + 1] = Slash
        BY <1>1, <1>2, <3>1, <3>4, <4>1 DEF Ends, Letter, Slash
      <4>3. i + 2 > 2 /\ i + 2 - 1 = i + 1 /\ i + 2 - 2 = i
        BY <3>1
      <4>4. BadDot(p, i + 2)
        BY <1>7, <3>1, <4>1, <4>2, <4>3
      <4>5. QED  BY <2>1, <4>1, <4>4
    <3>5. QED  BY <2>4, <3>2, <3>3, <3>4 DEF Nameless
  <2>5. QED  BY <1>3, <1>4, <2>3, <2>4
<1>9. ASSUME WellFormed(r)
      PROVE  (isSequential \/ p[n] # Slash) /\ \A i \in 2 .. n : ~BadRune(p, i)
  <2>1. /\ \A i \in 1 .. Len(r) : r[i] # Forbidden
        /\ \A i \in 1 .. Len(r) : r[i] = Slash => ~Nameless(r, i)
    BY <1>3, <1>9
  <2>2. isSequential \/ p[n] # Slash
    BY <1>1, <1>2, <1>4, <1>5, <2>1 DEF Nameless, Ends, Slash, Dot
  <2>3. ASSUME NEW i \in 2 .. n, BadRune(p, i) PROVE FALSE
    <3>1. CASE p[i] = Forbidden
      BY <1>1, <1>2, <1>5, <2>1, <3>1 DEF Forbidden, Dot
    <3>2. CASE p[i] = Slash /\ p[i - 1] = Slash
      <4>1. i - 1 \in 1 .. Len(r) /\ r[i - 1] = Slash /\ r[i] = Slash /\ i <= Len(r)
        BY <1>1, <1>2, <1>5, <3>2 DEF Slash, Dot
      <4>2. Nameless(r, i - 1)
        BY <1>1, <1>2, <4>1 DEF Nameless, Ends
      <4>3. QED  BY <2>1, <4>1, <4>2
    <3>3. CASE BadDot(p, i)
      <4>1. CASE i = n
        <5>1. ~named
          BY <1>7, <3>3, <4>1 DEF Dot, Slash
        <5>2. CASE p[i - 1] = Slash
          <6>1. /\ i - 1 \in 1 .. Len(r) /\ r[i - 1] = Slash /\ i = Len(r) /\ r[i] = Dot
            BY <1>1, <1>2, <1>5, <1>7, <3>3, <4>1, <5>1, <5>2 DEF Slash, Dot
          <6>2. Nameless(r, i - 1)
            BY <1>1, <1>2, <6>1 DEF Nameless, Ends
          <6>3. QED  BY <2>1, <6>1, <6>2
        <5>3. CASE i > 2 /\ p[i - 1] = Dot /\ p[i - 2] = Slash
          <6>1. /\ i - 2 \in 1 .. Len(r) /\ r[i - 2] = Slash /\ i = Len(r)
                /\ r[i] = Dot /\ r[i - 1] = Dot
            BY <1>1, <1>2, <1>5, <1>7, <3>3, <4>1, <5>1, <5>3 DEF Slash, Dot
          <6>2. Nameless(r, i - 2)
            BY <1>1, <1>2, <6>1 DEF Nameless, Ends
          <6>3. QED  BY <2>1, <6>1, <6>2
        <5>4. QED  BY <1>7, <3>3, <5>2, <5>3
      <4>2. CASE i # n
        <5>1. i > 2 /\ i + 1 <= n /\ p[i + 1] = Slash /\ p[i] = Dot
          BY <1>2, <1>7, <3>3, <4>2
        <5>2. CASE p[i - 1] = Slash
          <6>1. /\ i - 1 \in 1 .. Len(r) /\ i + 1 <= Len(r)
                /\ r[i - 1] = Slash /\ r[i] = Dot /\ r[i + 1] = Slash
            BY <1>1, <1>2, <1>5, <5>1, <5>2 DEF Slash, Dot
          <6>2. Nameless(r, i - 1)
            BY <1>1, <1>2, <6>1 DEF Nameless, Ends
          <6>3. QED  BY <2>1, <6>1, <6>2
        <5>3. CASE p[i - 1] = Dot /\ p[i - 2] = Slash
          <6>1. /\ i - 2 \in 1 .. Len(r) /\ i + 1 <= Len(r)
                /\ r[i - 2] = Slash /\ r[i - 1] = Dot /\ r[i] = Dot /\ r[i + 1] = Slash
            BY <1>1, <1>2, <1>5, <5>1, <5>3 DEF Slash, Dot
          <6>2. Nameless(r, i - 2)
            BY <1>1, <1>2, <6>1 DEF Nameless, Ends
          <6>3. QED  BY <2>1, <6>1, <6>2
        <5>4. QED  BY <1>7, <3>3, <5>2, <5>3
      <4>3. QED  BY <4>1, <4>2
    <3>4. QED  BY <2>3, <3>1, <3>2, <3>3 DEF BadRune
  <2>4. QED  BY <2>2, <2>3
<1>10. QED  BY <1>8, <1>9 DEF r, n

LEMMA ValidUndotted ==
  ASSUME NEW path \in Seq(Runes), NEW isSequential \in BOOLEAN
  PROVE  validatePath(path, isSequential) <=> Valid(Undotted(path), isSequential)
<1>. DEFINE u == Undotted(path)
            r == NodePath(u, isSequential)
            n == Len(path)
<1>1. Slash \in Runes /\ n \in Nat
  BY DEF Runes
<1>2. path = <<>> <=> n = 0
  OBVIOUS
<1>3. /\ path = <<Slash>> <=> n = 1 /\ path[1] = Slash
      /\ u = <<Slash>> <=> n = 1 /\ path[1] = Slash
  <2>1. u \in Seq(Runes) /\ Len(u) = n /\ (n = 1 => u[1] = path[1])
    BY UndottedIs
  <2>. HIDE DEF u, n
  <2>2. /\ path = <<Slash>> <=> Len(path) = 1 /\ path[1] = Slash
        /\ u = <<Slash>> <=> Len(u) = 1 /\ u[1] = Slash
    BY <1>1, <2>1, ShortSeqs
  <2>3. QED  BY <2>1, <2>2 DEF n
<1>4. u \in Seq(Runes) /\ Len(u) = n /\ (n >= 1 => u[1] = path[1])
  BY UndottedIs DEF FirstIsDot
<1>. HIDE DEF n, u
<1>5. n = 0 \/ n = 1 \/ n >= 2
  BY <1>1
<1>6. CASE n >= 2 /\ path[1] = Slash
  <2>1. n # 0 /\ n # 1
    BY <1>1, <1>6
  <2>2. path # <<>> /\ u # <<Slash>>
    BY <1>2, <1>3, <2>1, Zenon
  <2>3. QED  BY <1>6, <2>1, <2>2, LoopJudges DEF validatePath, Valid, n, u
<1>7. CASE path = <<Slash>>
  <2>1. u = <<Slash>> /\ n = 1 /\ path[1] = Slash /\ path # <<>>
    BY <1>2, <1>3, <1>7
  <2>2. QED  BY <2>1 DEF validatePath, Valid, n, u
<1>8. CASE n = 0 \/ path[1] # Slash
  <2>1. u # <<Slash>>
    <3>1. n = 0 => n # 1
      OBVIOUS
    <3>2. QED  BY <1>3, <1>8, <3>1, Zenon
  <2>2. r = <<>> \/ r[1] # Slash
    BY <1>1, <1>4, <1>5, <1>8, NodePathIs DEF Letter, Slash
  <2>3. QED  BY <1>2, <1>8, <2>1, <2>2 DEF validatePath, Valid, WellFormed, u
<1>9. QED  BY <1>3, <1>5, <1>6, <1>7, <1>8, Zenon DEF u

\* A first component "." is not valid.
LEMMA DottedNotValid ==
  ASSUME NEW path \in Seq(Runes), NEW isSequential \in BOOLEAN, FirstIsDot(path)
  PROVE  ~Valid(path, isSequential)
<1>. DEFINE r == NodePath(path, isSequential)
<1>1. /\ r \in Seq(Runes) /\ Len(r) >= Len(path)
      /\ \A i \in 1 .. Len(path) : r[i] = path[i]
  BY NodePathIs
<1>. HIDE DEF r
<1>2. Len(path) > 2 /\ path[1] = Slash /\ path[2] = Dot /\ path[3] = Slash
  BY DEF FirstIsDot
<1>3. 1 \in 1 .. Len(r) /\ r[1] = Slash /\ Nameless(r, 1)
  BY <1>1, <1>2 DEF Nameless, Ends
<1>4. ~WellFormed(r)
  BY <1>1, <1>3, WellFormedByRune
<1>5. path # <<Slash>>
  BY <1>2
<1>6. QED  BY <1>4, <1>5 DEF Valid, r

\* validatePath (zk/util.go) refuses no valid path, and an invalid one is accepted
\* in one case only, whatever its length and for every place of the dots and
\* slashes: its first component is ".", and it would be valid with a name there.
\* (The rune that the code looks ahead to after a dot is the wrong one at the first
\* character, and only there.)
THEOREM ValidatePathJudges ==
  \A path \in Seq(Runes), isSequential \in BOOLEAN :
    validatePath(path, isSequential) <=>
      \/ Valid(path, isSequential)
      \/ FirstIsDot(path) /\ Valid(Undotted(path), isSequential)
<1>. SUFFICES ASSUME NEW path \in Seq(Runes), NEW isSequential \in BOOLEAN
              PROVE  validatePath(path, isSequential) <=>
                       \/ Valid(path, isSequential)
                       \/ FirstIsDot(path) /\ Valid(Undotted(path), isSequential)
  OBVIOUS
<1>1. CASE FirstIsDot(path)
  BY <1>1, ValidUndotted, DottedNotValid
<1>2. CASE ~FirstIsDot(path)
  BY <1>2, ValidUndotted DEF Undotted
<1>3. QED  BY <1>1, <1>2

-----------------------------------------------------------------------------
(* What a protected create makes of its path. *)

\* A path that begins with a slash has a last one.
LEMMA LastSlashIs ==
  ASSUME NEW p \in Seq(Runes), Len(p) >= 1, p[1] = Slash
  PROVE  /\ LastSlash(p) \in 1 .. Len(p) /\ p[LastSlash(p)] = Slash
         /\ \A j \in 1 .. Len(p) : p[j] = Slash => j <= LastSlash(p)
<1>. DEFINE n == Len(p)
            T == {n - i : i \in Slashes(p)}
<1>1. n \in Nat /\ 1 \in Slashes(p) /\ Slashes(p) \subseteq 1 .. n
  BY DEF Slashes
<1>2. T \subseteq Nat /\ T # {}
  BY <1>1
<1>3. PICK x \in T : \A y \in T : ~(<<y, x>> \in OpToRel(<, Nat))
  BY <1>2, NatLessThanWellFounded, WFMin
<1>4. \A y \in T : x <= y
  <2>1. OpToRel(<, Nat) = {ss \in Nat \X Nat : ss[1] < ss[2]}
    BY Zenon DEF OpToRel
  <2>2. \A y \in T : ~(<<y, x>> \in {ss \in Nat \X Nat : ss[1] < ss[2]})
    BY <1>3, <2>1, Zenon
  <2>. SUFFICES ASSUME NEW y \in T PROVE x <= y
    OBVIOUS
  <2>3. x \in Nat /\ y \in Nat
    BY <1>2
  <2>4. ~(<<y, x>> \in {ss \in Nat \X Nat : ss[1] < ss[2]})
    BY <2>2
  <2>. HIDE DEF T
  <2>5. QED  BY <2>3, <2>4
<1>5. PICK i \in Slashes(p) : x = n - i
  OBVIOUS
<1>6. \A j \in Slashes(p) : j <= i
  <2>. SUFFICES ASSUME NEW j \in Slashes(p) PROVE j <= i
    OBVIOUS
  <2>1. n - i <= n - j
    BY <1>4, <1>5
  <2>2. i \in 1 .. n /\ j \in 1 .. n
    BY <1>1
  <2>3. QED  BY <1>1, <2>1, <2>2
<1>7. LastSlash(p) \in Slashes(p) /\ \A j \in Slashes(p) : j <= LastSlash(p)
  BY <1>6 DEF LastSlash
<1>8. QED  BY <1>7 DEF Slashes

\* The path with the prefix, rune by rune.
LEMMA ProtectedPathIs ==
  ASSUME NEW p \in Seq(Runes), NEW m \in 1 .. Len(p), m = LastSlash(p)
  PROVE  /\ protectedPath(p) \in Seq(Runes) /\ Len(protectedPath(p)) = Len(p) + 1
         /\ \A i \in 1 .. m : protectedPath(p)[i] = p[i]
         /\ protectedPath(p)[m + 1] = Letter
         /\ \A i \in m + 2 .. Len(p) + 1 : protectedPath(p)[i] = p[i - 1]
<1>. DEFINE n == Len(p)
            a == SubSeq(p, 1, m)
            b == <<Letter>>
            c == SubSeq(p, m + 1, n)
<1>1. n \in Nat /\ Letter \in Runes /\ \A i \in 1 .. n : p[i] \in Runes
  BY DEF Runes
<1>2. /\ a \in Seq(Runes) /\ Len(a) = m
      /\ \A i \in 1 .. m : a[i] = p[i]
  <2>1. \A i \in 1 .. m : p[i] \in Runes
    BY <1>1
  <2>2. QED  BY <2>1, SubSeqProperties
<1>3. /\ c \in Seq(Runes) /\ Len(c) = n - m
      /\ \A i \in 1 .. n - m : c[i] = p[m + i]
  <2>1. \A i \in m + 1 .. n : p[i] \in Runes
    BY <1>1
  <2>2. /\ c \in Seq(Runes) /\ Len(c) = IF m + 1 <= n THEN n - (m + 1) + 1 ELSE 0
        /\ \A i \in 1 .. n - (m + 1) + 1 : c[i] = p[m + 1 + i - 1]
    BY <1>1, <2>1, SubSeqProperties
  <2>. HIDE DEF c
  <2>3. QED  BY <1>1, <2>2
<1>4. b \in Seq(Runes) /\ Len(b) = 1 /\ b[1] = Letter
  BY <1>1
<1>. HIDE DEF a, b, c
<1>. DEFINE ab == a \o b
            q == ab \o c
<1>5. /\ ab \in Seq(Runes) /\ Len(ab) = Len(a) + Len(b)
      /\ \A i \in 1 .. Len(a) + Len(b) :
           ab[i] = IF i <= Len(a) THEN a[i] ELSE b[i - Len(a)]
  BY <1>2, <1>4, ConcatProperties
<1>6. Len(ab) = m + 1 /\ (\A i \in 1 .. m : ab[i] = p[i]) /\ ab[m + 1] = Letter
  <2>. HIDE DEF ab
  <2>1. QED  BY <1>2, <1>4, <1>5
<1>. HIDE DEF ab
<1>7. /\ q \in Seq(Runes) /\ Len(q) = Len(ab) + Len(c)
      /\ \A i \in 1 .. Len(ab) + Len(c) :
           q[i] = IF i <= Len(ab) THEN ab[i] ELSE c[i - Len(ab)]
  <2>1. ab \in Seq(Runes) /\ c \in Seq(Runes)
    BY <1>3, <1>5
  <2>2. QED  BY <2>1, ConcatProperties
<1>. HIDE DEF q, n
<1>8. Len(q) = n + 1
  BY <1>1, <1>3, <1>6, <1>7
<1>9. \A i \in 1 .. m + 1 : q[i] = ab[i]
  <2>1. Len(c) \in Nat
    BY <1>3
  <2>2. QED  BY <1>6, <1>7, <2>1
<1>10. \A i \in m + 2 .. n + 1 : q[i] = p[i - 1]
  <2>. SUFFICES ASSUME NEW i \in m + 2 .. n + 1 PROVE q[i] = p[i - 1]
    OBVIOUS
  <2>1. q[i] = c[i - (m + 1)]
    <3>1. i \in 1 .. Len(ab) + Len(c) /\ ~(i <= Len(ab)) /\ Len(ab) = m + 1
      BY <1>1, <1>3, <1>6
    <3>2. QED  BY <1>7, <3>1
  <2>2. i - (m + 1) \in 1 .. n - m /\ m + (i - (m + 1)) = i - 1
    BY <1>1
  <2>3. QED  BY <1>3, <2>1, <2>2
<1>11. protectedPath(p) = q
  BY DEF protectedPath, a, b, c, ab, q, n
<1>12. /\ \A i \in 1 .. m : q[i] = p[i]
       /\ q[m + 1] = Letter
  BY <1>6, <1>9
<1>13. QED  BY <1>7, <1>8, <1>10, <1>11, <1>12 DEF n

\* The Create at the end of CreateProtectedEphemeralSequential (zk/conn.go)
\* checks the path with the prefix again: it accepts it whenever the caller's
\* own path was accepted, so that no protected create is refused half way.
THEOREM ProtectedPathAccepted ==
  \A path \in Seq(Runes) :
    validatePath(path, TRUE) => validatePath(protectedPath(path), TRUE)
<1>. SUFFICES ASSUME NEW path \in Seq(Runes), validatePath(path, TRUE)
              PROVE  validatePath(protectedPath(path), TRUE)
  OBVIOUS
<1>. DEFINE n == Len(path)
            m == LastSlash(path)
            q == protectedPath(path)
<1>1. n \in Nat /\ n >= 1 /\ path[1] = Slash /\ \A i \in 1 .. n : path[i] \in Runes
  BY DEF validatePath
<1>2. /\ m \in 1 .. n /\ path[m] = Slash
      /\ \A j \in 1 .. n : path[j] = Slash => j <= m
  BY <1>1, LastSlashIs
<1>3. /\ q \in Seq(Runes) /\ Len(q) = n + 1
      /\ \A i \in 1 .. m : q[i] = path[i]
      /\ q[m + 1] = Letter
      /\ \A i \in m + 2 .. n + 1 : q[i] = path[i - 1]
  BY <1>2, ProtectedPathIs
<1>4. \A i \in 2 .. n : ~BadRune(path, i)
  BY <1>1 DEF validatePath
<1>. HIDE DEF n, m, q
<1>5. ASSUME NEW i \in 2 .. n + 1, BadRune(q, i) PROVE FALSE
  <2>1. CASE i <= m
    <3>1. i \in 2 .. n /\ q[i] = path[i] /\ q[i - 1] = path[i - 1]
      BY <1>1, <1>2, <1>3, <2>1
    <3>2. CASE BadDot(q, i)
      <4>1. i < m /\ i + 1 <= m
        <5>1. path[i] = Dot
          BY <3>1, <3>2 DEF BadDot
        <5>2. i # m
          BY <1>2, <5>1 DEF Dot, Slash
        <5>3. QED  BY <1>1, <1>2, <2>1, <5>2
      <4>2. q[i + 1] = path[i + 1] /\ (i > 2 => q[i - 2] = path[i - 2])
        <5>1. i + 1 \in 1 .. m /\ (i > 2 => i - 2 \in 1 .. m)
          BY <1>1, <1>2, <4>1
        <5>2. QED  BY <1>3, <5>1
      <4>3. i # Len(q)
        BY <1>1, <1>2, <1>3, <2>1
      <4>4. i = 2 => q[i - 1] # Dot
        BY <1>1, <3>1 DEF Dot, Slash
      <4>5. BadDot(path, i)
        BY <1>1, <3>1, <3>2, <4>2, <4>3, <4>4 DEF BadDot, NextRune
      <4>6. QED  BY <1>4, <3>1, <4>5 DEF BadRune
    <3>3. QED  BY <1>4, <1>5, <3>1, <3>2 DEF BadRune
  <2>2. CASE i = m + 1
    BY <1>2, <1>3, <1>5, <2>2 DEF BadRune, BadDot, Letter, Slash, Dot, Forbidden
  <2>3. CASE i > m + 1
    <3>1. q[i] = path[i - 1] /\ i - 1 \in 2 .. n /\ path[i - 1] # Slash
      BY <1>1, <1>2, <1>3, <2>3
    <3>2. q[i - 1] # Slash
      <4>1. CASE i = m + 2
        BY <1>2, <1>3, <4>1 DEF Letter, Slash
      <4>2. CASE i > m + 2
        BY <1>1, <1>2, <1>3, <4>2
      <4>3. QED  BY <1>2, <2>3, <4>1, <4>2
    <3>3. q[i - 1] = Dot => q[i - 2] # Slash
      <4>1. CASE i = m + 2
        BY <1>2, <1>3, <4>1 DEF Letter, Dot
      <4>2. CASE i = m + 3
        <5>1. i - 2 = m + 1
          BY <1>2, <4>2
        <5>2. QED  BY <1>3, <5>1 DEF Letter, Slash
      <4>3. CASE i > m + 3
        <5>1. i - 2 \in m + 2 .. n + 1 /\ i - 2 - 1 \in 1 .. n /\ i - 2 - 1 > m
          BY <1>1, <1>2, <4>3
        <5>2. q[i - 2] = path[i - 2 - 1]
          BY <1>3, <5>1
        <5>3. QED  BY <1>2, <5>1, <5>2
      <4>4. QED  BY <1>2, <2>3, <4>1, <4>2, <4>3
    <3>4. ~BadDot(q, i)
      BY <3>2, <3>3 DEF BadDot
    <3>5. QED  BY <1>4, <1>5, <3>1, <3>4 DEF BadRune
  <2>4. QED  BY <1>2, <2>1, <2>2, <2>3
<1>6. q # <<>> /\ q[1] = Slash
  BY <1>1, <1>2, <1>3
<1>7. QED  BY <1>3, <1>5, <1>6 DEF validatePath, q

\* The parent of a protected create's path, among whose children it looks for
\* its node after a lost connection (zk/conn.go), passes the check of Children
\* whenever the path itself has passed, but for two parents: for a node below the
\* root the code passes the empty path, and "/.", which validatePath lets through
\* within a longer path, it refuses alone.
THEOREM ProtectedParentJudged ==
  \A path \in Seq(Runes) :
    validatePath(path, TRUE) =>
      (validatePath(rootPath(path), FALSE) <=> rootPath(path) \notin {<<>>, <<Slash, Dot>>})
<1>. SUFFICES ASSUME NEW path \in Seq(Runes), validatePath(path, TRUE)
              PROVE  validatePath(rootPath(path), FALSE) <=>
                       rootPath(path) \notin {<<>>, <<Slash, Dot>>}
  OBVIOUS
<1>. DEFINE n == Len(path)
            m == LastSlash(path)
            r == rootPath(path)
<1>1. n \in Nat /\ n >= 1 /\ path[1] = Slash /\ \A i \in 1 .. n : path[i] \in Runes
  BY DEF validatePath
<1>2. /\ m \in 1 .. n /\ path[m] = Slash
      /\ \A j \in 1 .. n : path[j] = Slash => j <= m
  BY <1>1, LastSlashIs
<1>3. \A i \in 2 .. n : ~BadRune(path, i)
  BY <1>1 DEF validatePath
<1>4. /\ r \in Seq(Runes) /\ Len(r) = m - 1
      /\ \A i \in 1 .. m - 1 : r[i] = path[i]
  <2>1. \A i \in 1 .. m - 1 : path[i] \in Runes
    BY <1>1, <1>2
  <2>2. /\ r \in Seq(Runes) /\ Len(r) = IF 1 <= m - 1 THEN m - 1 - 1 + 1 ELSE 0
        /\ \A i \in 1 .. m - 1 - 1 + 1 : r[i] = path[1 + i - 1]
    BY <1>2, <2>1, SubSeqProperties DEF rootPath
  <2>. HIDE DEF r, m
  <2>3. QED  BY <1>2, <2>2
<1>. HIDE DEF n, m, r
<1>5. /\ r = <<>> <=> Len(r) = 0
      /\ r = <<Slash, Dot>> <=> Len(r) = 2 /\ r[1] = Slash /\ r[2] = Dot
  <2>1. \A x \in Runes, y \in Runes :
          /\ r = <<>> <=> Len(r) = 0
          /\ r = <<x, y>> <=> Len(r) = 2 /\ r[1] = x /\ r[2] = y
    <3>1. r \in Seq(Runes)
      BY <1>4
    <3>2. QED  BY <3>1, ShortSeqs
  <2>2. Slash \in Runes /\ Dot \in Runes
    BY DEF Runes
  <2>3. QED  BY <2>1, <2>2
<1>6. CASE r = <<>>
  BY <1>6 DEF validatePath, r
<1>7. CASE r = <<Slash, Dot>>
  <2>1. Len(r) = 2 /\ r[1] = Slash /\ r[2] = Dot
    BY <1>5, <1>7
  <2>2. BadRune(r, 2)
    BY <2>1 DEF BadRune, BadDot, Dot, Slash
  <2>3. ~validatePath(r, FALSE)
    BY <2>1, <2>2 DEF validatePath
  <2>4. QED  BY <1>7, <2>3 DEF r
<1>8. CASE r # <<>> /\ r # <<Slash, Dot>>
  <2>0. m > 1
    BY <1>2, <1>5, <1>4, <1>8
  <2>1. path[m - 1] # Slash
    BY <1>1, <1>2, <1>3, <2>0 DEF BadRune
  <2>2. m >= 3
    BY <1>1, <1>2, <2>0, <2>1
  <2>3. ASSUME NEW i \in 2 .. m - 1, BadRune(r, i) PROVE FALSE
    <3>1. /\ i \in 2 .. n /\ i - 1 \in 1 .. m - 1 /\ i + 1 <= m
          /\ r[i] = path[i] /\ r[i - 1] = path[i - 1]
      BY <1>1, <1>2, <1>4
    <3>2. CASE BadDot(r, i)
      <4>1. r[i] = Dot /\ path[i] = Dot
        BY <3>1, <3>2 DEF BadDot
      <4>2. i = 2 => r[i - 1] # Dot
        BY <1>1, <3>1 DEF Dot, Slash
      <4>3. i > 2 => r[i - 2] = path[i - 2]
        BY <1>2, <1>4
      <4>4. i # n
        BY <1>1, <1>2, <3>1
      <4>5. CASE i = 2
        <5>1. i = Len(r)
          BY <3>2, <4>1, <4>5 DEF BadDot, NextRune, Dot, Slash
        <5>2. r[1] = Slash /\ r[2] = Dot /\ Len(r) = 2
          BY <1>1, <3>1, <4>1, <4>5, <5>1
        <5>3. QED  BY <1>5, <1>8, <5>2
      <4>6. CASE i > 2
        <5>1. path[i + 1] = Slash
          <6>1. CASE i = Len(r)
            <7>1. i + 1 = m
              BY <1>2, <1>4, <6>1
            <7>2. QED  BY <1>2, <7>1
          <6>2. CASE i # Len(r)
            <7>1. r[i + 1] = Slash /\ i + 1 \in 1 .. m - 1
              BY <1>2, <1>4, <3>2, <4>6, <6>2 DEF BadDot, NextRune
            <7>2. QED  BY <1>4, <7>1
          <6>3. QED  BY <6>1, <6>2
        <5>2. BadDot(path, i)
          BY <3>1, <3>2, <4>1, <4>3, <4>6, <5>1 DEF BadDot, NextRune
        <5>3. QED  BY <1>3, <3>1, <5>2 DEF BadRune
      <4>7. QED  BY <4>5, <4>6
    <3>3. QED  BY <1>3, <2>3, <3>1, <3>2 DEF BadRune
  <2>4. /\ r # <<>> /\ r[1] = Slash /\ r[Len(r)] # Slash
    BY <1>1, <1>2, <1>4, <1>8, <2>1, <2>2
  <2>5. validatePath(r, FALSE)
    BY <1>4, <2>3, <2>4 DEF validatePath
  <2>6. QED  BY <1>8, <2>5 DEF r
<1>9. QED  BY <1>6, <1>7, <1>8 DEF r

=============================================================================
