-------------------------------- MODULE Paths --------------------------------
(***************************************************************************)
(* validatePath (zk/util.go), and the paths that are valid.  A path is the *)
(* sequence of its runes, which are told apart as far as the code does.    *)
(***************************************************************************)
EXTENDS Integers, Sequences

Forbidden == 0      \* NUL, a control character, a private or special one
Slash     == 1
Dot       == 2
Letter    == 3      \* any other rune

Runes == {Forbidden, Slash, Dot, Letter}

-----------------------------------------------------------------------------
(* The code.  Offsets count from 1 here, and the loop starts at 2. *)

\* The rune "next" after a dot at i: the code skips the width of the rune
\* before i, which is 1 after a slash or a dot, but still 0 at the first i.
NextRune(path, i) == IF i = 2 THEN path[i] ELSE path[i + 1]

\* A dot that ends a component "." or "..".
BadDot(path, i) ==
  LET before == IF path[i - 1] = Dot THEN path[i - 2] ELSE path[i - 1]
  IN  /\ path[i] = Dot /\ before = Slash
      /\ i = Len(path) \/ NextRune(path, i) = Slash

\* A plausible slip: an empty component is not noticed.
SlashesIgnored(path, i) == path[i] = Forbidden \/ BadDot(path, i)

\* The loop returns an error at i.
BadRune(path, i) ==
  \/ path[i] = Forbidden
  \/ path[i] = Slash /\ path[i - 1] = Slash
  \/ BadDot(path, i)

validatePath(path, isSequential) ==
  /\ path # <<>> /\ path[1] = Slash
  /\ \/ Len(path) = 1
     \/ /\ isSequential \/ path[Len(path)] # Slash
        /\ \A i \in 2 .. Len(path) : ~BadRune(path, i)

Slashes(path) == {i \in 1 .. Len(path) : path[i] = Slash}

\* CreateProtectedEphemeralSequential splits the path at its last slash: it puts
\* a prefix with a GUID (a letter here) before the name, and looks for the node
\* among the children of rootPath.
LastSlash(path) == CHOOSE i \in Slashes(path) : \A j \in Slashes(path) : j <= i

rootPath(path) == SubSeq(path, 1, LastSlash(path) - 1)

protectedPath(path) ==
  SubSeq(path, 1, LastSlash(path)) \o <<Letter>>
    \o SubSeq(path, LastSlash(path) + 1, Len(path))

-----------------------------------------------------------------------------
(* The reference. *)

\* What stands between a slash and the next one, or the end.
Components(path) ==
  LET Next == {p \in Slashes(path) \X (Slashes(path) \cup {Len(path) + 1}) :
                 /\ p[1] < p[2]
                 /\ \A k \in Slashes(path) : k <= p[1] \/ k >= p[2]}
  IN  {SubSeq(path, p[1] + 1, p[2] - 1) : p \in Next}

\* A path of names that are neither empty nor "." nor "..".
WellFormed(path) ==
  /\ path # <<>> /\ path[1] = Slash
  /\ \A i \in 1 .. Len(path) : path[i] # Forbidden
  /\ \A c \in Components(path) : c \notin {<<>>, <<Dot>>, <<Dot, Dot>>}

\* The name of a sequential node may be left to the server, which appends a
\* number to it.
NodePath(path, isSequential) ==
  IF isSequential /\ path # <<>> /\ path[Len(path)] = Slash
    THEN Append(path, Letter) ELSE path

\* The paths that a request may name: the root, and those of names.
Valid(path, isSequential) ==
  path = <<Slash>> \/ WellFormed(NodePath(path, isSequential))

\* The first of several components is ".".
FirstIsDot(path) ==
  Len(path) > 2 /\ path[1] = Slash /\ path[2] = Dot /\ path[3] = Slash

==============================================================================
