----------------------------- MODULE HostAuthen -----------------------------
(***************************************************************************)
(* The list of hosts that may connect (libs/stacks/rauthen/rauthen.c): how *)
(* rauthen_init loads it and how rauthen_verify looks a host up.           *)
(*                                                                         *)
(* fgets takes a line in pieces that fit its buffer.  A piece is blank (it *)
(* is empty or a comment) or names a host, every host ("+") or, behind     *)
(* "-", a host that is not meant.  The last line of a file may have no end *)
(* of line.  Names and addresses are compared as the resolver returns them.*)
(***************************************************************************)
EXTENDS Sequences, Integers

\* "+" names every host.
Everyone == "+"

Piece == [blank : BOOLEAN, negative : BOOLEAN, name : STRING]
Line == [pieces : Seq(Piece) \ {<<>>}, ended : BOOLEAN]

\* The files on the disk: the system's file, or else the user's, which is
\* trusted when it is a regular file that only its owner can write.
HostFiles == [system : BOOLEAN, trusted : BOOLEAN, lines : Seq(Line)]

LastPiece(line) == line.pieces[Len(line.pieces)]

(***************************************************************************)
(* Blank pieces are passed over one by one, before a line is found to be   *)
(* too long: of a long comment the next piece is read as if it began a     *)
(* line.  From the first piece that is not blank the rest of the line is   *)
(* skipped, so that it counts only when it holds the end of line.          *)
(***************************************************************************)
IsUsable(line) ==
    /\ line.ended
    /\ ~LastPiece(line).blank
    /\ \A n \in 1 .. Len(line.pieces) - 1 : line.pieces[n].blank

UsableLines(files) == {LastPiece(files.lines[n]) : n \in {m \in DOMAIN files.lines :
                                                            IsUsable(files.lines[m])}}

\* rauthen_init frees the old list and reads a new one.  The list is the set
\* of its lines: rauthen_verify looks for one of them, in whatever order.
OldListKept(old, files) ==
    IF files.system \/ files.trusted THEN old \union UsableLines(files) ELSE old
rauthen_init(old, files) ==
    IF files.system \/ files.trusted THEN UsableLines(files) ELSE {}

\* 1 when the line admits the host, -1 when it excludes it, 0 when it names
\* another one.
rauthen_checkhost(line, host) ==
    IF line.name = Everyone
    THEN IF line.negative THEN 0 ELSE 1     \* "-+" is no host's name
    ELSE IF line.name # host THEN 0
         ELSE IF line.negative THEN -1 ELSE 1

\* One line that admits the host is enough, wherever it stands; an empty list
\* admits nobody.
rauthen_verify(list, host) == \E line \in list : rauthen_checkhost(line, host) = 1
=============================================================================
