---------------------------- MODULE MCHttpServer ----------------------------
(***************************************************************************)
(* An array of three slots of which two are prepared, so that the limit    *)
(* can be lowered and raised past them.  A buffer of four bytes has to     *)
(* grow for the body of the first request, and a header may be three bytes *)
(* long.  Two sessions of one workload share a slot or have one each.  The *)
(* two line ends of one request leave more bytes in the buffer than the    *)
(* next read need take.                                                    *)
(***************************************************************************)
EXTENDS HttpServer

Req(method, length, crlf, header, body) ==
    [method |-> method, version |-> TRUE, uri |-> TRUE, length |-> length,
     crlf |-> crlf, header |-> header, body |-> body]

Post == Req("POST", 3, 1, 2, 3)
Put == Req("PUT", 1, 0, 2, 1)
Get == Req("GET", Missing, 0, 2, 0)
Spaced == Req("GET", Missing, 2, 2, 0)
Short == Req("GET", Missing, 0, 1, 0)
Long == Req("GET", Missing, 0, 4, 0)
Unknown == Req("none", Missing, 0, 2, 0)
Lineless == [Get EXCEPT !.version = FALSE]
Pathless == [Get EXCEPT !.uri = FALSE]
Unsized == Req("POST", Missing, 0, 2, 0)
Garbled == Req("PUT", Invalid, 0, 2, 0)

MCWorkloads ==
    {<< <<Post>>, <<Put>> >>, << <<Post, Get>> >>}
      \union {<< <<Get, q>> >> : q \in {Put, Spaced, Short, Long, Unknown, Lineless, Pathless,
                                        Unsized, Garbled}}

Host(name) == [blank |-> FALSE, negative |-> FALSE, name |-> name]
Comment == [Host("") EXCEPT !.blank = TRUE]
LineOf(pieces) == [pieces |-> pieces, ended |-> TRUE]

FileA == [system |-> TRUE, trusted |-> FALSE,
          lines |-> <<LineOf(<<Host("a")>>), LineOf(<<Host("b"), Host("b")>>),
                      [LineOf(<<Host("b")>>) EXCEPT !.ended = FALSE]>>]
FileB == [system |-> FALSE, trusted |-> TRUE,
          lines |-> <<LineOf(<<Comment>>), LineOf(<<Comment, Host("b")>>),
                      LineOf(<<[Host("a") EXCEPT !.negative = TRUE]>>)>>]
FileC == [system |-> FALSE, trusted |-> FALSE, lines |-> <<LineOf(<<Host(Everyone)>>)>>]

MCFiles == {FileA, FileB, FileC}
MCHosts == {"a", "b"}
MCTimeouts == {{}, {"read", "write", "idle"}}
MCLimits == {1, 3, 4}
=============================================================================
