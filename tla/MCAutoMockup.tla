---------------------------- MODULE MCAutoMockup ----------------------------
(* A project of three files.  A has a function f, a function p that shares *)
(* the static variable n with it, and q that only stores through n.  B has *)
(* what A calls (g), what A only takes the address of (h), and a function  *)
(* x that calls back into A.  B and C have a log each; the configuration   *)
(* of A and of B prefers that of B.  x is static, as is e of A, and B lies *)
(* in a directory below that of A.  C declares the variable w, which       *)
(* nothing defines, and uses the variable v, which A declares and B        *)
(* defines.  In their other versions A does not compile, B has a function  *)
(* without statements, and C does without w, and calls into A.             *)
EXTENDS AutoMockup

MCFiles == {"A", "B", "C"}
MCCutOff == {{"c", "d", "e", "f"}, {"c", "d", "e", "f", "g", "h", "k", "log"}}
MCNames == {"c", "d", "e", "f", "g", "h", "k", "lib", "log", "main", "n", "p",
            "q", "v", "w", "x"}

\* A function that calls, reads, assigns and stores through names.
Fn(calls, reads, assigns, stores) ==
    [static |-> FALSE, empty |-> FALSE, lopsided |-> FALSE, indirect |-> FALSE,
     calls |-> calls, reads |-> reads, assigns |-> assigns, stores |-> stores]

TextA ==
    [compiles |-> TRUE, once |-> TRUE, defines |-> {}, declares |-> {"v"},
     statics |-> {"n"}, included |-> {},
     body |-> [main |-> Fn({"f", "d"}, {}, {}, {}),
               f |-> Fn({"g", "lib"}, {"h"}, {"n"}, {}),
               p |-> Fn({"log"}, {"n"}, {}, {}),
               q |-> Fn({}, {"log"}, {}, {"n"}),
               e |-> [Fn({}, {"n"}, {}, {}) EXCEPT !.static = TRUE]]]

TextB ==
    [compiles |-> TRUE, once |-> FALSE, defines |-> {"v"}, declares |-> {},
     statics |-> {}, included |-> {},
     body |-> [g |-> Fn({}, {}, {}, {}),
               h |-> Fn({}, {"v"}, {}, {}),
               log |-> Fn({}, {}, {}, {}),
               x |-> [Fn({"p", "g"}, {}, {}, {}) EXCEPT !.static = TRUE]]]

TextC ==
    [compiles |-> TRUE, once |-> FALSE, defines |-> {}, declares |-> {"w"},
     statics |-> {}, included |-> {"v"},
     body |-> [c |-> Fn({"log"}, {"w"}, {}, {}),
               d |-> Fn({"g"}, {}, {}, {}),
               k |-> Fn({}, {}, {"v"}, {}),
               log |-> Fn({}, {}, {}, {})]]

PlainC ==
    [TextC EXCEPT !.declares = {}, !.body =
        [c |-> Fn({"log"}, {}, {}, {}), log |-> Fn({}, {}, {}, {}),
         d |-> Fn({"p"}, {}, {}, {}),
         k |-> Fn({"q", "e"}, {}, {}, {})]]

MCSource ==
    [k \in MCFiles \X {1, 2} |->
        CASE k = <<"A", 1>> -> TextA
          [] k = <<"A", 2>> -> [TextA EXCEPT !.compiles = FALSE]
          [] k = <<"B", 1>> -> TextB
          [] k = <<"B", 2>> -> [TextB EXCEPT !.body.g.empty = TRUE]
          [] k = <<"C", 1>> -> TextC
          [] k = <<"C", 2>> -> PlainC]

MCSuffix == {<<f, f>> : f \in MCFiles}
MCPreferred ==
    [f \in MCFiles |-> [n \in MCNames |->
        IF f \in {"A", "B"} /\ n = "log" THEN {"B"} ELSE {}]]
MCConflicting == {<<"B", "C">>}

\* The project is one LinksChosen is proved for.
ASSUME MCNamesApart == NamesApart
=============================================================================
