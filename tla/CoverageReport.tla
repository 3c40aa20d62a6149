--------------------------- MODULE CoverageReport ---------------------------
(***************************************************************************)
(* The lines _get_coverage_cc (utils/get_coverage_cc.py) reports for a     *)
(* source file, from what process_coverage_info reads in coverage.info.    *)
(*                                                                         *)
(* Steps of CoverageCC; a coverage.info in the work directory that can be  *)
(* read holds one of Infos, and the same one as long as it is there: it is *)
(* chosen when the file is first read.  An info is a record: order, the    *)
(* functions of the file as the FN: and FNDA: lines give them; ends,       *)
(* whether this version of lcov gives the last line of a function; called, *)
(* the functions that were called; hits, for each line with a DA: line,    *)
(* whether it was executed.                                                *)
(***************************************************************************)
EXTENDS CoverageCC, SequencesExt

CONSTANTS
    Extent,      \* first and last line of each function
    Entry,       \* its name up to the first comma
    Asked,       \* entries of functions that coverage was asked of
    NumLines,    \* lines of the file
    Telling,     \* lines with one of []();= that are not in declaration_lines
    Infos        \* contents of coverage.info considered

ASSUME ReportAssumption ==
    /\ NumLines \in Nat
    /\ Telling \subseteq 1 .. NumLines
    /\ \A fn \in DOMAIN Extent : Extent[fn][1] \in 1 .. Extent[fn][2]
    /\ DOMAIN Entry = DOMAIN Extent
    /\ \A out \in Infos : out.order \in Seq(DOMAIN Extent)

VARIABLES
    content,     \* what was read in coverage.info while it is there, or NoInfo
    lcov,        \* what was read in it
    missing      \* lines "could not reach", for the entries reported

reportVars == <<lcov, missing>>
allVars == <<vars, content, reportVars>>

NoInfo == [order |-> <<>>, ends |-> FALSE, called |-> {}, hits |-> [l \in {} |-> FALSE]]
NoLines == [e \in {} |-> {}]

-----------------------------------------------------------------------------
(* process_coverage_info.                                                  *)

\* A name with a comma looks as if the last line were given: without it, the name
\* is taken for a number.
Readable(out) == out.ends \/ \A i \in DOMAIN out.order : Entry[out.order[i]] = out.order[i]

\* The entries, in the order they were made.
Entries(out) ==
    FoldLeft(LAMBDA es, fn : IF Contains(es, Entry[fn]) THEN es ELSE Append(es, Entry[fn]),
             <<>>, out.order)

\* Of functions with the same entry the last one counts.
Function(out, e) ==
    out.order[Max({i \in DOMAIN out.order : Entry[out.order[i]] = e})]

First(out, e) == Extent[Function(out, e)][1]

-----------------------------------------------------------------------------
(* _get_coverage_cc.                                                       *)

\* Mutated form of Estimate: up to the next function's first line.
EstimateNext(out, i) ==
    IF i < Len(Entries(out)) THEN First(out, Entries(out)[i + 1]) ELSE NumLines

\* The estimate at place i: next is the entry made next, be it of a function
\* further down in the file or not.
Estimate(out, i) ==
    IF i < Len(Entries(out)) THEN First(out, Entries(out)[i + 1]) - 1 ELSE NumLines

\* The place of an entry among the first lines, sorted: the first with that line.
Place(out, e) ==
    Cardinality({i \in DOMAIN Entries(out) : First(out, Entries(out)[i]) < First(out, e)}) + 1

End(out, e) ==
    IF out.ends THEN Extent[Function(out, e)][2] ELSE Estimate(out, Place(out, e))

NotReached(out, l) == l \notin DOMAIN out.hits \/ ~out.hits[l]

\* All of a function that is not called, or what was not reached above its end.
Missing(out, e) ==
    IF Function(out, e) \notin out.called
      THEN First(out, e) .. End(out, e) \cap Telling
      ELSE {l \in (First(out, e) .. End(out, e) - 1) \cap Telling : NotReached(out, l)}

Reported(out) ==
    {e \in Asked \cap ToSet(Entries(out)) :
       Function(out, e) \notin out.called \/ Missing(out, e) # {}}

\* The report of each content that can be read.
Lines == [out \in {o \in Infos : Readable(o)} |-> [e \in Reported(out) |-> Missing(out, e)]]

-----------------------------------------------------------------------------
ReportInit == Init /\ content = NoInfo /\ lcov = NoInfo /\ missing = NoLines

Contents == IF content = NoInfo THEN DOMAIN Lines ELSE {content}

ReadInfo ==
    /\ Processed
    /\ lcov' \in Contents
    /\ missing' = Lines[lcov']
    /\ content' = IF info' = info THEN lcov' ELSE NoInfo

ReportCall == Call /\ lcov' = NoInfo /\ missing' = NoLines /\ UNCHANGED content

ReportStep ==
    \/ ReadInfo
    \/ /\ \/ MakeTemp \/ CopyToTemp \/ Clean \/ Compile \/ Run \/ MakeCoverage
          \/ List \/ Fetch \/ RemoveTemp \/ NotProcessed \/ Blame
       /\ content' = IF info' = info THEN content ELSE NoInfo
       /\ UNCHANGED reportVars

ReportNext == ReportStep \/ ReportCall

ReportSpec == ReportInit /\ [][ReportNext]_allVars /\ WF_allVars(ReportStep)

-----------------------------------------------------------------------------
(* Properties.                                                             *)

Functions == ToSet(lcov.order)

\* Lines from the first of fn to the last before another function begins.
Section(fn) ==
    {l \in Extent[fn][1] .. NumLines :
       \A g \in Functions : Extent[g][1] \in Extent[fn][1] + 1 .. NumLines => l < Extent[g][1]}

\* A function ends within the file, before any that begins further down.
OwnLines ==
    \A fn \in DOMAIN Extent :
        /\ Extent[fn][2] \in 1 .. NumLines
        /\ \A g \in DOMAIN Extent :
              Extent[fn][1] < Extent[g][1] => Extent[fn][2] < Extent[g][1]

InOrder ==
    \A i, j \in DOMAIN lcov.order :
        i < j => Extent[lcov.order[i]][1] < Extent[lcov.order[j]][1]

\* What is reported of a function are lines between its first one and the next
\* function, none that was reached by calling it, and all of those it has above
\* its last line that were not; provided that no other function shares its entry,
\* and that lcov gives last lines or lists functions as they stand in the file,
\* each on lines of its own, as OwnLines says.
ReportsOwnLines ==
    \A fn \in Functions :
        /\ Entry[fn] \in Asked
        /\ \A g \in Functions \ {fn} : Entry[g] # Entry[fn]
        /\ lcov.ends \/ InOrder
        =>
        LET e == Entry[fn]
            lines == IF e \in DOMAIN missing THEN missing[e] ELSE {}
            reached == IF fn \in lcov.called THEN {l \in DOMAIN lcov.hits : lcov.hits[l]} ELSE {}
        IN  /\ lines \subseteq Section(fn) \ reached
            /\ ((Extent[fn][1] .. Extent[fn][2] - 1) \cap Telling) \ reached \subseteq lines
=============================================================================
