-------------------------- MODULE MCParameterInput --------------------------
(***************************************************************************)
(* An instance of ParameterInput for TLC: four parameters in three blocks  *)
(* and input files with every kind of line.                                *)
(***************************************************************************)
EXTENDS ParameterInput

CONSTANT IndentedHeaders   \* may an input file indent the header of a block?

Mesh == <<"parthenon/mesh">>
Job == <<"parthenon/job">>
Time == <<"parthenon/time">>
Nx == <<Mesh, <<"nx1">>>>
Bc == <<Mesh, <<"ix1_bc">>>>
MCAnalysis == <<Job, <<"run_only_analysis">>>>
MCStartTime == <<Time, <<"start_time">>>>
MCParams == {Nx, Bc, MCAnalysis, MCStartTime}

MCTrue == <<"true">>
MCFalse == <<"false">>
MCDefaultOf(p) == IF p = MCAnalysis THEN MCFalse ELSE <<"8">>
MCUpdatable == {Bc}
MCUpdateValue == {<<"9">>}
MCValue == {MCTrue, MCFalse, <<"8">>, <<"9">>, <<"16">>, <<"4">>, <<"now">>,
            <<"periodic", "x">>, <<"user">>, << >>}

Header(b) == [kind |-> "block", name |-> b, indent |-> FALSE]
Indented(b) == [kind |-> "block", name |-> b, indent |-> TRUE]
Line(p, text) == [kind |-> "param", name |-> p[2], text |-> text]
More(text) == [kind |-> "param", name |-> << >>, text |-> text]
Skip == [kind |-> "skip"]
ParEnd == [kind |-> "end"]

\* A block that reappears, a parameter given twice, a value over three lines,
\* a line without `=' and lines behind the end.
Long == <<Header(Mesh), Line(Nx, <<"8", "#", "cells">>), Skip, Header(Time), Header(Mesh),
          Line(Bc, <<"periodic", "&", "#", "long">>), Skip, More(<<"&">>), More(<<"x">>),
          More(<<"stray">>), Line(Nx, <<"16">>), ParEnd, Line(Nx, <<"9">>)>>
\* An empty value, and a value that is still going on at the end.
Short == <<Skip, Header(Mesh), Line(Nx, << >>), Line(Bc, <<"user", "&">>)>>
Plain == <<Header(Mesh), Line(Bc, <<"user">>), Header(Time), Line(MCStartTime, <<"4">>)>>
NoHeader == <<Line(Nx, <<"8">>)>>
CutOff == <<Header(Mesh), Line(Nx, <<"8", "&">>), Header(Time)>>
BehindAmp == <<Header(Mesh), Line(Nx, <<"8", "&", "9">>)>>
Shifted == <<Indented(Mesh), Line(Nx, <<"16">>)>>

MCInputFiles ==
  {Long, Short, Plain, NoHeader, CutOff, BehindAmp}
    \cup IF IndentedHeaders THEN {Shifted} ELSE {}

Arg(p, v) == [kind |-> "assign", block |-> p[1], name |-> p[2], value |-> v]
MCCommandLines ==
  {<< >>,
   <<[kind |-> "word"], Arg(Nx, <<"4">>), Arg(MCStartTime, <<"periodic", "x">>)>>,
   <<Arg(Bc, <<"8">>), Arg(Bc, <<"user">>)>>,
   <<Arg(MCAnalysis, MCTrue)>>,
   <<[kind |-> "no slash"]>>}
=============================================================================
