--------------------------- MODULE ParameterInput ---------------------------
(***************************************************************************)
(* The input parameters of a simulation (parameter_input.cpp): a list of   *)
(* blocks, each a list of lines, that is loaded from a restart file, an    *)
(* input file and the command line, asked and completed by the packages,   *)
(* updated at run time and dumped into the restart files the next launch   *)
(* may start from.                                                         *)
(*                                                                         *)
(* A text is a sequence of words; `#' and `&' are the two words the parser *)
(* looks for.  White space between words is left out, but the indentation  *)
(* of a block's header is not: `indent' tells that the header does not     *)
(* start in the first column.                                              *)
(***************************************************************************)
EXTENDS Naturals, Sequences, SequencesExt

CONSTANTS
  Value,           \* the values: sequences of words
  Params,          \* the parameters packages ask for: <<block, name>>
  DefaultOf(_),    \* the default a package offers for a parameter
  Updatable,       \* the parameters outputs set at run time
  UpdateValue,     \* and the values they set
  InputFiles,      \* the input files: sequences of lines
  CommandLines,    \* the command lines: sequences of arguments
  Analysis,        \* <parthenon/job>/run_only_analysis
  StartTime,       \* <parthenon/time>/start_time
  TrueValue, FalseValue,
  MaxLaunches, MaxUpdates   \* bounds

VARIABLES
  up,          \* "down", "env" (after ParthenonInitEnv) or "ready"
  restarted,   \* was the simulation started from a restart file?
  blocks,      \* pfirst_block: the list of blocks
  restartFile, \* the dump in the last restart file
  saved,       \* the values the parameters had when it was written
  lastFile, lastArgs,  \* what the last launch was given
  defaulted,   \* the parameters that have a value nobody gave
  launches, updates    \* counters for the bounds

vars == <<up, restarted, blocks, restartFile, saved, lastFile, lastArgs,
          defaulted, launches, updates>>

Larger(a, b) == IF a > b THEN a ELSE b

-----------------------------------------------------------------------------
(* The lists                                                               *)

InputLine(n, v, c) == [param_name |-> n, param_value |-> v, param_comment |-> c]
InputBlock(b) ==
  [block_name |-> b, lines |-> << >>, max_len_parname |-> 0, max_len_parvalue |-> 0]

GetPtrToBlock(bs, b) == SelectInSeq(bs, LAMBDA pb : pb.block_name = b)
GetPtrToLine(pb, n) == SelectInSeq(pb.lines, LAMBDA pl : pl.param_name = n)

FindOrAddBlock(bs, b) ==
  IF GetPtrToBlock(bs, b) # 0 THEN bs ELSE Append(bs, InputBlock(b))

DoesParameterExist(bs, b, n) ==
  /\ GetPtrToBlock(bs, b) # 0
  /\ GetPtrToLine(bs[GetPtrToBlock(bs, b)], n) # 0

LineOf(bs, b, n) ==
  LET pb == bs[GetPtrToBlock(bs, b)] IN pb.lines[GetPtrToLine(pb, n)]

AddedLineKept(pb, n, v, c) ==
  IF GetPtrToLine(pb, n) # 0 THEN pb
  ELSE [pb EXCEPT !.lines = Append(@, InputLine(n, v, c)),
                  !.max_len_parname = Larger(@, Len(n)),
                  !.max_len_parvalue = Larger(@, Len(v))]

(* A parameter that exists has its value and its comment replaced; a new   *)
(* one goes to the end of the block.                                       *)
AddedLine(pb, n, v, c) ==
  LET k == GetPtrToLine(pb, n)
      widest(max, len) == IF pb.lines = << >> THEN len ELSE Larger(max, len)
  IN  [pb EXCEPT
        !.lines = IF k # 0 THEN [@ EXCEPT ![k] = InputLine(n, v, c)]
                           ELSE Append(@, InputLine(n, v, c)),
        !.max_len_parname = IF k # 0 THEN @ ELSE widest(@, Len(n)),
        !.max_len_parvalue = widest(@, Len(v))]

AddParameter(bs, b, n, v, c) ==
  LET i == GetPtrToBlock(bs, b) IN [bs EXCEPT ![i] = AddedLine(@, n, v, c)]

GetOrAdd(bs, b, n, def) ==
  IF DoesParameterExist(bs, b, n) THEN bs
  ELSE AddParameter(FindOrAddBlock(bs, b), b, n, def, <<"#", "default">>)

Set(bs, b, n, v) ==
  AddParameter(FindOrAddBlock(bs, b), b, n, v, <<"#", "updated">>)

(* CheckRequired: a default that a package added does not count.           *)
IsMissing(bs, b, n) ==
  DoesParameterExist(bs, b, n) => LineOf(bs, b, n).param_comment = <<"#", "default">>

-----------------------------------------------------------------------------
(* Parsing.  A line is blank or a comment ("skip"), the end of the         *)
(* parameters ("end"), the header of a block or "name = text"; a line      *)
(* without `=' has the empty name.                                         *)

Before(text, word) ==
  LET k == SelectInSeq(text, LAMBDA w : w = word)
  IN  IF k = 0 THEN text ELSE SubSeq(text, 1, k - 1)

(* ParseLine: the comment starts at `#', the value ends at `&', and only a *)
(* comment may follow `&'.                                                 *)
ParseLine(line) ==
  LET body == Before(line.text, "#")
      cont == \E k \in DOMAIN body : body[k] = "&"
      value == Before(body, "&")
  IN  [name    |-> line.name,
       value   |-> value,
       comment |-> SubSeq(line.text, Len(body) + 1, Len(line.text)),
       cont    |-> cont,
       fails   |-> cont /\ Len(body) > Len(value) + 1]

(* The length of the name is cut as if the header started in the first     *)
(* column: an indented header keeps its `>'.                               *)
HeaderName(line) == IF line.indent THEN line.name \o <<">">> ELSE line.name

ReadState(bs) ==
  [blocks |-> bs, current |-> << >>, continuing |-> FALSE,
   name |-> << >>, value |-> << >>, comment |-> << >>,
   done |-> FALSE, failed |-> FALSE]

ReadHeader(s, line) ==
  IF s.continuing THEN [s EXCEPT !.failed = TRUE]
  ELSE [s EXCEPT !.blocks = FindOrAddBlock(@, HeaderName(line)),
                 !.current = HeaderName(line)]

(* A parameter whose value goes on in the next line is added when its last *)
(* line is read.                                                           *)
ReadParameter(s, line) ==
  LET l == ParseLine(line)
      joined == [name |-> s.name \o l.name, value |-> s.value \o l.value,
                 comment |-> s.comment \o l.comment]
  IN  IF s.current = << >> \/ l.fails THEN [s EXCEPT !.failed = TRUE]
      ELSE IF l.cont
        THEN [s EXCEPT !.continuing = TRUE, !.name = joined.name,
                       !.value = joined.value, !.comment = joined.comment]
      ELSE [s EXCEPT
             !.continuing = FALSE, !.name = << >>, !.value = << >>, !.comment = << >>,
             !.blocks = IF joined.name = << >> THEN @
                        ELSE AddParameter(@, s.current, joined.name, joined.value,
                                          joined.comment)]

ReadLine(s, line) ==
  IF s.done \/ s.failed THEN s
  ELSE CASE line.kind = "skip"  -> s
         [] line.kind = "end"   -> [s EXCEPT !.done = TRUE]
         [] line.kind = "block" -> ReadHeader(s, line)
         [] line.kind = "param" -> ReadParameter(s, line)

LoadFromStream(bs, lines) == FoldLeft(ReadLine, ReadState(bs), lines)

(* ModifyFromCmdline, for one argument: without `/' and `=' it is skipped; *)
(* with `=' alone the run fails.                                           *)
ModifyFromArgument(s, arg) ==
  IF s.failed \/ arg.kind = "word" THEN s
  ELSE IF arg.kind = "no slash" THEN [s EXCEPT !.failed = TRUE]
  ELSE [s EXCEPT !.blocks =
         LET bs == FindOrAddBlock(@, arg.block)
             i == GetPtrToBlock(bs, arg.block)
             k == GetPtrToLine(bs[i], arg.name)
         IN  IF k = 0
             THEN AddParameter(bs, arg.block, arg.name, arg.value, <<"#", "cmdline">>)
             ELSE [bs EXCEPT ![i].lines[k].param_value = arg.value,
                             ![i].max_len_parvalue = Larger(@, Len(arg.value))]]

ModifyFromCmdline(s, cmd) == FoldLeft(ModifyFromArgument, s, cmd)

DumpBlockNoComments(pb) ==
  <<[kind |-> "block", name |-> pb.block_name, indent |-> FALSE]>> \o
  [k \in DOMAIN pb.lines |->
     [kind |-> "param", name |-> pb.lines[k].param_name,
      text |-> pb.lines[k].param_value]]

(* ParameterDump writes value and comment after each other, padded.        *)
DumpBlock(pb) ==
  <<[kind |-> "block", name |-> pb.block_name, indent |-> FALSE]>> \o
  [k \in DOMAIN pb.lines |->
     [kind |-> "param", name |-> pb.lines[k].param_name,
      text |-> pb.lines[k].param_value \o pb.lines[k].param_comment]]

ParameterDump(bs) ==
  <<[kind |-> "skip"]>> \o FlattenSeq([i \in DOMAIN bs |-> DumpBlock(bs[i])])
    \o <<[kind |-> "skip"], [kind |-> "end"]>>

-----------------------------------------------------------------------------
NoFile == << >>
NoValue == <<"none">>

(* What a list of lines gives to a parameter, said without a parser: the   *)
(* block of a line is the last header above it; a line that goes on, or    *)
(* follows one that does, belongs to the same parameter; the last          *)
(* parameter of a name counts.                                             *)
EndOf(lines) ==
  IF \E e \in DOMAIN lines : lines[e].kind = "end"
  THEN CHOOSE e \in DOMAIN lines : /\ lines[e].kind = "end"
                                   /\ \A d \in 1 .. e - 1 : lines[d].kind # "end"
  ELSE Len(lines) + 1

GoesOn(line) == "&" \in {Before(line.text, "#")[k] : k \in DOMAIN Before(line.text, "#")}

Given(lines, p) ==
  LET params == {i \in 1 .. EndOf(lines) - 1 : lines[i].kind = "param"}
      under(i) == \E h \in 1 .. i - 1 :
                     /\ lines[h].kind = "block" /\ lines[h].name = p[1]
                     /\ \A g \in h + 1 .. i - 1 : lines[g].kind # "block"
      first(i, j) == /\ i <= j /\ lines[i].name = p[2]
                     /\ \A k \in params : k \in i .. j => (GoesOn(lines[k]) <=> k < j)
      ends == {j \in params : under(j) /\ \E i \in params : first(i, j)}
      last == CHOOSE j \in ends : \A k \in ends : k <= j
      from == CHOOSE i \in params : first(i, last)
      text[k \in 0 .. Len(lines)] ==
        IF k < from THEN << >>
        ELSE IF k \in params THEN text[k - 1] \o Before(Before(lines[k].text, "#"), "&")
        ELSE text[k - 1]
  IN  IF ends = {} THEN NoValue ELSE text[last]

GivenByArgs(cmd, p) ==
  LET hits == {i \in DOMAIN cmd :
                 cmd[i].kind = "assign" /\ <<cmd[i].block, cmd[i].name>> = p}
  IN  IF hits = {} THEN NoValue
      ELSE cmd[CHOOSE i \in hits : \A j \in hits : j <= i].value

FileGives == [f \in InputFiles \cup {NoFile} |-> [p \in Params |-> Given(f, p)]]
ArgsGive == [c \in CommandLines |-> [p \in Params |-> GivenByArgs(c, p)]]

-----------------------------------------------------------------------------
(* Launches of the program                                                 *)

Init ==
  /\ up = "down" /\ restarted = FALSE
  /\ blocks = << >>
  /\ restartFile = NoFile
  /\ saved = [p \in Params |-> NoValue]
  /\ lastFile = NoFile /\ lastArgs = << >>
  /\ defaulted = [run |-> {}, file |-> {}]
  /\ launches = 0 /\ updates = 0

(* ParthenonInitEnv: the restart file, then the input file, then the       *)
(* command line; afterwards the simulation records whether it only         *)
(* analyses what the restart file holds.                                   *)
Loaded(restart, input, cmd) ==
  LET s0 == IF restart THEN LoadFromStream(<< >>, restartFile) ELSE ReadState(<< >>)
      s1 == IF input = NoFile THEN s0
            ELSE LET s == LoadFromStream(s0.blocks, input)
                 IN  [s EXCEPT !.failed = @ \/ s0.failed]
  IN  ModifyFromCmdline(s1, cmd)

IsTrue(bs, p) ==
  DoesParameterExist(bs, p[1], p[2]) /\ LineOf(bs, p[1], p[2]).param_value = TrueValue

(* The parameters the input file or the command line of a launch names.    *)
NamedIn(input, cmd) ==
  {p \in Params : FileGives[input][p] # NoValue \/ ArgsGive[cmd][p] # NoValue}

(* ArgParse: there must be a file to start from; an analysis (-a) names the  *)
(* restart file it analyses.                                               *)
ParsedArguments(restart, input, analyse) ==
  /\ restart \/ input # NoFile
  /\ restart => restartFile # NoFile
  /\ analyse => restart

(* s is what Loaded gives for these arguments.                             *)
MayLaunch == up = "down" /\ launches < MaxLaunches

ParthenonInitEnv(s, restart, input, cmd, analyse) ==
  /\ MayLaunch
  /\ ParsedArguments(restart, input, analyse)
  /\ ~s.failed
  /\ ~IsTrue(s.blocks, Analysis)
  /\ blocks' = Set(s.blocks, Analysis[1], Analysis[2],
                   IF analyse THEN TrueValue ELSE FalseValue)
  /\ up' = "env"
  /\ restarted' = restart
  /\ lastFile' = input /\ lastArgs' = cmd
  /\ defaulted' = [defaulted EXCEPT
                     !.run = (IF restart THEN defaulted.file ELSE {}) \ NamedIn(input, cmd)]
  /\ launches' = launches + 1
  /\ UNCHANGED <<restartFile, saved, updates>>

(* A launch that ends while it reads its parameters.                       *)
RefuseLaunch(s, restart, input) ==
  /\ MayLaunch
  /\ ParsedArguments(restart, input, FALSE)
  /\ s.failed \/ IsTrue(s.blocks, Analysis)
  /\ launches' = launches + 1
  /\ UNCHANGED <<up, restarted, blocks, restartFile, saved, lastFile, lastArgs,
                 defaulted, updates>>

(* A package asks for a parameter and offers its default.                  *)
PackageAsks(p) ==
  /\ up # "down"
  /\ blocks' = GetOrAdd(blocks, p[1], p[2], DefaultOf(p))
  /\ defaulted' = [defaulted EXCEPT
       !.run = IF DoesParameterExist(blocks, p[1], p[2]) THEN @ ELSE @ \cup {p}]
  /\ UNCHANGED <<up, restarted, restartFile, saved, lastFile, lastArgs,
                 launches, updates>>

Down ==
  /\ up' = "down" /\ restarted' = FALSE
  /\ blocks' = << >>
  /\ lastFile' = NoFile /\ lastArgs' = << >>
  /\ defaulted' = [defaulted EXCEPT !.run = {}]
  /\ UNCHANGED <<restartFile, saved, launches, updates>>

(* A package gets or requires a parameter that is not there: the run ends. *)
PackageRequires(p) ==
  /\ up # "down"
  /\ IsMissing(blocks, p[1], p[2])
  /\ Down

(* The end of ParthenonInitPackagesAndMesh: after a restart the time comes *)
(* from the restart file.                                                  *)
InitPackagesAndMesh ==
  /\ up = "env"
  /\ up' = "ready"
  /\ blocks' = IF restarted THEN Set(blocks, StartTime[1], StartTime[2], <<"now">>)
                            ELSE blocks
  /\ defaulted' = IF restarted THEN [defaulted EXCEPT !.run = @ \ {StartTime}]
                               ELSE defaulted
  /\ UNCHANGED <<restarted, restartFile, saved, lastFile, lastArgs,
                 launches, updates>>

(* An output records its number and its next time in its block.            *)
OutputUpdates(p, v) ==
  /\ up = "ready"
  /\ updates < MaxUpdates
  /\ blocks' = Set(blocks, p[1], p[2], v)
  /\ defaulted' = [defaulted EXCEPT !.run = @ \ {p}]
  /\ updates' = updates + 1
  /\ UNCHANGED <<up, restarted, restartFile, saved, lastFile, lastArgs,
                 launches>>

ValueNow(p) ==
  IF DoesParameterExist(blocks, p[1], p[2]) THEN LineOf(blocks, p[1], p[2]).param_value
  ELSE NoValue

WriteRestart ==
  /\ up = "ready"
  /\ restartFile' = ParameterDump(blocks)
  /\ saved' = [p \in Params |-> ValueNow(p)]
  /\ defaulted' = [defaulted EXCEPT !.file = defaulted.run]
  /\ UNCHANGED <<up, restarted, blocks, lastFile, lastArgs, launches, updates>>

(* The simulation ends or dies.                                            *)
Stop == up # "down" /\ Down

Next ==
  \/ /\ MayLaunch
     /\ \E r \in BOOLEAN, i \in InputFiles \cup {NoFile}, c \in CommandLines :
        \E s \in {Loaded(r, i, c)} :
          \/ \E a \in BOOLEAN : ParthenonInitEnv(s, r, i, c, a)
          \/ RefuseLaunch(s, r, i)
  \/ \E p \in Params : PackageAsks(p) \/ PackageRequires(p)
  \/ InitPackagesAndMesh
  \/ \E p \in Updatable, v \in UpdateValue : OutputUpdates(p, v)
  \/ WriteRestart
  \/ Stop

Spec == Init /\ [][Next]_vars

-----------------------------------------------------------------------------
Map == INSTANCE ParameterMap WITH
  up      <- up # "down",
  values  <- [p \in Params |-> ValueNow(p)],
  file    <- FileGives[lastFile],
  args    <- ArgsGive[lastArgs]

(* Launch after launch, the parameters of a simulation are those its       *)
(* restart file, its input file and its command line give, in this order   *)
(* of precedence, and what packages add or outputs record survives in the  *)
(* restart files (outputs.rst: restarts are "with input parameters updated *)
(* (or added) from the input file"): ParthenonInitEnv, the parser, the     *)
(* dump and the run-time updates implement ParameterMap.                   *)
ImplementsParameterMap == Map!Spec

(* The lists stay sound through any number of dumps and restarts: a value   *)
(* that nobody gave is marked as a default in every launch that uses it,    *)
(* since CheckRequired rests on the comment of the line; no block and no    *)
(* parameter appears twice; and the widths ParameterDump pads to are never  *)
(* less than what it pads, a difference of unsigned numbers in the code.    *)
ListsStaySound ==
  /\ up # "down" => \A p \in defaulted.run : IsMissing(blocks, p[1], p[2])
  /\ \A i, j \in DOMAIN blocks : blocks[i].block_name = blocks[j].block_name => i = j
  /\ \A i \in DOMAIN blocks :
       LET pb == blocks[i]
       IN  /\ \A k, l \in DOMAIN pb.lines :
                pb.lines[k].param_name = pb.lines[l].param_name => k = l
           /\ \A k \in DOMAIN pb.lines :
                /\ Len(pb.lines[k].param_name) <= pb.max_len_parname
                /\ Len(pb.lines[k].param_value) <= pb.max_len_parvalue
=============================================================================
