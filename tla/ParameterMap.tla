---------------------------- MODULE ParameterMap ----------------------------
(***************************************************************************)
(* What the parameters of a simulation promise its user, launch after      *)
(* launch: a run starts from the parameters saved in a restart file, or    *)
(* from none; what the input file gives replaces them and what the command *)
(* line gives replaces both.  A value that nobody gave is a default, added *)
(* by the first package that asks for it and kept from then on.            *)
(***************************************************************************)
CONSTANTS
  Params,      \* the parameters, whatever the block they are in
  Value,       \* the values
  NoValue,     \* a parameter that has none
  Analysis,    \* the parameter that tells an analysis run
  TrueValue, FalseValue

VARIABLES
  up,          \* is a simulation running?
  values,      \* the value of every parameter
  saved,       \* the values in the restart file
  file,        \* what the input file of the last launch gave
  args         \* what the command line of the last launch gave

pvars == <<up, values, saved, file, args>>

Layer == [Params -> Value \cup {NoValue}]
Nothing == [p \in Params |-> NoValue]
Over(f, g) == [p \in Params |-> IF f[p] # NoValue THEN f[p] ELSE g[p]]

Init ==
  /\ up = FALSE
  /\ values = Nothing
  /\ saved = Nothing
  /\ file = Nothing
  /\ args = Nothing

(* The parameters a launch starts with; it marks whether it only analyses, *)
(* and never goes on from an analysis run.                                 *)
Start ==
  /\ ~up
  /\ up'
  /\ file' \in Layer
  /\ args' \in Layer
  /\ \E base \in {Nothing, saved}, flag \in {TrueValue, FalseValue} :
        LET given == Over(args', Over(file', base))
        IN  /\ given[Analysis] # TrueValue
            /\ values' = [given EXCEPT ![Analysis] = flag]
  /\ UNCHANGED saved

(* A package asks for a parameter and offers a default for it.             *)
AddDefault(p) ==
  /\ up
  /\ values[p] = NoValue
  /\ \E v \in Value : values' = [values EXCEPT ![p] = v]
  /\ UNCHANGED <<up, saved, file, args>>

(* The simulation records a value of its own, the time for example.        *)
Update(p) ==
  /\ up
  /\ \E v \in Value : values' = [values EXCEPT ![p] = v]
  /\ UNCHANGED <<up, saved, file, args>>

Save ==
  /\ up
  /\ saved' = values
  /\ UNCHANGED <<up, values, file, args>>

Stop ==
  /\ up
  /\ ~up'
  /\ values' = Nothing /\ file' = Nothing /\ args' = Nothing
  /\ UNCHANGED saved

Next ==
  \/ Start \/ Save \/ Stop
  \/ \E p \in Params : AddDefault(p) \/ Update(p)

Spec == Init /\ [][Next]_pvars
=============================================================================
