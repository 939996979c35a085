------------------------------ MODULE MCLogging -------------------------------
(* A program calls Loggers to configure them (LogConfiguration) and to filter     *)
(* statements (LogFilters).  The two share no state, so that an instance in which *)
(* the calls are all of one kind or all of the other shows what both do together. *)
EXTENDS LogConfiguration, LogFilters

MCLevelList == <<"Trace", "Info">>

MCAlphabet == <<"*", ",", ".", "0", "1", "2", "3", "4", "5", "6", "7", "8", "9", "=", "?",
                "a", "b", "c", "h">>
MCSuffixes == <<<<".", "h">>, <<".", "c">>, <<".", "c", "c">>>>

Source == <<"a", "b", ".", "c">>

\* n below, at and above the reset of the counter at 3, which only LOG_EVERY_N has
MCStatements ==
  [kind : {"every"}, n : 0..5, vlevel : {-1}, file : {Source}]
  \cup [kind : {"after", "times"}, n : {0, 1, 5}, vlevel : {-1}, file : {Source}]
  \cup [kind : {"every"}, n : {2}, vlevel : {1}, file : {Source, <<"a">>}]

MCLevels == {-1, 1, 10}

\* ab=1 / a?=2,*=0 / *.c=1,a=,b=2 / ab.c=12
MCTexts ==
  {<<"a", "b", "=", "1">>,
   <<"a", "?", "=", "2", ",", "*", "=", "0">>,
   <<"*", ".", "c", "=", "1", ",", "a", "=", ",", "b", "=", "2">>,
   <<"a", "b", ".", "c", "=", "1", "2">>}

V(l) == [key |-> "--v", value |-> l]
VModule(t) == [key |-> "-vmodule", value |-> t]

MCArguments ==
  {<<V(1), VModule(<<"a", "=", "2">>)>>,
   <<[key |-> "-v", value |-> NoValue]>>,
   <<[key |-> "--V", value |-> 2]>>,
   <<VModule(<<"a", "b", "=", "2">>), VModule(<<"a", "b", "=", "1">>)>>,
   <<[key |-> "-VMODULE", value |-> <<"b", "=", "2">>]>>,
   <<>>}
-----------------------------------------------------------------------------
VARIABLE configures   \* the calls are those that configure loggers

Either ==
  /\ ConfInit /\ Init /\ configures \in BOOLEAN
  /\ configures => statement = CHOOSE s \in Statements : TRUE

AnyCall ==
  \/ configures /\ ConfNext /\ UNCHANGED <<vars, configures>>
  \/ ~configures /\ Next /\ UNCHANGED <<confVars, configures>>

LoggingSpec == Either /\ [][AnyCall]_<<confVars, vars, configures>>
=============================================================================
