----------------------------- MODULE MCLogWriter ------------------------------
(* Small instances of LogWriter for TLC. *)
EXTENDS LogWriter

\* A line of two pieces takes three bytes, or four.
MCFormatSize == [v \in Level |-> IF v = "Debug" THEN 2 ELSE 1]

Plain == [multi |-> FALSE, abort |-> TRUE, maxFile |-> 0, threshold |-> 0, quiet |-> {},
          api |-> FALSE, full |-> FALSE, signals |-> FALSE, levels |-> {"Info", "Fatal"},
          ids |-> Logger \cup {Stranger}, writers |-> 1]
OnlyInfo == [Plain EXCEPT !.levels = {"Info"}]

\* Each setting is tried where it bites, not with all the others.
MCSettings ==
  {Plain,
   [OnlyInfo EXCEPT !.multi = TRUE, !.ids = Logger],
   [OnlyInfo EXCEPT !.multi = TRUE, !.quiet = {DefaultId}],
   [OnlyInfo EXCEPT !.api = TRUE, !.ids = {DefaultId}],
   [OnlyInfo EXCEPT !.threshold = 2, !.maxFile = 4, !.full = TRUE, !.ids = Logger,
                    !.writers = 2],
   [OnlyInfo EXCEPT !.signals = TRUE],
   [OnlyInfo EXCEPT !.signals = TRUE, !.abort = FALSE, !.threshold = 1]}
=============================================================================
