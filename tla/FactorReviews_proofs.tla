------------------------- MODULE FactorReviews_proofs -------------------------
(***************************************************************************)
(* What holds of the reviews of a factor batch for every batch, every      *)
(* sequence of commands and every number of crashes.                       *)
(*                                                                         *)
(* First what the reviews do to their directories (IInv), then what the    *)
(* operators they are made of yield, for every table: the decisions, the   *)
(* trigger days, the overlap of two factors and the words over several     *)
(* instruments; last what is in the files therefore (ReviewInv).           *)
(***************************************************************************)
EXTENDS FactorReviews, FiniteSetTheorems, WellFoundedInduction, TLAPS

EventsName == "review-events.jsonl"
SignalFiles == {"factor-signal-stats.json", "factor-pair-signal-similarity.json"}
SummaryFiles == {"cross-object-redundancy-summary.json", "pooled-diagnostics.json", "factor-redundancy-groups.json",
                 "cross-object-signal-similarity-summary.json"}
Ways == {"SystemExit", "error", "crash", "unclosed", "completed", "passed", "needs_fix"}
Finished == {"completed", "unclosed"}
\* Where a review is that has not written its report.
Phases == {"manifest", "load", "instrument", "report"}

\* The inputs are those of a case.
InputOK ==
  /\ instruments \in Seq(ToSet(instruments))
  /\ Len(instruments) \in Nat /\ DOMAIN instruments = 1..Len(instruments)
  /\ \A i \in DOMAIN instruments : instruments[i].id # 0
  /\ commands \in Seq({"redundancy", "signal", "artifact"})

\* The process: where it is, what it has done, what it holds.
ProcessOK ==
  /\ pc \in Phases \cup Closing \cup {"command"}
  /\ turn \in 1..(Len(commands) + 1) /\ endings \in Seq(Ways) /\ Len(endings) = turn - 1
  /\ crashes \in 0..MaxCrashes
  /\ item \in Nat \ {0} /\ results \in Seq({results[i] : i \in DOMAIN results}) /\ Len(results) = item - 1
  /\ pc \in {"command", "manifest", "load"} => item = 1
  /\ pc \in Phases \cup Closing => turn <= Len(commands) /\ Kind \in dirs \ {"artifact"}
  /\ pc = "report" => item > Len(instruments)

\* Files are in directories of reviews, and those of an instrument carry its id.
TreeOK ==
  /\ dirs \subseteq {"redundancy", "signal", "artifact"}
  /\ \A p \in DOMAIN files : p = Of(p[1], p[2], p[3]) /\ p[1] \in dirs
  /\ \A p \in DOMAIN files : p[1] = "redundancy" /\ p[2] # 0 =>
       /\ p[3] \in InstrumentFiles
       /\ p[3] # "factor-correlation-matrix.csv" => files[p].instrument = p[2]

\* What the review that runs can have written so far ...
NothingAhead ==
  pc \in Phases => \A p \in DOMAIN files : p[1] = Kind =>
    \/ p[3] \in {"review-config.json", EventsName}
    \/ pc # "manifest" /\ p[3] = "source-data-manifest.json"
    \/ /\ pc \in {"instrument", "report"} /\ p[3] \in InstrumentFiles \cup SignalFiles
       /\ \E i \in 1..(item - 1) : p[2] = instruments[i].id
    \/ pc = "report" /\ p[3] \in SummaryFiles

\* ... and what a redundancy review has written by then, or when its report is there.
Manifest == [i \in DOMAIN instruments |-> instruments[i].id]
WroteManifest ==
  /\ instruments # <<>>
  /\ Written(Top("redundancy", "source-data-manifest.json"))
  /\ files[Top("redundancy", "source-data-manifest.json")] = Manifest
WroteInstruments(n) ==
  \A i \in 1..n : \A name \in InstrumentFiles : Written(Of("redundancy", instruments[i].id, name))
WroteSummary == RequiredFiles \ {Top("redundancy", "report.md")} \subseteq DOMAIN files

NothingMissing ==
  /\ pc \in Phases /\ Kind = "redundancy" =>
       /\ Written(Top("redundancy", "review-config.json")) /\ Written(Events("redundancy"))
       /\ pc # "manifest" => WroteManifest
       /\ WroteInstruments(item - 1)
       /\ pc = "report" => WroteSummary
  /\ Written(Top("redundancy", "report.md")) =>
       WroteManifest /\ WroteInstruments(Len(instruments)) /\ WroteSummary

\* The report of a redundancy review is there exactly when a command wrote it, one before or the
\* one that runs; what is passed has it.
ReportMeansFinished ==
  Written(Top("redundancy", "report.md")) <=>
    \/ pc \in Closing /\ Kind = "redundancy"
    \/ \E u \in 1..(turn - 1) : commands[u] = "redundancy" /\ endings[u] \in Finished

PassedMeansFinished ==
  \A t \in DOMAIN endings : commands[t] = "artifact" =>
    /\ endings[t] = "passed" <=> \E u \in 1..(t - 1) : commands[u] = "redundancy" /\ endings[u] \in Finished
    /\ endings[t] # "needs_fix"

IInv ==
  /\ InputOK /\ ProcessOK /\ TreeOK /\ NothingAhead /\ NothingMissing
  /\ ReportMeansFinished /\ PassedMeansFinished

\* What a step does to the tree: old files stay, but for the logs, and new ones, but for a log,
\* are in no directory that has its report.
TreeKept ==
  /\ dirs \subseteq dirs'
  /\ \A p \in DOMAIN files : p \in DOMAIN files' /\ (p[3] # EventsName => files'[p] = files[p])
  /\ \A p \in DOMAIN files' \ DOMAIN files :
       p[1] \in dirs' /\ (p[3] # EventsName => ~Written(Top(p[1], "report.md")))

-----------------------------------------------------------------------------
(* What the steps are made of *)

LEMMA AppendToAny ==
  ASSUME NEW s, s \in Seq({s[i] : i \in DOMAIN s}), NEW e
  PROVE  /\ Append(s, e) \in Seq({Append(s, e)[i] : i \in DOMAIN Append(s, e)})
         /\ Len(Append(s, e)) = Len(s) + 1
<1> DEFINE R == {s[i] : i \in DOMAIN s}
           t == Append(s, e)
<1>1. s \in Seq(R \cup {e}) /\ Len(s) \in Nat OBVIOUS
<1>2. t \in Seq(R \cup {e}) /\ Len(t) = Len(s) + 1 BY <1>1
<1> DEFINE S == R \cup {e}
<1>3. t \in Seq(S) BY <1>2
<1> HIDE DEF t, S
<1>4. t \in Seq({t[i] : i \in DOMAIN t})
  <2> DEFINE T == {t[i] : i \in DOMAIN t}
  <2>0. DOMAIN t = 1..Len(t) /\ Len(t) \in Nat /\ t \in [1..Len(t) -> S] BY <1>3
  <2>1. \A i \in 1..Len(t) : t[i] \in T BY <2>0
  <2> HIDE DEF T
  <2>2. t \in [1..Len(t) -> T] BY <2>0, <2>1
  <2>3. t \in Seq(T) BY <2>0, <2>2
  <2> QED BY <2>3 DEF T
<1> QED BY <1>2, <1>4 DEF t

\* The files of a stage and its events.
LEMMA WriteShape ==
  ASSUME NEW contents, NEW events, Write(contents, events)
  PROVE  /\ DOMAIN files' = DOMAIN files \cup DOMAIN contents \cup {Events(Kind)}
         /\ \A p \in DOMAIN files \ DOMAIN contents : p # Events(Kind) => files'[p] = files[p]
         /\ \A p \in DOMAIN contents : p # Events(Kind) => files'[p] = contents[p]
<1> DEFINE before == IF Written(Events(Kind)) THEN files[Events(Kind)] ELSE <<>>
           log == OneFile(Events(Kind), before \o events)
<1>1. files' = WrittenOver(log, WrittenOver(contents, files)) BY DEF Write
<1>2. DOMAIN log = {Events(Kind)} BY DEF OneFile
<1> HIDE DEF log
<1> QED BY <1>1, <1>2 DEF WrittenOver

LEMMA FileShape ==
  ASSUME NEW path, NEW content
  PROVE  DOMAIN OneFile(path, content) = {path} /\ OneFile(path, content)[path] = content
BY DEF OneFile

LEMMA OverShape ==
  ASSUME NEW new, NEW old
  PROVE  /\ DOMAIN WrittenOver(new, old) = DOMAIN new \cup DOMAIN old
         /\ \A p \in DOMAIN new : WrittenOver(new, old)[p] = new[p]
         /\ \A p \in DOMAIN old \ DOMAIN new : WrittenOver(new, old)[p] = old[p]
BY DEF WrittenOver

LEMMA EndShape ==
  ASSUME ProcessOK, NEW how \in Ways, EndProcess(how)
  PROVE  /\ endings' \in Seq(Ways) /\ Len(endings') = turn /\ endings'[turn] = how
         /\ \A u \in 1..(turn - 1) : endings'[u] = endings[u]
         /\ turn' = turn + 1 /\ pc' = "command" /\ item' = 1
         /\ results' \in Seq({results'[i] : i \in DOMAIN results'}) /\ Len(results') = 0
<1>1. endings \in Seq(Ways) /\ turn = Len(endings) + 1 BY DEF ProcessOK
<1>2. results' = <<>> BY DEF EndProcess
<1> QED BY <1>1, <1>2 DEF EndProcess

\* A step that may at most append to the log of the review that runs.
LogOnly == UNCHANGED files \/ (Kind \in dirs /\ \E events : Write(<<>>, events))

LEMMA LogOnlyKeeps ==
  ASSUME IInv, UNCHANGED Input, LogOnly, dirs \subseteq dirs', dirs' \subseteq {"redundancy", "signal", "artifact"}
  PROVE  /\ InputOK' /\ TreeOK' /\ TreeKept
         /\ Written(Top("redundancy", "report.md"))' <=> Written(Top("redundancy", "report.md"))
         /\ (Written(Top("redundancy", "report.md")) =>
               WroteManifest /\ WroteInstruments(Len(instruments)) /\ WroteSummary)'
<1> USE DEF IInv, Input
<1>1. /\ \A p \in DOMAIN files : p \in DOMAIN files' /\ (p # Events(Kind) => files'[p] = files[p])
      /\ \A p \in DOMAIN files' \ DOMAIN files : p = Events(Kind) /\ Kind \in dirs
  <2>1. CASE UNCHANGED files BY <2>1
  <2>2. CASE Kind \in dirs /\ \E events : Write(<<>>, events)
    <3>1. PICK events : Write(<<>>, events) BY <2>2
    <3> DEFINE none == <<>>
    <3>2. DOMAIN none = {} /\ Write(none, events) BY <3>1
    <3> HIDE DEF none
    <3>3. /\ DOMAIN files' = DOMAIN files \cup {Events(Kind)}
          /\ \A p \in DOMAIN files : p # Events(Kind) => files'[p] = files[p]
      BY <3>2, WriteShape
    <3> QED BY <2>2, <3>3
  <2> QED BY <2>1, <2>2 DEF LogOnly
<1>2. /\ Events(Kind)[1] = Kind /\ Events(Kind)[2] = 0 /\ Events(Kind)[3] = EventsName
      /\ Events(Kind) = Of(Events(Kind)[1], Events(Kind)[2], Events(Kind)[3])
      /\ Top("redundancy", "report.md") # Events(Kind) /\ Top("redundancy", "source-data-manifest.json") # Events(Kind)
  BY DEF Events, Top, Of, EventsName
<1>3. InputOK' BY DEF InputOK
<1>4. TreeOK'
  <2>1. \A p \in DOMAIN files' : p = Of(p[1], p[2], p[3]) /\ p[1] \in dirs' BY <1>1, <1>2 DEF TreeOK
  <2>2. ASSUME NEW p \in DOMAIN files', p[1] = "redundancy", p[2] # 0
        PROVE  /\ p[3] \in InstrumentFiles
               /\ p[3] # "factor-correlation-matrix.csv" => files'[p].instrument = p[2]
    BY <1>1, <1>2, <2>2 DEF TreeOK
  <2> QED BY <2>1, <2>2 DEF TreeOK
<1>5. TreeKept BY <1>1, <1>2 DEF TreeKept
<1>6. Written(Top("redundancy", "report.md"))' <=> Written(Top("redundancy", "report.md")) BY <1>1, <1>2 DEF Written
<1>7. (Written(Top("redundancy", "report.md")) =>
         WroteManifest /\ WroteInstruments(Len(instruments)) /\ WroteSummary)'
  <2> SUFFICES ASSUME Written(Top("redundancy", "report.md"))
               PROVE  (WroteManifest /\ WroteInstruments(Len(instruments)) /\ WroteSummary)'
    BY <1>6
  <2>1. WroteManifest /\ WroteInstruments(Len(instruments)) /\ WroteSummary BY DEF NothingMissing
  <2>2. DOMAIN files \subseteq DOMAIN files' BY <1>1
  <2>3. files'[Top("redundancy", "source-data-manifest.json")] = files[Top("redundancy", "source-data-manifest.json")]
    BY <1>1, <1>2, <2>1 DEF WroteManifest, Written
  <2> QED BY <2>1, <2>2, <2>3 DEF WroteManifest, WroteInstruments, WroteSummary, Written, Manifest
<1> QED BY <1>3, <1>4, <1>5, <1>6, <1>7

\* A process that ends and writes no file: one that wrote its report is finished, no other is.
LEMMA EndKeeps ==
  ASSUME IInv, NEW how \in Ways, EndProcess(how), turn <= Len(commands), how \in Finished <=> pc \in Closing,
         UNCHANGED Input, LogOnly, dirs' \in {dirs, dirs \cup {"artifact"}}, crashes' \in 0..MaxCrashes,
         Kind = "artifact" =>
           /\ how = "passed" <=> Written(Top("redundancy", "report.md"))
           /\ how # "needs_fix" /\ pc = "command"
  PROVE  IInv' /\ TreeKept
<1> USE DEF IInv, Input
<1>1. /\ endings' \in Seq(Ways) /\ Len(endings') = turn /\ endings'[turn] = how
      /\ \A u \in 1..(turn - 1) : endings'[u] = endings[u]
      /\ turn' = turn + 1 /\ pc' = "command" /\ item' = 1
      /\ results' \in Seq({results'[i] : i \in DOMAIN results'}) /\ Len(results') = 0
  BY EndShape
<1>2. turn \in Nat /\ Len(commands) \in Nat /\ turn >= 1 /\ DOMAIN endings = 1..(turn - 1)
  BY DEF ProcessOK, InputOK
<1>3. /\ InputOK' /\ TreeOK' /\ TreeKept
      /\ Written(Top("redundancy", "report.md"))' <=> Written(Top("redundancy", "report.md"))
      /\ (Written(Top("redundancy", "report.md")) =>
            WroteManifest /\ WroteInstruments(Len(instruments)) /\ WroteSummary)'
  <2>1. dirs \subseteq dirs' /\ dirs' \subseteq {"redundancy", "signal", "artifact"} BY DEF TreeOK
  <2> QED BY <2>1, LogOnlyKeeps
<1>4. ProcessOK' BY <1>1, <1>2 DEF ProcessOK, Phases, Closing
<1>5. NothingAhead' /\ NothingMissing' BY <1>1, <1>3 DEF NothingAhead, NothingMissing, Phases
<1>6. ReportMeansFinished'
  <2>1. ReportMeansFinished OBVIOUS
  <2>2. pc' \notin Closing BY <1>1 DEF Closing
  <2>3. 1..(turn' - 1) = 1..(turn - 1) \cup {turn} BY <1>1, <1>2
  <2>4. (\E u \in 1..(turn' - 1) : commands'[u] = "redundancy" /\ endings'[u] \in Finished)
          <=> \/ Kind = "redundancy" /\ how \in Finished
              \/ \E u \in 1..(turn - 1) : commands[u] = "redundancy" /\ endings[u] \in Finished
    BY <1>1, <2>3 DEF Kind
  <2> QED BY <1>3, <2>1, <2>2, <2>4 DEF ReportMeansFinished
<1>7. PassedMeansFinished'
  <2> SUFFICES ASSUME NEW t \in DOMAIN endings', commands[t] = "artifact"
               PROVE  /\ endings'[t] = "passed" <=>
                           \E u \in 1..(t - 1) : commands[u] = "redundancy" /\ endings'[u] \in Finished
                      /\ endings'[t] # "needs_fix"
    BY DEF PassedMeansFinished
  <2>1. t \in 1..turn BY <1>1, <1>2
  <2>2. CASE t = turn
    <3>1. Kind = "artifact" /\ pc \notin Closing BY <2>2 DEF Kind, Closing
    <3> QED BY <1>1, <1>2, <2>2, <3>1 DEF ReportMeansFinished, Kind
  <2>3. CASE t \in 1..(turn - 1)
    BY <1>1, <1>2, <2>3 DEF PassedMeansFinished
  <2> QED BY <1>2, <2>1, <2>2, <2>3
<1> QED BY <1>3, <1>4, <1>5, <1>6, <1>7

\* A review that goes on after writing the files of a stage.
LEMMA WriteKeeps ==
  ASSUME IInv, NEW contents, NEW events, Write(contents, events), UNCHANGED <<Input, turn, endings>>,
         turn <= Len(commands), Kind \in {"redundancy", "signal"}, dirs' = dirs \cup {Kind},
         ~Written(Top(Kind, "report.md")), pc \notin Closing, pc' \notin Closing,
         \A p \in DOMAIN contents :
           /\ p \notin DOMAIN files /\ p[1] = Kind /\ p[3] # EventsName /\ p # Top(Kind, "report.md")
           /\ p = Of(p[1], p[2], p[3])
           /\ Kind = "redundancy" /\ p[2] # 0 =>
                /\ p[3] \in InstrumentFiles
                /\ p[3] # "factor-correlation-matrix.csv" => contents[p].instrument = p[2]
  PROVE  /\ InputOK' /\ TreeOK' /\ ReportMeansFinished' /\ PassedMeansFinished' /\ TreeKept
         /\ (Written(Top("redundancy", "report.md")) =>
               WroteManifest /\ WroteInstruments(Len(instruments)) /\ WroteSummary)'
<1> USE DEF IInv, Input
<1>1. /\ DOMAIN files' = DOMAIN files \cup DOMAIN contents \cup {Events(Kind)}
      /\ \A p \in DOMAIN files \ DOMAIN contents : p # Events(Kind) => files'[p] = files[p]
      /\ \A p \in DOMAIN contents : p # Events(Kind) => files'[p] = contents[p]
  BY WriteShape
<1>2. /\ Events(Kind)[1] = Kind /\ Events(Kind)[2] = 0 /\ Events(Kind)[3] = EventsName
      /\ \A p : p = Events(Kind) => p[1] = Kind /\ p[2] = 0 /\ p[3] = EventsName
  BY DEF Events, Top, EventsName
<1>3. InputOK' /\ PassedMeansFinished' BY DEF InputOK, PassedMeansFinished
<1>4. TreeOK'
  <2>0. Events(Kind) = Of(Events(Kind)[1], Events(Kind)[2], Events(Kind)[3]) BY DEF Events, Top, Of
  <2>1. \A p \in DOMAIN files' : p = Of(p[1], p[2], p[3]) /\ p[1] \in dirs' BY <1>1, <1>2, <2>0 DEF TreeOK
  <2>2. dirs' \subseteq {"redundancy", "signal", "artifact"} BY DEF TreeOK
  <2>3. ASSUME NEW p \in DOMAIN files', p[1] = "redundancy", p[2] # 0
        PROVE  /\ p[3] \in InstrumentFiles
               /\ p[3] # "factor-correlation-matrix.csv" => files'[p].instrument = p[2]
    BY <1>1, <1>2, <2>3 DEF TreeOK
  <2> QED BY <2>1, <2>2, <2>3 DEF TreeOK
<1>5. TreeKept BY <1>1, <1>2 DEF TreeKept
<1>6. \A name : Top(Kind, name)[1] = Kind /\ Top(Kind, name)[3] = name BY DEF Top
<1>7. Written(Top("redundancy", "report.md"))' <=> Written(Top("redundancy", "report.md"))
  <2>1. Top("redundancy", "report.md") # Events(Kind) BY DEF Events, Top
  <2>2. CASE Kind = "redundancy" BY <1>1, <2>1, <2>2 DEF Written
  <2>3. CASE Kind = "signal"
    <3>1. Top("redundancy", "report.md")[1] = "redundancy" BY DEF Top
    <3> QED BY <1>1, <2>1, <2>3, <3>1 DEF Written
  <2> QED BY <2>2, <2>3
<1>8. ReportMeansFinished' BY <1>7 DEF ReportMeansFinished
<1>9. (Written(Top("redundancy", "report.md")) =>
         WroteManifest /\ WroteInstruments(Len(instruments)) /\ WroteSummary)'
  <2> SUFFICES ASSUME Written(Top("redundancy", "report.md"))
               PROVE  (WroteManifest /\ WroteInstruments(Len(instruments)) /\ WroteSummary)'
    BY <1>7
  <2>1. Kind = "signal" OBVIOUS
  <2>2. WroteManifest /\ WroteInstruments(Len(instruments)) /\ WroteSummary BY DEF NothingMissing
  <2>3. DOMAIN files \subseteq DOMAIN files' BY <1>1
  <2>4. files'[Top("redundancy", "source-data-manifest.json")] = files[Top("redundancy", "source-data-manifest.json")]
    <3>1. Top("redundancy", "source-data-manifest.json")[1] = "redundancy" BY DEF Top
    <3> QED BY <1>1, <1>2, <2>1, <2>2, <3>1 DEF WroteManifest, Written
  <2> QED BY <2>2, <2>3, <2>4 DEF WroteManifest, WroteInstruments, WroteSummary, Written, Manifest
<1> QED BY <1>3, <1>4, <1>5, <1>8, <1>9

-----------------------------------------------------------------------------
(* The steps *)

\* A review that runs has its directory.
LEMMA Busy ==
  ASSUME IInv, pc \in Phases \cup Closing
  PROVE  /\ turn <= Len(commands) /\ Kind \in {"redundancy", "signal"} /\ Kind \in dirs /\ dirs = dirs \cup {Kind}
         /\ turn \in Nat /\ item \in Nat /\ Len(instruments) \in Nat
<1>1. InputOK /\ ProcessOK /\ TreeOK BY DEF IInv
<1>2. Len(instruments) \in Nat /\ Len(commands) \in Nat BY <1>1 DEF InputOK
<1>3. turn \in 1..(Len(commands) + 1) /\ item \in Nat \ {0} /\ turn <= Len(commands) /\ Kind \in dirs \ {"artifact"}
  BY <1>1 DEF ProcessOK
<1> QED BY <1>1, <1>2, <1>3 DEF TreeOK

\* One that has not written its report has none.
LEMMA Running ==
  ASSUME IInv, pc \in Phases
  PROVE  /\ turn <= Len(commands) /\ Kind \in {"redundancy", "signal"} /\ Kind \in dirs /\ dirs = dirs \cup {Kind}
         /\ ~Written(Top(Kind, "report.md")) /\ pc \notin Closing
         /\ turn \in Nat /\ item \in Nat /\ Len(instruments) \in Nat
<1>1. /\ turn <= Len(commands) /\ Kind \in {"redundancy", "signal"} /\ Kind \in dirs /\ dirs = dirs \cup {Kind}
      /\ turn \in Nat /\ item \in Nat /\ Len(instruments) \in Nat
  BY Busy
<1>2. ASSUME Written(Top(Kind, "report.md")) PROVE FALSE
  <2>1. Top(Kind, "report.md")[1] = Kind /\ Top(Kind, "report.md")[3] = "report.md" BY DEF Top
  <2>2. Top(Kind, "report.md") \in DOMAIN files BY <1>2 DEF Written
  <2> QED BY <2>1, <2>2 DEF IInv, NothingAhead, EventsName, InstrumentFiles, SignalFiles, SummaryFiles
<1>3. pc \notin Closing BY DEF Phases, Closing
<1> QED BY <1>1, <1>2, <1>3

\* The names of the files of the top directory and of an instrument's.
LEMMA Paths ==
  ASSUME NEW kind, NEW id, NEW name
  PROVE  /\ Of(kind, id, name)[1] = kind /\ Of(kind, id, name)[2] = id /\ Of(kind, id, name)[3] = name
         /\ Top(kind, name)[1] = kind /\ Top(kind, name)[2] = 0 /\ Top(kind, name)[3] = name
         /\ Events(kind)[1] = kind /\ Events(kind)[2] = 0 /\ Events(kind)[3] = EventsName
BY DEF Of, Top, Events, EventsName

\* The files of a stage that is not the report's: what is left to show of it.
LEMMA StageKeeps ==
  ASSUME IInv, NEW contents, NEW events, Write(contents, events), UNCHANGED <<Input, turn, endings>>,
         turn <= Len(commands), Kind \in {"redundancy", "signal"}, dirs' = dirs \cup {Kind},
         ~Written(Top(Kind, "report.md")), pc \notin Closing,
         \A p \in DOMAIN contents :
           /\ p \notin DOMAIN files /\ p[1] = Kind /\ p[3] # EventsName /\ p # Top(Kind, "report.md")
           /\ p = Of(p[1], p[2], p[3])
           /\ Kind = "redundancy" /\ p[2] # 0 =>
                /\ p[3] \in InstrumentFiles
                /\ p[3] # "factor-correlation-matrix.csv" => contents[p].instrument = p[2],
         ProcessOK', pc' \in Phases,
         \A p \in DOMAIN files : p[1] = Kind =>
           \/ p[3] \in {"review-config.json", EventsName}
           \/ pc' # "manifest" /\ p[3] = "source-data-manifest.json"
           \/ /\ pc' \in {"instrument", "report"} /\ p[3] \in InstrumentFiles \cup SignalFiles
              /\ \E i \in 1..(item' - 1) : p[2] = instruments[i].id
           \/ pc' = "report" /\ p[3] \in SummaryFiles,
         \A p \in DOMAIN contents :
           \/ p[3] = "review-config.json"
           \/ pc' # "manifest" /\ p[3] = "source-data-manifest.json"
           \/ /\ pc' \in {"instrument", "report"} /\ p[3] \in InstrumentFiles \cup SignalFiles
              /\ \E i \in 1..(item' - 1) : p[2] = instruments[i].id
           \/ pc' = "report" /\ p[3] \in SummaryFiles,
         Kind = "redundancy" =>
           (/\ Written(Top("redundancy", "review-config.json")) /\ Written(Events("redundancy"))
            /\ pc # "manifest" => WroteManifest
            /\ WroteInstruments(item - 1)
            /\ pc = "report" => WroteSummary)'
  PROVE  IInv' /\ TreeKept
<1>1. /\ InputOK' /\ TreeOK' /\ ReportMeansFinished' /\ PassedMeansFinished' /\ TreeKept
      /\ (Written(Top("redundancy", "report.md")) =>
            WroteManifest /\ WroteInstruments(Len(instruments)) /\ WroteSummary)'
  <2>1. pc' \notin Closing BY DEF Phases, Closing
  <2> QED BY <2>1, WriteKeeps
<1>2. DOMAIN files' = DOMAIN files \cup DOMAIN contents \cup {Events(Kind)} BY WriteShape
<1>3. Events(Kind)[3] = EventsName BY Paths
<1>4. Kind' = Kind BY DEF Kind, Input
<1>5. NothingAhead'
  <2> SUFFICES ASSUME NEW p \in DOMAIN files', p[1] = Kind
               PROVE  \/ p[3] \in {"review-config.json", EventsName}
                      \/ pc' # "manifest" /\ p[3] = "source-data-manifest.json"
                      \/ /\ pc' \in {"instrument", "report"} /\ p[3] \in InstrumentFiles \cup SignalFiles
                         /\ \E i \in 1..(item' - 1) : p[2] = instruments'[i].id
                      \/ pc' = "report" /\ p[3] \in SummaryFiles
    BY <1>4 DEF NothingAhead
  <2>1. instruments' = instruments BY DEF Input
  <2>2. CASE p \in DOMAIN files BY <2>1, <2>2
  <2>3. CASE p \in DOMAIN contents BY <2>1, <2>3
  <2>4. CASE p = Events(Kind) BY <1>3, <2>4
  <2> QED BY <1>2, <2>2, <2>3, <2>4
<1>6. NothingMissing' BY <1>1, <1>4 DEF NothingMissing
<1> QED BY <1>1, <1>5, <1>6 DEF IInv

LEMMA StartKeeps == ASSUME IInv, Start PROVE IInv' /\ TreeKept
<1>0. turn \in Nat /\ turn >= 1 /\ turn <= Len(commands) /\ Kind \in {"redundancy", "signal"} /\ item = 1 /\ pc = "command"
  BY DEF Start, IInv, InputOK, ProcessOK, Kind
<1>1. CASE Kind \in dirs
  <2>1. EndProcess("SystemExit") /\ UNCHANGED <<Input, files, dirs, crashes>> BY <1>1 DEF Start
  <2> QED BY <1>0, <2>1, EndKeeps DEF Ways, Finished, Closing, LogOnly, IInv, ProcessOK
<1>2. CASE Kind \notin dirs
  <2> DEFINE contents == OneFile(Top(Kind, "review-config.json"), [id |-> turn, settings |-> settings])
             path == Top(Kind, "review-config.json")
  <2>1. /\ Write(contents, <<"review_started">>)
        /\ dirs' = dirs \cup {Kind} /\ pc' = "manifest"
        /\ UNCHANGED <<Input, crashes, turn, item, results, endings>>
    BY <1>2 DEF Start
  <2>2. DOMAIN contents = {path} BY FileShape
  <2>3. path[1] = Kind /\ path[2] = 0 /\ path[3] = "review-config.json" BY Paths
  <2>4. \A p \in DOMAIN files : p[1] # Kind BY <1>2 DEF IInv, TreeOK
  <2> HIDE DEF contents
  <2>5. DOMAIN files' = DOMAIN files \cup {path} \cup {Events(Kind)} BY <2>1, <2>2, WriteShape
  <2>6. Top(Kind, "report.md")[1] = Kind /\ Top(Kind, "report.md")[3] = "report.md" BY Paths
  <2>7. ProcessOK'
    <3>1. Kind' = Kind /\ instruments' = instruments /\ commands' = commands BY <2>1 DEF Kind, Input
    <3> QED BY <1>0, <2>1, <3>1 DEF IInv, ProcessOK, Phases
  <2>8. (/\ Written(Top("redundancy", "review-config.json")) /\ Written(Events("redundancy"))
         /\ pc # "manifest" => WroteManifest
         /\ WroteInstruments(item - 1)
         /\ pc = "report" => WroteSummary)' \/ Kind # "redundancy"
    BY <1>0, <2>1, <2>5 DEF Written, WroteInstruments
  <2>9. \A p \in DOMAIN contents :
          /\ p \notin DOMAIN files /\ p[1] = Kind /\ p[3] # EventsName /\ p # Top(Kind, "report.md")
          /\ p[2] = 0 /\ p[3] = "review-config.json" /\ p = Of(p[1], p[2], p[3])
    BY <2>2, <2>3, <2>4, <2>6 DEF EventsName, Top, Of
  <2>10. ~Written(Top(Kind, "report.md")) BY <2>4, <2>6 DEF Written
  <2> QED BY <1>0, <2>1, <2>4, <2>7, <2>8, <2>9, <2>10, StageKeeps DEF Phases, Closing
<1> QED BY <1>1, <1>2

LEMMA ManifestKeeps == ASSUME IInv, BuildSourceManifest PROVE IInv' /\ TreeKept
<1>0. pc = "manifest" /\ pc \in Phases /\ item = 1 BY DEF BuildSourceManifest, IInv, ProcessOK, Phases
<1>r. /\ turn <= Len(commands) /\ Kind \in {"redundancy", "signal"} /\ Kind \in dirs /\ dirs = dirs \cup {Kind}
      /\ ~Written(Top(Kind, "report.md")) /\ pc \notin Closing
      /\ turn \in Nat /\ item \in Nat /\ Len(instruments) \in Nat
  BY <1>0, Running
<1>1. CASE instruments = <<>> \/ \E i \in DOMAIN instruments : ~instruments[i].present
  <2>1. EndProcess("SystemExit") /\ UNCHANGED <<Input, files, dirs, crashes>> BY <1>1 DEF BuildSourceManifest
  <2> QED BY <1>r, <2>1, EndKeeps DEF Ways, Finished, LogOnly, IInv, ProcessOK
<1>2. CASE ~(instruments = <<>> \/ \E i \in DOMAIN instruments : ~instruments[i].present)
  <2> DEFINE path == Top(Kind, "source-data-manifest.json")
             contents == OneFile(path, [i \in DOMAIN instruments |-> instruments[i].id])
  <2>1. /\ Write(contents, <<"source_manifest_completed">>) /\ pc' = "load"
        /\ UNCHANGED <<Input, dirs, crashes, turn, item, results, endings>>
    BY <1>2 DEF BuildSourceManifest
  <2>2. DOMAIN contents = {path} /\ contents[path] = Manifest BY FileShape DEF Manifest
  <2>3. path[1] = Kind /\ path[2] = 0 /\ path[3] = "source-data-manifest.json" BY Paths
  <2>4. \A p \in DOMAIN files : p[1] = Kind => p[3] \in {"review-config.json", EventsName}
    BY <1>0 DEF IInv, NothingAhead
  <2> HIDE DEF contents
  <2>5. /\ DOMAIN files' = DOMAIN files \cup {path} \cup {Events(Kind)}
        /\ files'[path] = Manifest
    <3>1. path # Events(Kind) BY <2>3, Paths DEF EventsName
    <3> QED BY <2>1, <2>2, <3>1, WriteShape
  <2>6. Top(Kind, "report.md")[1] = Kind /\ Top(Kind, "report.md")[3] = "report.md" BY Paths
  <2>7. ProcessOK'
    <3>1. Kind' = Kind /\ instruments' = instruments /\ commands' = commands BY <2>1 DEF Kind, Input
    <3> QED BY <1>0, <1>r, <2>1, <3>1 DEF IInv, ProcessOK, Phases
  <2>8. (/\ Written(Top("redundancy", "review-config.json")) /\ Written(Events("redundancy"))
         /\ pc # "manifest" => WroteManifest
         /\ WroteInstruments(item - 1)
         /\ pc = "report" => WroteSummary)' \/ Kind # "redundancy"
    BY <1>0, <1>2, <2>1, <2>5 DEF Written, WroteInstruments, WroteManifest, Manifest, IInv, NothingMissing, Input
  <2>9. \A p \in DOMAIN contents :
          /\ p \notin DOMAIN files /\ p[1] = Kind /\ p[3] # EventsName /\ p # Top(Kind, "report.md")
          /\ p[2] = 0 /\ p[3] = "source-data-manifest.json" /\ p = Of(p[1], p[2], p[3])
    BY <2>2, <2>3, <2>4, <2>6 DEF EventsName, Top, Of
  <2> QED BY <1>r, <2>1, <2>4, <2>7, <2>8, <2>9, StageKeeps DEF Phases
<1> QED BY <1>1, <1>2

LEMMA LoadKeeps == ASSUME IInv, LoadRows PROVE IInv' /\ TreeKept
<1>0. pc = "load" /\ pc \in Phases /\ item = 1 BY DEF LoadRows, IInv, ProcessOK, Phases
<1>r. /\ turn <= Len(commands) /\ Kind \in {"redundancy", "signal"} /\ Kind \in dirs /\ dirs = dirs \cup {Kind}
      /\ ~Written(Top(Kind, "report.md")) /\ pc \notin Closing
      /\ turn \in Nat /\ item \in Nat /\ Len(instruments) \in Nat
  BY <1>0, Running
<1>1. CASE \E i \in DOMAIN instruments : instruments[i].malformed
  <2>1. EndProcess("SystemExit") /\ UNCHANGED <<Input, files, dirs, crashes>> BY <1>1 DEF LoadRows
  <2> QED BY <1>r, <2>1, EndKeeps DEF Ways, Finished, LogOnly, IInv, ProcessOK
<1>2. CASE ~\E i \in DOMAIN instruments : instruments[i].malformed
  <2> DEFINE contents == <<>>
  <2>1. /\ Write(contents, <<"load_completed">>) /\ pc' = "instrument"
        /\ UNCHANGED <<Input, dirs, crashes, turn, item, results, endings>>
    BY <1>2 DEF LoadRows
  <2>2. DOMAIN contents = {} OBVIOUS
  <2> HIDE DEF contents
  <2>4. \A p \in DOMAIN files : p[1] = Kind =>
          p[3] \in {"review-config.json", EventsName, "source-data-manifest.json"}
    BY <1>0 DEF IInv, NothingAhead
  <2>5. /\ DOMAIN files' = DOMAIN files \cup {Events(Kind)}
        /\ \A p \in DOMAIN files : p # Events(Kind) => files'[p] = files[p]
    BY <2>1, <2>2, WriteShape
  <2>6. Top("redundancy", "source-data-manifest.json") # Events(Kind) BY DEF Top, Events
  <2>7. ProcessOK'
    <3>1. Kind' = Kind /\ instruments' = instruments /\ commands' = commands BY <2>1 DEF Kind, Input
    <3> QED BY <1>0, <1>r, <2>1, <3>1 DEF IInv, ProcessOK, Phases
  <2>8. (/\ Written(Top("redundancy", "review-config.json")) /\ Written(Events("redundancy"))
         /\ pc # "manifest" => WroteManifest
         /\ WroteInstruments(item - 1)
         /\ pc = "report" => WroteSummary)' \/ Kind # "redundancy"
    BY <1>0, <2>1, <2>5, <2>6 DEF Written, WroteInstruments, WroteManifest, Manifest, IInv, NothingMissing, Input
  <2> QED BY <1>r, <2>1, <2>2, <2>4, <2>7, <2>8, StageKeeps DEF Phases
<1> QED BY <1>1, <1>2

\* The files of one instrument, in a directory of its own.
LEMMA InstrumentKeeps ==
  ASSUME IInv, pc = "instrument", item <= Len(instruments), ~ListedBefore(item),
         NEW contents, NEW names, NEW result, Write(contents, <<>>),
         names \subseteq InstrumentFiles \cup SignalFiles,
         DOMAIN contents = {Of(Kind, instruments[item].id, name) : name \in names},
         Kind = "redundancy" =>
           /\ names = InstrumentFiles
           /\ \A name \in InstrumentFiles \ {"factor-correlation-matrix.csv"} :
                contents[Of(Kind, instruments[item].id, name)].instrument = instruments[item].id,
         results' = Append(results, result), item' = item + 1,
         UNCHANGED <<Input, turn, pc, dirs, crashes, endings>>
  PROVE  IInv' /\ TreeKept
<1> DEFINE id == instruments[item].id
<1>0. pc \in Phases BY DEF Phases
<1>r. /\ turn <= Len(commands) /\ Kind \in {"redundancy", "signal"} /\ Kind \in dirs /\ dirs = dirs \cup {Kind}
      /\ ~Written(Top(Kind, "report.md")) /\ pc \notin Closing
      /\ turn \in Nat /\ item \in Nat /\ Len(instruments) \in Nat
  BY <1>0, Running
<1>1. \A p \in DOMAIN contents : \E name \in names : p = Of(Kind, id, name) OBVIOUS
<1>2. \A p \in DOMAIN contents : p[1] = Kind /\ p[2] = id /\ p[3] \in names
  BY <1>1, Paths
<1>3. Top(Kind, "report.md")[3] = "report.md" /\ Top("redundancy", "source-data-manifest.json")[3] = "source-data-manifest.json"
  BY DEF Top
<1>4. item \in 1..Len(instruments) /\ item >= 1 BY <1>r DEF IInv, ProcessOK
<1>5. id # 0 BY <1>4 DEF IInv, InputOK
<1>6. \A p \in DOMAIN contents :
        /\ p \notin DOMAIN files /\ p[1] = Kind /\ p[3] # EventsName /\ p # Top(Kind, "report.md")
        /\ p[3] \in InstrumentFiles \cup SignalFiles /\ p = Of(p[1], p[2], p[3])
  <2>0. \A p \in DOMAIN contents : p = Of(p[1], p[2], p[3]) BY <1>1 DEF Of
  <2>1. \A p \in DOMAIN files : p[1] = Kind =>
          \/ p[3] \in {"review-config.json", EventsName, "source-data-manifest.json"}
          \/ \E i \in 1..(item - 1) : p[2] = instruments[i].id
    BY DEF IInv, NothingAhead, Phases
  <2>2. \A i \in 1..(item - 1) : instruments[i].id # id BY DEF ListedBefore
  <2> QED BY <1>2, <1>3, <2>0, <2>1, <2>2 DEF EventsName, InstrumentFiles, SignalFiles
<1>7. Kind = "redundancy" => \A p \in DOMAIN contents :
        p[3] \in InstrumentFiles /\ (p[3] # "factor-correlation-matrix.csv" => contents[p].instrument = p[2])
  BY <1>1, <1>2, Paths
<1>8. ProcessOK'
  <2>1. Kind' = Kind /\ instruments' = instruments /\ commands' = commands BY DEF Kind, Input
  <2>2. results' \in Seq({results'[i] : i \in DOMAIN results'}) /\ Len(results') = item
    <3>1. results \in Seq({results[i] : i \in DOMAIN results}) /\ Len(results) = item - 1 BY DEF IInv, ProcessOK
    <3>2. /\ Append(results, result) \in Seq({Append(results, result)[i] : i \in DOMAIN Append(results, result)})
          /\ Len(Append(results, result)) = Len(results) + 1
      BY <3>1, AppendToAny
    <3>3. results' = Append(results, result) OBVIOUS
    <3>4. Len(results') = item BY <1>r, <3>1, <3>2, <3>3
    <3>5. results' \in Seq({results'[i] : i \in DOMAIN results'}) BY <3>2, <3>3
    <3> QED BY <3>4, <3>5
  <2>3. ProcessOK BY DEF IInv
  <2>4. /\ pc' = "instrument" /\ turn' = turn /\ endings' = endings /\ crashes' = crashes /\ dirs' = dirs
        /\ item' = item + 1 /\ item' \in Nat \ {0}
    BY <1>r
  <2>5. Len(results') = item' - 1 BY <1>r, <2>2, <2>4
  <2> QED BY <1>r, <2>1, <2>2, <2>3, <2>4, <2>5 DEF ProcessOK, Phases
<1>9. \A p \in DOMAIN files \cup DOMAIN contents : p[1] = Kind =>
        \/ p[3] \in {"review-config.json", EventsName}
        \/ pc' # "manifest" /\ p[3] = "source-data-manifest.json"
        \/ /\ pc' \in {"instrument", "report"} /\ p[3] \in InstrumentFiles \cup SignalFiles
           /\ \E i \in 1..(item' - 1) : p[2] = instruments[i].id
        \/ pc' = "report" /\ p[3] \in SummaryFiles
  <2>1. 1..(item - 1) \subseteq 1..(item' - 1) /\ item \in 1..(item' - 1) BY <1>r, <1>4
  <2>2. ASSUME NEW p \in DOMAIN files, p[1] = Kind
        PROVE  \/ p[3] \in {"review-config.json", EventsName, "source-data-manifest.json"}
               \/ p[3] \in InstrumentFiles \cup SignalFiles /\ \E i \in 1..(item - 1) : p[2] = instruments[i].id
    BY <2>2 DEF IInv, NothingAhead, Phases
  <2> QED BY <1>2, <1>6, <2>1, <2>2
<1>10. (/\ Written(Top("redundancy", "review-config.json")) /\ Written(Events("redundancy"))
        /\ pc # "manifest" => WroteManifest
        /\ WroteInstruments(item - 1)
        /\ pc = "report" => WroteSummary)' \/ Kind # "redundancy"
  <2> SUFFICES ASSUME Kind = "redundancy"
               PROVE  (/\ Written(Top("redundancy", "review-config.json")) /\ Written(Events("redundancy"))
                       /\ pc # "manifest" => WroteManifest
                       /\ WroteInstruments(item - 1)
                       /\ pc = "report" => WroteSummary)'
    OBVIOUS
  <2>1. DOMAIN files' = DOMAIN files \cup DOMAIN contents \cup {Events(Kind)} BY WriteShape
  <2>2. /\ Written(Top("redundancy", "review-config.json")) /\ Written(Events("redundancy"))
        /\ WroteManifest /\ WroteInstruments(item - 1)
    BY DEF IInv, NothingMissing, Phases
  <2>3. WroteManifest'
    <3> DEFINE path == Top("redundancy", "source-data-manifest.json")
    <3>1. path # Events(Kind) BY DEF Events, Top
    <3>2. path \in DOMAIN files \ DOMAIN contents BY <1>6, <2>2 DEF WroteManifest, Written
    <3>3. files'[path] = files[path] BY <3>1, <3>2, WriteShape
    <3> QED BY <2>1, <2>2, <3>3 DEF WroteManifest, Written, Manifest, Input
  <2>4. WroteInstruments(item - 1)'
    <3> SUFFICES ASSUME NEW i \in 1..item, NEW name \in InstrumentFiles
                 PROVE  Of("redundancy", instruments[i].id, name) \in DOMAIN files'
      BY <1>r DEF WroteInstruments, Written, Input
    <3>1. CASE i = item BY <2>1, <3>1
    <3>2. CASE i # item
      <4>1. i \in 1..(item - 1) BY <1>r, <3>2
      <4> QED BY <2>1, <2>2, <4>1 DEF WroteInstruments, Written
    <3> QED BY <3>1, <3>2
  <2> QED BY <2>1, <2>2, <2>3, <2>4 DEF Written
<1>11. UNCHANGED <<Input, turn, endings>> /\ dirs' = dirs \cup {Kind} BY <1>r
<1>12. pc' \in Phases BY <1>0
<1>13. \A p \in DOMAIN contents :
         Kind = "redundancy" /\ p[2] # 0 =>
                /\ p[3] \in InstrumentFiles
                /\ p[3] # "factor-correlation-matrix.csv" => contents[p].instrument = p[2]
  BY <1>7
<1> QED BY <1>r, <1>6, <1>8, <1>9, <1>10, <1>11, <1>12, <1>13, StageKeeps

LEMMA RedundancyKeeps == ASSUME IInv, ReviewOneInstrument PROVE IInv' /\ TreeKept
<1> DEFINE id == instruments[item].id
           relationships == Relationships(TableOf(item), settings)
           matrix == OneFile(Of(Kind, id, "factor-correlation-matrix.csv"), Columns(TableOf(item)))
           pairs == OneFile(Of(Kind, id, "factor-pair-relationships.json"), Scoped(id, relationships))
           decisions == OneFile(Of(Kind, id, "factor-retention-decisions.json"),
                                Scoped(id, RetentionDecisions(Columns(TableOf(item)), relationships)))
           contents == WrittenOver(matrix, WrittenOver(pairs, decisions))
<1>0. pc = "instrument" /\ pc \in Phases /\ Kind = "redundancy" /\ item <= Len(instruments)
  BY DEF ReviewOneInstrument, Phases
<1>1. CASE ListedBefore(item)
  <2>1. EndProcess("error") /\ UNCHANGED <<Input, files, dirs, crashes>> BY <1>1 DEF ReviewOneInstrument
  <2> QED BY <1>0, <2>1, Running, EndKeeps DEF Ways, Finished, LogOnly, IInv, ProcessOK
<1>2. CASE ~ListedBefore(item)
  <2>1. /\ Write(contents, <<>>)
        /\ results' = Append(results, relationships) /\ item' = item + 1
        /\ UNCHANGED <<Input, turn, pc, dirs, crashes, endings>>
    BY <1>2 DEF ReviewOneInstrument
  <2>2. /\ DOMAIN matrix = {Of(Kind, id, "factor-correlation-matrix.csv")}
        /\ DOMAIN pairs = {Of(Kind, id, "factor-pair-relationships.json")}
        /\ pairs[Of(Kind, id, "factor-pair-relationships.json")].instrument = id
        /\ DOMAIN decisions = {Of(Kind, id, "factor-retention-decisions.json")}
        /\ decisions[Of(Kind, id, "factor-retention-decisions.json")].instrument = id
    <3> HIDE DEF relationships
    <3>1. \A rows : Scoped(id, rows).instrument = id BY DEF Scoped
    <3> QED BY <3>1 DEF OneFile
  <2> HIDE DEF matrix, pairs, decisions
  <2>3. /\ Of(Kind, id, "factor-correlation-matrix.csv") # Of(Kind, id, "factor-pair-relationships.json")
        /\ Of(Kind, id, "factor-correlation-matrix.csv") # Of(Kind, id, "factor-retention-decisions.json")
        /\ Of(Kind, id, "factor-pair-relationships.json") # Of(Kind, id, "factor-retention-decisions.json")
    BY DEF Of
  <2>4. DOMAIN contents = {Of(Kind, id, name) : name \in InstrumentFiles}
    <3>1. DOMAIN contents = DOMAIN matrix \cup (DOMAIN pairs \cup DOMAIN decisions) BY DEF WrittenOver
    <3> QED BY <2>2, <3>1 DEF InstrumentFiles
  <2>5. /\ contents[Of(Kind, id, "factor-pair-relationships.json")].instrument = id
        /\ contents[Of(Kind, id, "factor-retention-decisions.json")].instrument = id
    BY <2>2, <2>3 DEF WrittenOver
  <2>6. \A name \in InstrumentFiles \ {"factor-correlation-matrix.csv"} : contents[Of(Kind, id, name)].instrument = id
    BY <2>5 DEF InstrumentFiles
  <2> HIDE DEF contents, relationships
  <2> QED BY <1>0, <1>2, <2>1, <2>4, <2>6, InstrumentKeeps
<1> QED BY <1>1, <1>2

LEMMA SignalKeeps == ASSUME IInv, CompareSignals PROVE IInv' /\ TreeKept
<1> DEFINE id == instruments[item].id
           stats == SignalStats(instruments[item].table, instruments[item].returns, settings.quantile)
           similarities == PairSimilarities(stats, settings)
           first == OneFile(Of(Kind, id, "factor-signal-stats.json"), stats)
           second == OneFile(Of(Kind, id, "factor-pair-signal-similarity.json"), similarities)
           contents == WrittenOver(first, second)
<1>0. pc = "instrument" /\ pc \in Phases /\ Kind = "signal" /\ item <= Len(instruments)
  BY DEF CompareSignals, Phases
<1>1. CASE ListedBefore(item)
  <2>1. EndProcess("error") /\ UNCHANGED <<Input, files, dirs, crashes>> BY <1>1 DEF CompareSignals
  <2> QED BY <1>0, <2>1, Running, EndKeeps DEF Ways, Finished, LogOnly, IInv, ProcessOK
<1>2. CASE ~ListedBefore(item)
  <2>1. /\ Write(contents, <<>>)
        /\ results' = Append(results, similarities) /\ item' = item + 1
        /\ UNCHANGED <<Input, turn, pc, dirs, crashes, endings>>
    BY <1>2 DEF CompareSignals
  <2>2. /\ DOMAIN first = {Of(Kind, id, "factor-signal-stats.json")}
        /\ DOMAIN second = {Of(Kind, id, "factor-pair-signal-similarity.json")}
    BY FileShape
  <2> HIDE DEF first, second
  <2>3. DOMAIN contents = {Of(Kind, id, name) : name \in SignalFiles}
    <3>1. DOMAIN contents = DOMAIN first \cup DOMAIN second BY DEF WrittenOver
    <3> QED BY <2>2, <3>1 DEF SignalFiles
  <2> HIDE DEF contents, similarities
  <2> QED BY <1>0, <1>2, <2>1, <2>3, InstrumentKeeps
<1> QED BY <1>1, <1>2

LEMMA SummarizeKeeps == ASSUME IInv, Summarize PROVE IInv' /\ TreeKept
<1>0. pc = "instrument" /\ pc \in Phases /\ item > Len(instruments) BY DEF Summarize, Phases
<1>r. /\ turn <= Len(commands) /\ Kind \in {"redundancy", "signal"} /\ Kind \in dirs /\ dirs = dirs \cup {Kind}
      /\ ~Written(Top(Kind, "report.md")) /\ pc \notin Closing
      /\ turn \in Nat /\ item \in Nat /\ Len(instruments) \in Nat
  BY <1>0, Running
<1> DEFINE Named(names) == {Top(Kind, name) : name \in names}
           Three == {"cross-object-redundancy-summary.json", "pooled-diagnostics.json", "factor-redundancy-groups.json"}
           One == {"cross-object-signal-similarity-summary.json"}
<1>1. /\ pc' = "report" /\ UNCHANGED <<Input, turn, item, results, dirs, crashes, endings>>
      /\ \E contents, names, events :
                              /\ Write(contents, events)
                              /\ DOMAIN contents = Named(names)
                              /\ names \subseteq SummaryFiles
                              /\ Kind = "redundancy" => names = Three
  <2>1. CASE Kind = "redundancy"
    <3> DEFINE summary == CrossObjectSummary(results, settings)
               pooled == PooledDiagnostics([i \in DOMAIN instruments |-> instruments[i].table], summary, settings)
               first == OneFile(Top(Kind, "cross-object-redundancy-summary.json"), summary)
               second == OneFile(Top(Kind, "pooled-diagnostics.json"), pooled)
               third == OneFile(Top(Kind, "factor-redundancy-groups.json"), Groups(summary))
               contents == WrittenOver(first, WrittenOver(second, third))
    <3>1. Write(contents, <<"per_instrument_completed", "cross_object_summary_completed">>) BY <2>1 DEF Summarize
    <3>2. /\ DOMAIN first = {Top(Kind, "cross-object-redundancy-summary.json")}
          /\ DOMAIN second = {Top(Kind, "pooled-diagnostics.json")}
          /\ DOMAIN third = {Top(Kind, "factor-redundancy-groups.json")}
      BY FileShape
    <3> HIDE DEF first, second, third
    <3>3. DOMAIN contents = DOMAIN first \cup (DOMAIN second \cup DOMAIN third) BY DEF WrittenOver
    <3>4. DOMAIN contents = Named(Three) BY <3>2, <3>3
    <3> HIDE DEF contents
    <3>5. Three \subseteq SummaryFiles BY DEF SummaryFiles
    <3> QED BY <3>1, <3>4, <3>5 DEF Summarize
  <2>2. CASE Kind = "signal"
    <3> DEFINE contents == OneFile(Top(Kind, "cross-object-signal-similarity-summary.json"), CrossObjectSignals(results, settings))
    <3>1. Write(contents, <<"per_instrument_completed">>) BY <2>2 DEF Summarize
    <3>2. DOMAIN contents = {Top(Kind, "cross-object-signal-similarity-summary.json")} BY FileShape
    <3> HIDE DEF contents
    <3>3. DOMAIN contents = Named(One) BY <3>2
    <3>4. One \subseteq SummaryFiles BY DEF SummaryFiles
    <3> QED BY <2>2, <3>1, <3>3, <3>4 DEF Summarize
  <2> QED BY <1>r, <2>1, <2>2
<1>2. PICK contents, names, events :
         /\ Write(contents, events)
         /\ DOMAIN contents = Named(names)
         /\ names \subseteq SummaryFiles
         /\ Kind = "redundancy" => names = Three
  BY <1>1
<1>3. \A p \in DOMAIN contents : \E name \in names : p = Top(Kind, name) BY <1>2
<1>4. \A p \in DOMAIN contents : p[1] = Kind /\ p[2] = 0 /\ p[3] \in SummaryFiles /\ p = Of(p[1], p[2], p[3])
  BY <1>2, <1>3 DEF Top, Of
<1>5. Top(Kind, "report.md")[3] = "report.md" BY DEF Top
<1>6. \A p \in DOMAIN files : p[1] = Kind =>
         \/ p[3] \in {"review-config.json", EventsName, "source-data-manifest.json"}
         \/ p[3] \in InstrumentFiles \cup SignalFiles /\ \E i \in 1..(item - 1) : p[2] = instruments[i].id
  BY <1>0 DEF IInv, NothingAhead
<1>7. \A p \in DOMAIN contents : p \notin DOMAIN files /\ p[3] # EventsName /\ p # Top(Kind, "report.md")
  BY <1>4, <1>5, <1>6 DEF EventsName, InstrumentFiles, SignalFiles, SummaryFiles
<1>8. ProcessOK'
  <2>1. Kind' = Kind /\ instruments' = instruments /\ commands' = commands BY <1>1 DEF Kind, Input
  <2>2. ProcessOK BY DEF IInv
  <2> QED BY <1>0, <1>r, <1>1, <2>1, <2>2 DEF ProcessOK, Phases
<1>9. (/\ Written(Top("redundancy", "review-config.json")) /\ Written(Events("redundancy"))
       /\ pc # "manifest" => WroteManifest
       /\ WroteInstruments(item - 1)
       /\ pc = "report" => WroteSummary)' \/ Kind # "redundancy"
  <2> SUFFICES ASSUME Kind = "redundancy"
               PROVE  (/\ Written(Top("redundancy", "review-config.json")) /\ Written(Events("redundancy"))
                       /\ pc # "manifest" => WroteManifest
                       /\ WroteInstruments(item - 1)
                       /\ pc = "report" => WroteSummary)'
    OBVIOUS
  <2>1. DOMAIN files' = DOMAIN files \cup DOMAIN contents \cup {Events(Kind)} BY <1>2, WriteShape
  <2>2. /\ Written(Top("redundancy", "review-config.json")) /\ Written(Events("redundancy"))
        /\ WroteManifest /\ WroteInstruments(item - 1)
    BY <1>0 DEF IInv, NothingMissing
  <2>3. WroteManifest'
    <3> DEFINE path == Top("redundancy", "source-data-manifest.json")
    <3>1. path # Events(Kind) BY DEF Events, Top
    <3>2. path \in DOMAIN files \ DOMAIN contents BY <1>7, <2>2 DEF WroteManifest, Written
    <3>3. files'[path] = files[path] BY <1>2, <3>1, <3>2, WriteShape
    <3>4. instruments' = instruments BY <1>1 DEF Input
    <3> QED BY <2>1, <2>2, <3>3, <3>4 DEF WroteManifest, Written, Manifest
  <2>4. WroteInstruments(item - 1)' BY <1>1, <2>1, <2>2 DEF WroteInstruments, Written, Input
  <2>5. Named(Three) \subseteq DOMAIN files' BY <1>2, <2>1
  <2>6. WroteSummary' BY <2>1, <2>2, <2>5 DEF WroteSummary, RequiredFiles, Written, WroteManifest, Events
  <2> QED BY <2>1, <2>2, <2>3, <2>4, <2>6 DEF Written
<1>10. \A p \in DOMAIN files : p[1] = Kind =>
         \/ p[3] \in {"review-config.json", EventsName}
         \/ pc' # "manifest" /\ p[3] = "source-data-manifest.json"
         \/ /\ pc' \in {"instrument", "report"} /\ p[3] \in InstrumentFiles \cup SignalFiles
            /\ \E i \in 1..(item' - 1) : p[2] = instruments[i].id
         \/ pc' = "report" /\ p[3] \in SummaryFiles
  BY <1>1, <1>6
<1>11. UNCHANGED <<Input, turn, endings>> /\ dirs' = dirs \cup {Kind} /\ pc' \in Phases BY <1>r, <1>1 DEF Phases
<1> QED BY <1>r, <1>1, <1>2, <1>4, <1>7, <1>8, <1>9, <1>10, <1>11, StageKeeps

LEMMA ReportKeeps == ASSUME IInv, WriteReport PROVE IInv' /\ TreeKept
<1> USE DEF Input
<1> DEFINE path == Top(Kind, "report.md")
           contents == OneFile(path, "isolated")
<1>0. pc = "report" /\ pc \in Phases BY DEF WriteReport, Phases
<1>r. /\ turn <= Len(commands) /\ Kind \in {"redundancy", "signal"} /\ Kind \in dirs /\ dirs = dirs \cup {Kind}
      /\ ~Written(Top(Kind, "report.md")) /\ pc \notin Closing
      /\ turn \in Nat /\ item \in Nat /\ Len(instruments) \in Nat
  BY <1>0, Running
<1>1. /\ Write(contents, <<>>) /\ pc' = "closing"
      /\ UNCHANGED <<Input, turn, item, results, dirs, crashes, endings>>
  BY DEF WriteReport
<1>2. DOMAIN contents = {path} BY FileShape
<1> HIDE DEF contents
<1>3. ProcessOK /\ InputOK /\ TreeOK BY DEF IInv
<1>6. /\ DOMAIN files' = DOMAIN files \cup {path, Events(Kind)}
      /\ \A p \in DOMAIN files : p # Events(Kind) => files'[p] = files[p]
  BY <1>1, <1>2, <1>r, WriteShape DEF Written
<1>7. /\ path[1] = Kind /\ path[2] = 0 /\ path[3] = "report.md" /\ path = Of(path[1], path[2], path[3])
      /\ Events(Kind)[1] = Kind /\ Events(Kind)[2] = 0 /\ Events(Kind)[3] = EventsName
      /\ Events(Kind) = Of(Events(Kind)[1], Events(Kind)[2], Events(Kind)[3])
  BY DEF Events, Top, Of, EventsName
<1>8. InputOK' BY <1>1, <1>3 DEF InputOK
<1>4. Kind' = Kind /\ instruments' = instruments /\ commands' = commands BY <1>1 DEF Kind
<1>9. ProcessOK' BY <1>1, <1>3, <1>4, <1>r DEF ProcessOK, Phases, Closing
<1>10. TreeOK'
  <2>1. \A p \in DOMAIN files' : p = Of(p[1], p[2], p[3]) /\ p[1] \in dirs'
    BY <1>1, <1>3, <1>6, <1>7, <1>r DEF TreeOK
  <2>2. ASSUME NEW p \in DOMAIN files', p[1] = "redundancy", p[2] # 0
        PROVE  /\ p[3] \in InstrumentFiles
               /\ p[3] # "factor-correlation-matrix.csv" => files'[p].instrument = p[2]
    BY <1>3, <1>6, <1>7, <2>2 DEF TreeOK
  <2> QED BY <1>1, <1>3, <2>1, <2>2 DEF TreeOK
<1>11. \A kind : Top(kind, "report.md") # Events(Kind) /\ Top(kind, "source-data-manifest.json") # Events(Kind)
  BY DEF Top, Events
<1>12. NothingAhead' BY <1>1 DEF NothingAhead, Phases
<1>13. NothingMissing'
  <2> SUFFICES ASSUME Written(Top("redundancy", "report.md"))'
               PROVE  (WroteManifest /\ WroteInstruments(Len(instruments)) /\ WroteSummary)'
    BY <1>1 DEF NothingMissing, Phases
  <2>1. WroteManifest /\ WroteInstruments(Len(instruments)) /\ WroteSummary
    <3>1. CASE Kind = "redundancy"
      <4>1. WroteManifest /\ WroteInstruments(item - 1) /\ WroteSummary
        BY <1>0, <3>1 DEF IInv, NothingMissing
      <4>2. 1..Len(instruments) \subseteq 1..(item - 1) BY <1>0, <1>3, <1>r DEF ProcessOK
      <4> QED BY <4>1, <4>2 DEF WroteInstruments
    <3>2. CASE Kind = "signal"
      <4>1. Top("redundancy", "report.md")[1] = "redundancy" BY DEF Top
      <4>2. Written(Top("redundancy", "report.md")) BY <1>6, <1>7, <3>2, <4>1 DEF Written
      <4> QED BY <4>2 DEF IInv, NothingMissing
    <3> QED BY <1>r, <3>1, <3>2
  <2>2. files'[Top("redundancy", "source-data-manifest.json")] = files[Top("redundancy", "source-data-manifest.json")]
    BY <1>6, <1>11, <2>1 DEF WroteManifest, Written
  <2> QED BY <1>1, <1>6, <2>1, <2>2 DEF WroteManifest, WroteInstruments, WroteSummary, Written, Manifest
<1>14. ReportMeansFinished'
  <2>1. ReportMeansFinished BY DEF IInv
  <2>2. pc' \in Closing /\ pc \notin Closing BY <1>1, <1>r DEF Closing
  <2>3. CASE Kind = "redundancy"
    <3>1. Written(Top("redundancy", "report.md"))' BY <1>6, <2>3 DEF Written
    <3> QED BY <1>4, <2>2, <2>3, <3>1 DEF ReportMeansFinished
  <2>4. CASE Kind = "signal"
    <3>1. Top("redundancy", "report.md")[1] = "redundancy" BY DEF Top
    <3>2. Written(Top("redundancy", "report.md"))' <=> Written(Top("redundancy", "report.md"))
      BY <1>6, <1>7, <2>4, <3>1 DEF Written
    <3> QED BY <1>1, <1>4, <2>1, <2>2, <2>4, <3>2 DEF ReportMeansFinished
  <2> QED BY <1>r, <2>3, <2>4
<1>15. PassedMeansFinished' BY <1>1 DEF IInv, PassedMeansFinished
<1>16. TreeKept
  <2>1. \A p \in DOMAIN files : p \in DOMAIN files' /\ (p[3] # EventsName => files'[p] = files[p])
    BY <1>6, <1>7
  <2>2. \A p \in DOMAIN files' \ DOMAIN files : p[1] = Kind BY <1>6, <1>7
  <2> QED BY <1>1, <1>r, <2>1, <2>2 DEF TreeKept
<1> QED BY <1>8, <1>9, <1>10, <1>12, <1>13, <1>14, <1>15, <1>16 DEF IInv

\* The events that close the log.
LEMMA NoteKeeps == ASSUME IInv, NoteArtifacts PROVE IInv' /\ TreeKept
<1>0. pc = "closing" /\ pc \in Closing BY DEF NoteArtifacts, Closing
<1>1. /\ \E events : Write(<<>>, events)
      /\ pc' = "completing" /\ UNCHANGED <<Input, turn, item, results, dirs, crashes, endings>>
  BY DEF NoteArtifacts
<1>2. /\ turn <= Len(commands) /\ Kind \in {"redundancy", "signal"} /\ Kind \in dirs
      /\ turn \in Nat /\ item \in Nat /\ Len(instruments) \in Nat
  BY <1>0, Busy
<1>3. /\ InputOK' /\ TreeOK' /\ TreeKept
      /\ Written(Top("redundancy", "report.md"))' <=> Written(Top("redundancy", "report.md"))
      /\ (Written(Top("redundancy", "report.md")) =>
            WroteManifest /\ WroteInstruments(Len(instruments)) /\ WroteSummary)'
  BY <1>1, <1>2, LogOnlyKeeps DEF LogOnly, IInv, TreeOK
<1>4. Kind' = Kind /\ instruments' = instruments /\ commands' = commands BY <1>1 DEF Kind, Input
<1>5. pc' \in Closing /\ pc' \notin Phases BY <1>1 DEF Closing, Phases
<1>6. ProcessOK' BY <1>0, <1>1, <1>2, <1>4 DEF IInv, ProcessOK, Phases, Closing
<1>7. NothingAhead' /\ NothingMissing' BY <1>3, <1>5 DEF NothingAhead, NothingMissing
<1>8. ReportMeansFinished' BY <1>0, <1>1, <1>3, <1>4, <1>5 DEF IInv, ReportMeansFinished
<1>9. PassedMeansFinished' BY <1>1, <1>4 DEF IInv, PassedMeansFinished
<1> QED BY <1>3, <1>6, <1>7, <1>8, <1>9 DEF IInv

LEMMA CompleteKeeps == ASSUME IInv, CompleteReview PROVE IInv' /\ TreeKept
<1>1. pc \in Closing /\ EndProcess("completed") /\ UNCHANGED <<Input, dirs, crashes>> /\ \E events : Write(<<>>, events)
  BY DEF CompleteReview, Closing
<1>2. turn <= Len(commands) /\ Kind # "artifact" /\ Kind \in dirs BY <1>1, Busy
<1>3. LogOnly /\ crashes' \in 0..MaxCrashes BY <1>1, <1>2 DEF LogOnly, IInv, ProcessOK
<1> QED BY <1>1, <1>2, <1>3, EndKeeps DEF Ways, Finished

LEMMA FoundNone == ASSUME NEW title PROVE Found(title, FALSE) = {}
BY DEF Found

LEMMA ArtifactKeeps == ASSUME IInv, ReviewArtifacts PROVE IInv' /\ TreeKept
<1> DEFINE own == {p \in DOMAIN files : p[1] = "redundancy" /\ p[2] # 0}
           content == [q \in {<<p[2], p[3]>> : p \in own} |-> files[Of("redundancy", q[1], q[2])]]
           manifest == files[Top("redundancy", "source-data-manifest.json")]
           lacking == "redundancy" \notin dirs \/ ~(RequiredFiles \subseteq DOMAIN files)
<1>0. /\ turn <= Len(commands) /\ Kind = "artifact" /\ pc = "command" /\ pc \notin Closing
      /\ crashes \in 0..MaxCrashes /\ UNCHANGED <<Input, files, crashes>> /\ LogOnly
  BY DEF ReviewArtifacts, IInv, ProcessOK, LogOnly, Closing
<1>1. CASE lacking
  <2>1. EndProcess("error") /\ UNCHANGED dirs BY <1>1 DEF ReviewArtifacts
  <2>2. ~Written(Top("redundancy", "report.md"))
    <3> SUFFICES ASSUME Written(Top("redundancy", "report.md")) PROVE FALSE
      OBVIOUS
    <3>1. Top("redundancy", "report.md")[1] = "redundancy" BY DEF Top
    <3>2. "redundancy" \in dirs BY <3>1 DEF Written, IInv, TreeOK
    <3>3. RequiredFiles \subseteq DOMAIN files BY DEF Written, IInv, NothingMissing, WroteSummary
    <3> QED BY <1>1, <3>2, <3>3
  <2> QED BY <1>0, <2>1, <2>2, EndKeeps DEF Ways, Finished
<1>2. CASE ~lacking
  <2>1. Written(Top("redundancy", "report.md")) BY <1>2 DEF RequiredFiles, Written
  <2>2. manifest = Manifest /\ instruments # <<>> /\ WroteInstruments(Len(instruments))
    BY <2>1 DEF IInv, NothingMissing, WroteManifest
  <2>3. instruments \in Seq(ToSet(instruments)) /\ DOMAIN instruments = 1..Len(instruments) BY DEF IInv, InputOK
  <2>4. manifest # <<>>
    <3>1. Len(instruments) # 0 BY <2>2, <2>3
    <3>2. 1 \in DOMAIN Manifest BY <2>3, <3>1 DEF Manifest
    <3> QED BY <2>2, <3>2
  <2>5. ToSet(manifest) \X InstrumentFiles \subseteq DOMAIN content
    <3> SUFFICES ASSUME NEW i \in DOMAIN instruments, NEW name \in InstrumentFiles
                 PROVE  <<instruments[i].id, name>> \in DOMAIN content
      BY <2>2 DEF Manifest, ToSet
    <3>1. Of("redundancy", instruments[i].id, name) \in DOMAIN files
      BY <2>2, <2>3 DEF WroteInstruments, Written
    <3>2. instruments[i].id # 0 BY DEF IInv, InputOK
    <3>3. Of("redundancy", instruments[i].id, name) \in own BY <3>1, <3>2, Paths
    <3>4. \A p \in own : <<p[2], p[3]>> \in DOMAIN content OBVIOUS
    <3> QED BY <3>3, <3>4, Paths
  <2>6. \A f \in DOMAIN content : f[2] # "factor-correlation-matrix.csv" => content[f].instrument = f[1]
    <3> SUFFICES ASSUME NEW f \in DOMAIN content, f[2] # "factor-correlation-matrix.csv"
                 PROVE  content[f].instrument = f[1]
      OBVIOUS
    <3>1. PICK p \in own : f = <<p[2], p[3]>> OBVIOUS
    <3>2. p = Of("redundancy", p[2], p[3]) /\ files[p].instrument = p[2]
      BY <3>1 DEF IInv, TreeOK
    <3>3. content[f] = files[Of("redundancy", f[1], f[2])] OBVIOUS
    <3>4. f[1] = p[2] /\ f[2] = p[3] BY <3>1
    <3> HIDE DEF content, own
    <3> QED BY <3>2, <3>3, <3>4
  <2>7. RedundancyFindings(manifest, content) = {}
    <3> HIDE DEF content, manifest
    <3> QED BY <2>4, <2>5, <2>6, FoundNone DEF RedundancyFindings
  <2>8. EndProcess("passed") /\ dirs' = dirs \cup {"artifact"} BY <1>2, <2>7 DEF ReviewArtifacts
  <2> QED BY <1>0, <2>1, <2>8, EndKeeps DEF Ways, Finished
<1> QED BY <1>1, <1>2

LEMMA CrashKeeps == ASSUME IInv, Crash PROVE IInv' /\ TreeKept
<1>1. /\ pc \in Phases \cup Closing /\ UNCHANGED <<Input, files, dirs>> /\ LogOnly
      /\ EndProcess(IF pc \in Closing THEN "unclosed" ELSE "crash")
  BY DEF Crash, IInv, ProcessOK, LogOnly
<1>2. crashes' \in 0..MaxCrashes
  BY ReviewsAssumption DEF Crash, IInv, ProcessOK, ReviewsAssumption
<1>3. turn <= Len(commands) /\ Kind # "artifact" BY <1>1, Busy
<1> QED BY <1>1, <1>2, <1>3, EndKeeps DEF Ways, Finished

-----------------------------------------------------------------------------
(* Theorems *)

LEMMA InitIInv == Init => IInv
<1> SUFFICES ASSUME Init PROVE IInv OBVIOUS
<1>1. PICK case \in Cases : instruments = case.instruments /\ settings = case.settings /\ commands = case.commands
  BY DEF Init
<1>2. /\ instruments \in Seq(ToSet(instruments)) /\ commands \in Seq({"redundancy", "signal", "artifact"})
      /\ \A i \in DOMAIN instruments : instruments[i].id # 0
  BY <1>1, ReviewsAssumption DEF ReviewsAssumption
<1>3. InputOK BY <1>2 DEF InputOK
<1>4. DOMAIN files = {} /\ endings = <<>> /\ results = <<>> BY DEF Init
<1>5. ProcessOK BY <1>2, <1>4, ReviewsAssumption DEF Init, ProcessOK, Phases, Closing, ReviewsAssumption
<1>6. TreeOK /\ NothingAhead /\ NothingMissing
  BY <1>4 DEF Init, TreeOK, NothingAhead, NothingMissing, Phases, Written
<1>7. ReportMeansFinished /\ PassedMeansFinished
  BY <1>4 DEF Init, ReportMeansFinished, PassedMeansFinished, Written, Closing
<1> QED BY <1>3, <1>5, <1>6, <1>7 DEF IInv

LEMMA StepKeeps == ASSUME IInv, [Next]_vars PROVE IInv' /\ TreeKept
<1>1. ASSUME UNCHANGED vars PROVE IInv' /\ TreeKept
  BY <1>1 DEF vars, IInv, InputOK, ProcessOK, TreeOK, NothingAhead, NothingMissing, ReportMeansFinished,
              PassedMeansFinished, Kind, Written, WroteManifest, WroteInstruments, WroteSummary, Manifest, TreeKept
<1> QED BY <1>1, StartKeeps, ManifestKeeps, LoadKeeps, RedundancyKeeps, SignalKeeps, SummarizeKeeps, ReportKeeps,
           NoteKeeps, CompleteKeeps, ArtifactKeeps, CrashKeeps DEF Next, Done

LEMMA Invariant == Spec => []IInv
BY InitIInv, StepKeeps, PTL DEF Spec

\* An artifact review passes a redundancy review exactly when a command before it wrote that one to
\* its report, and what it passes has the files of every instrument: for every batch, every sequence
\* of commands and wherever their processes end, also between the report and the end of the log.
THEOREM PassedIsWhole == Spec => []ReviewsPassWhole
<1>1. IInv => ReviewsPassWhole
  <2> SUFFICES ASSUME IInv PROVE ReviewsPassWhole OBVIOUS
  <2>1. ProcessOK /\ TreeOK /\ InputOK /\ PassedMeansFinished BY DEF IInv
  <2>2. Len(commands) \in Nat BY <2>1 DEF InputOK
  <2>3. ToSet(endings) \subseteq Ways BY <2>1 DEF ProcessOK, ToSet
  <2>4. {p[1] : p \in DOMAIN files} \subseteq dirs BY <2>1 DEF TreeOK
  <2>5. pc = "command" => results = <<>> /\ item = 1
    <3> DEFINE R == {results[i] : i \in DOMAIN results}
    <3>1. results \in Seq(R) /\ Len(results) = item - 1 /\ (pc = "command" => item = 1) BY <2>1 DEF ProcessOK
    <3> HIDE DEF R
    <3> QED BY <3>1
  <2>6. TypeOK BY <2>1, <2>2, <2>3, <2>4, <2>5 DEF ProcessOK, TreeOK, TypeOK, Phases, Ways
  <2>7. ASSUME NEW t \in DOMAIN endings, commands[t] = "artifact", endings[t] = "passed" PROVE RedundancyWhole
    <3>1. PICK u \in 1..(t - 1) : commands[u] = "redundancy" /\ endings[u] \in Finished
      BY <2>1, <2>7 DEF PassedMeansFinished
    <3>2. t \in 1..(turn - 1) /\ turn \in Nat BY <2>1, <2>2 DEF ProcessOK
    <3>3. u \in 1..(turn - 1) BY <3>2
    <3>4. Written(Top("redundancy", "report.md")) BY <3>1, <3>3 DEF IInv, ReportMeansFinished
    <3>5. WroteInstruments(Len(instruments)) /\ WroteSummary BY <3>4 DEF IInv, NothingMissing
    <3> QED BY <2>1, <3>4, <3>5 DEF RedundancyWhole, WroteInstruments, WroteSummary, Written, InputOK
  <2>8. PassedMeansWhole BY <2>1, <2>7 DEF PassedMeansFinished, PassedMeansWhole, Finished
  <2> QED BY <2>6, <2>8 DEF ReviewsPassWhole
<1> QED BY <1>1, Invariant, PTL

\* A step of the reviews is a step of the abstract directories.
LEMMA StepArtifacts ==
  ASSUME TreeKept
  PROVE  A!Next
<1> DEFINE content == [path \in {p \in DOMAIN files : p[3] # "review-events.jsonl"} |-> files[path]]
           sealed == {d \in dirs : Written(Top(d, "report.md"))}
<1>1. /\ DOMAIN content = {p \in DOMAIN files : p[3] # EventsName}
      /\ DOMAIN content' = {p \in DOMAIN files' : p[3] # EventsName}
      /\ \A p \in DOMAIN content : content[p] = files[p]
      /\ \A p \in DOMAIN content' : content'[p] = files'[p]
  BY DEF EventsName
<1> HIDE DEF content
<1>2. \A p \in DOMAIN content : p \in DOMAIN content' /\ content'[p] = content[p] BY <1>1 DEF TreeKept
<1>3. \A p \in DOMAIN content' \ DOMAIN content : p[1] \in dirs' \ sealed BY <1>1 DEF TreeKept
<1>4. sealed \subseteq sealed' /\ sealed' \subseteq dirs' BY DEF TreeKept, Written
<1> HIDE DEF sealed
<1>5. dirs \subseteq dirs' BY DEF TreeKept
<1> QED BY <1>2, <1>3, <1>4, <1>5 DEF A!Next, A!Write, A!Seal, content, sealed

\* No file of a review is changed, and none is added after its report, whatever is given again
\* and wherever a process ends: the reviews implement the directories of Artifacts.
THEOREM ReviewsImplementArtifacts == Spec => ImplementsArtifacts
<1>1. Init => A!Init
  BY DEF Init, A!Init
<1>2. IInv /\ [Next]_vars => A!Next
  BY StepKeeps, StepArtifacts
<1> QED BY <1>1, <1>2, Invariant, PTL DEF Spec, ImplementsArtifacts, A!Spec

-----------------------------------------------------------------------------
(* The order of the factors and of their pairs *)

LEMMA LeastNumber ==
  ASSUME NEW T \in SUBSET Nat, T # {}
  PROVE  \E x \in T : \A y \in T : x <= y
<1>1. PICK x \in T : \A y \in T : ~(<<y, x>> \in OpToRel(<, Nat)) BY WFMin, NatLessThanWellFounded, Zenon
<1>2. \A y \in T : ~(y < x) BY <1>1, Zenon DEF OpToRel
<1>3. \A y \in T : x <= y BY <1>2
<1> QED BY <1>3

\* A set of numbers with 0 and the next of each of its numbers has them all.
LEMMA AllNumbers == ASSUME NEW S, S \subseteq Nat, 0 \in S, \A n \in S : n + 1 \in S PROVE S = Nat
<1> SUFFICES ASSUME Nat \ S # {} PROVE FALSE OBVIOUS
<1>1. PICK m \in Nat \ S : \A k \in Nat \ S : m <= k BY LeastNumber
<1>2. m # 0 /\ m - 1 \in Nat BY <1>1
<1>3. m - 1 \in S BY <1>1, <1>2
<1> QED BY <1>1, <1>3

LEMMA Places ==
  /\ Len(AllFactors) = 7
  /\ \A f \in ToSet(AllFactors) : Place(f) \in 1..7 /\ AllFactors[Place(f)] = f
  /\ \A f, g \in ToSet(AllFactors) : Place(f) = Place(g) => f = g
  /\ LastTurn = 56
<1>1. Len(AllFactors) = 7 /\ DOMAIN AllFactors = 1..7 BY DEF AllFactors
<1>2. \A f \in ToSet(AllFactors) : \E i \in 1..7 : AllFactors[i] = f BY <1>1 DEF ToSet
<1>3. \A f \in ToSet(AllFactors) : Place(f) \in 1..7 /\ AllFactors[Place(f)] = f BY <1>1, <1>2 DEF Place
<1>4. \A f, g \in ToSet(AllFactors) : Place(f) = Place(g) => f = g BY <1>3
<1> QED BY <1>1, <1>3, <1>4 DEF LastTurn

\* No factor is in two formulas.
LEMMA FormulasAreApart ==
  /\ \A h \in FormulaHints : h.primary \in h.pair
  /\ \A h, k \in FormulaHints : h.pair \cap k.pair # {} => h = k
<1> DEFINE first == [pair |-> {"profit_ratio_asof", "loss_ratio_asof"}, primary |-> "loss_ratio_asof"]
           change == [pair |-> {"profit_ratio_delta_20d", "loss_ratio_delta_20d"}, primary |-> "loss_ratio_delta_20d"]
           second == [pair |-> {"cyq_cgo_asof", "weighted_chip_cost_gap_asof"}, primary |-> "weighted_chip_cost_gap_asof"]
<1>1. FormulaHints = {first, change, second} BY DEF FormulaHints
<1>2. /\ first.primary \in first.pair /\ change.primary \in change.pair /\ second.primary \in second.pair
      /\ first.pair \cap second.pair = {} /\ first.pair \cap change.pair = {} /\ change.pair \cap second.pair = {}
  OBVIOUS
<1> HIDE DEF first, change, second
<1> QED BY <1>1, <1>2

-----------------------------------------------------------------------------
(* What a strong relationship says *)

StrongOf(relationships) == {r \in Range(relationships) : r.type \in StrongTypes}
ProtectedBy(strong) == {r.primary : r \in {q \in strong : q.hinted}}

\* The relationships that decide: of two of the factors, in lexical order, by a formula or not.
IsStrong(r, columns) ==
  \E a, b \in columns :
    /\ a # b /\ Place(a) < Place(b) /\ r.pair = <<a, b>> /\ r.primary \in {a, b}
    /\ r.hinted = \E h \in FormulaHints : h.pair = {a, b}
    /\ r.hinted => r.recommendation = "exclude" /\ [pair |-> {a, b}, primary |-> r.primary] \in FormulaHints
    /\ ~r.hinted => r.recommendation = "downweight" /\ r.primary = a

LEMMA Primaries ==
  ASSUME NEW a, NEW b
  PROVE  LET hinted == \E h \in FormulaHints : h.pair = {a, b}
         IN /\ hinted => [pair |-> {a, b}, primary |-> PrimaryFactor(a, b)] \in FormulaHints
                         /\ PrimaryFactor(a, b) \in {a, b}
            /\ ~hinted => PrimaryFactor(a, b) = a
<1> DEFINE hints == {h \in FormulaHints : h.pair = {a, b}}
<1>1. CASE hints = {} BY <1>1 DEF PrimaryFactor
<1>2. CASE hints # {}
  <2> DEFINE h == CHOOSE h \in hints : TRUE
  <2>1. h \in hints BY <1>2
  <2> HIDE DEF h
  <2>2. PrimaryFactor(a, b) = h.primary BY <1>2 DEF PrimaryFactor, h
  <2>3. h = [pair |-> h.pair, primary |-> h.primary] BY <2>1 DEF FormulaHints
  <2>4. h.primary \in h.pair BY <2>1, FormulasAreApart
  <2> QED BY <1>2, <2>1, <2>2, <2>3, <2>4
<1> QED BY <1>1, <1>2

LEMMA RelationshipShape ==
  ASSUME NEW table, NEW given, NEW r \in Range(Relationships(table, given))
  PROVE  \E a, b \in Columns(table) :
           /\ Place(a) < Place(b)
           /\ r = BuildPairRelationship(a, b, ClassifyRelationship(a, b, PairValues(table, a, b), given))
<1> DEFINE pairs == Combinations(Columns(table))
           R(p) == BuildPairRelationship(p[1], p[2], ClassifyRelationship(p[1], p[2], PairValues(table, p[1], p[2]), given))
<1>1. Relationships(table, given) = [p \in pairs |-> R(p)] BY DEF Relationships
<1>2. PICK p \in pairs : r = R(p)
  <2> HIDE DEF pairs, R
  <2> QED BY <1>1 DEF Range
<1>3. p[1] \in Columns(table) /\ p[2] \in Columns(table) /\ Place(p[1]) < Place(p[2]) BY DEF Combinations
<1> QED BY <1>2, <1>3

LEMMA StrongShape ==
  ASSUME NEW table, NEW given, DOMAIN table \subseteq ToSet(AllFactors), NEW r \in StrongOf(Relationships(table, given))
  PROVE  IsStrong(r, Columns(table))
<1>1. r \in Range(Relationships(table, given)) /\ r.type \in StrongTypes BY DEF StrongOf
<1>2. PICK a, b \in Columns(table) :
         /\ Place(a) < Place(b)
         /\ r = BuildPairRelationship(a, b, ClassifyRelationship(a, b, PairValues(table, a, b), given))
  BY <1>1, RelationshipShape
<1> DEFINE type == ClassifyRelationship(a, b, PairValues(table, a, b), given)
           hinted == \E h \in FormulaHints : h.pair = {a, b}
<1> HIDE DEF type
<1>3. r = [pair |-> <<a, b>>, type |-> type, hinted |-> hinted, primary |-> PrimaryFactor(a, b),
           recommendation |-> PairRecommendation(type, hinted)]
  BY <1>2 DEF BuildPairRelationship, type
<1>4. r.pair = <<a, b>> /\ r.type = type /\ r.hinted = hinted /\ r.primary = PrimaryFactor(a, b)
      /\ r.recommendation = PairRecommendation(type, hinted)
  BY <1>3
<1>5. type \in StrongTypes BY <1>1, <1>4
<1>6. PairRecommendation(type, hinted) = IF hinted THEN "exclude" ELSE "downweight"
  BY <1>5 DEF PairRecommendation, StrongTypes, NoEvidenceTypes
<1>7. /\ hinted => [pair |-> {a, b}, primary |-> PrimaryFactor(a, b)] \in FormulaHints
                   /\ PrimaryFactor(a, b) \in {a, b}
      /\ ~hinted => PrimaryFactor(a, b) = a
  BY Primaries
<1> HIDE DEF hinted
<1>8. /\ r.primary \in {a, b}
      /\ r.hinted => r.recommendation = "exclude" /\ [pair |-> {a, b}, primary |-> r.primary] \in FormulaHints
      /\ ~r.hinted => r.recommendation = "downweight" /\ r.primary = a
  BY <1>4, <1>6, <1>7
<1>9. a # b
  <2>1. Place(a) \in 1..7 BY Places DEF Columns
  <2> QED BY <1>2, <2>1
<1> QED BY <1>2, <1>4, <1>8, <1>9 DEF IsStrong, hinted

-----------------------------------------------------------------------------
(* The decisions, one relationship after the other *)

Applied(decisions, r, protected) ==
  [f \in DOMAIN decisions |-> IF f \in ToSet(r.pair) THEN Decide(decisions[f], f, r, protected) ELSE decisions[f]]
Kept == [decision |-> "keep", replacement |-> None]
\* The decisions of a turn from those of the turn before.
TurnOf(strong, n, before) ==
  LET now == {r \in strong : Turn(r) = n}
  IN IF now = {} THEN before ELSE Applied(before, CHOOSE r \in now : TRUE, ProtectedBy(strong))
FirstDecisions(columns) == [f \in columns |-> Kept]

\* The decisions of the first turns.
Turns(g, columns, strong, N) ==
  /\ g = [n \in 0..N |-> g[n]]
  /\ g[0] = FirstDecisions(columns)
  /\ \A n \in 1..N : g[n] = TurnOf(strong, n, g[n - 1])

LEMMA TurnsExist ==
  ASSUME NEW columns, NEW strong, NEW N \in Nat
  PROVE  \E g : Turns(g, columns, strong, N)
<1> DEFINE T == {n \in Nat : \E g : Turns(g, columns, strong, n)}
<1>1. 0 \in T
  <2> DEFINE g == [n \in 0..0 |-> FirstDecisions(columns)]
  <2>1. g = [n \in 0..0 |-> g[n]] /\ g[0] = FirstDecisions(columns) OBVIOUS
  <2> HIDE DEF g
  <2>2. Turns(g, columns, strong, 0) BY <2>1 DEF Turns
  <2> QED BY <2>2
<1>2. ASSUME NEW n \in T PROVE n + 1 \in T
  <2>0. n \in Nat /\ 0 \in 0..n /\ n \in 0..n /\ (n + 1) - 1 = n OBVIOUS
  <2>1. PICK g : Turns(g, columns, strong, n) OBVIOUS
  <2> DEFINE next == TurnOf(strong, n + 1, g[n])
             h == [i \in 0..(n + 1) |-> IF i = n + 1 THEN next ELSE g[i]]
  <2> HIDE DEF next
  <2>2. h = [i \in 0..(n + 1) |-> h[i]] /\ h[n + 1] = next /\ \A i \in 0..n : h[i] = g[i] BY <2>0
  <2> HIDE DEF h
  <2>3. h[0] = FirstDecisions(columns) BY <2>0, <2>1, <2>2 DEF Turns
  <2>4. ASSUME NEW i \in 1..(n + 1) PROVE h[i] = TurnOf(strong, i, h[i - 1])
    <3>1. CASE i = n + 1
      <4>1. h[i - 1] = g[n] BY <2>0, <2>2, <3>1
      <4> QED BY <2>2, <3>1, <4>1 DEF next
    <3>2. CASE i # n + 1
      <4>1. i \in 1..n /\ i - 1 \in 0..n /\ i \in 0..n BY <2>0, <3>2
      <4> QED BY <2>1, <2>2, <4>1 DEF Turns
    <3> QED BY <3>1, <3>2
  <2>5. Turns(h, columns, strong, n + 1) BY <2>2, <2>3, <2>4 DEF Turns
  <2> QED BY <2>0, <2>5
<1> HIDE DEF T
<1>3. T \subseteq Nat BY DEF T
<1>4. N \in T BY <1>1, <1>2, <1>3, AllNumbers
<1> QED BY <1>4 DEF T

\* The recursive decisions are those of the last turn.
LEMMA DecisionsAreLastTurn ==
  ASSUME NEW columns, NEW relationships
  PROVE  \E g : /\ Turns(g, columns, StrongOf(relationships), 56)
                /\ RetentionDecisions(columns, relationships) = g[56]
<1> DEFINE strong == StrongOf(relationships)
           Body(g, n) == IF n = 0 THEN FirstDecisions(columns) ELSE TurnOf(strong, n, g[n - 1])
           g == CHOOSE g : g = [n \in 0..56 |-> Body(g, n)]
<1>1. \E h : h = [n \in 0..56 |-> Body(h, n)]
  <2>1. PICK h : Turns(h, columns, strong, 56) BY TurnsExist
  <2>2. \A n \in 0..56 : h[n] = Body(h, n)
    <3> TAKE n \in 0..56
    <3>1. CASE n = 0 BY <2>1, <3>1 DEF Turns
    <3>2. CASE n # 0
      <4>1. n \in 1..56 BY <3>2
      <4> QED BY <2>1, <3>2, <4>1 DEF Turns
    <3> QED BY <3>1, <3>2
  <2>3. h = [n \in 0..56 |-> h[n]] BY <2>1 DEF Turns
  <2> HIDE DEF Body
  <2>4. h = [n \in 0..56 |-> Body(h, n)] BY <2>2, <2>3
  <2> QED BY <2>4
<1>2. g = [n \in 0..56 |-> Body(g, n)] BY <1>1
<1>3. RetentionDecisions(columns, relationships) = g[56]
  <2>1. RetentionDecisions(columns, relationships) =
          (CHOOSE d : d = [n \in 0..56 |-> IF n = 0 THEN FirstDecisions(columns)
                                           ELSE TurnOf(strong, n, d[n - 1])])[56]
    BY Places DEF RetentionDecisions, StrongOf, ProtectedBy, TurnOf, Applied, FirstDecisions, Kept
  <2> QED BY <2>1
<1> HIDE DEF g
<1>4. \A n \in 0..56 : g[n] = Body(g, n)
  <2> HIDE DEF Body
  <2> QED BY <1>2
<1>5. g[0] = FirstDecisions(columns) BY <1>4
<1>6. \A n \in 1..56 : g[n] = TurnOf(strong, n, g[n - 1])
  <2> TAKE n \in 1..56
  <2>1. n \in 0..56 /\ n # 0 OBVIOUS
  <2> QED BY <1>4, <2>1
<1>7. g = [n \in 0..56 |-> g[n]]
  <2> HIDE DEF Body
  <2> QED BY <1>2
<1> QED BY <1>3, <1>5, <1>6, <1>7 DEF Turns

Excluded(primary) == [decision |-> "exclude", replacement |-> primary]
Downweighted(other) == [decision |-> "downweight", replacement |-> other]

\* What a strong relationship does to the decision d of one of its factors.
LEMMA DecideShape ==
  ASSUME NEW columns, NEW r, IsStrong(r, columns), NEW f \in ToSet(r.pair), NEW d, NEW protected
  PROVE  /\ r.hinted /\ f # r.primary => Decide(d, f, r, protected) = Excluded(r.primary)
         /\ r.hinted /\ f = r.primary => Decide(d, f, r, protected) = d
         /\ ~r.hinted /\ (f \in protected \/ d.decision = "exclude") => Decide(d, f, r, protected) = d
         /\ ~r.hinted =>
              \/ Decide(d, f, r, protected) = d
              \/ \E other \in ToSet(r.pair) :
                   /\ other # f /\ Decide(d, f, r, protected) = Downweighted(other)
                   /\ f = r.primary => other \in protected
<1>1. PICK a, b \in columns :
        /\ a # b /\ r.pair = <<a, b>> /\ r.primary \in {a, b}
        /\ r.hinted = \E h \in FormulaHints : h.pair = {a, b}
        /\ r.hinted => r.recommendation = "exclude" /\ [pair |-> {a, b}, primary |-> r.primary] \in FormulaHints
        /\ ~r.hinted => r.recommendation = "downweight" /\ r.primary = a
  BY DEF IsStrong
<1>2. ToSet(r.pair) = {a, b} BY <1>1 DEF ToSet
<1>3. a # b BY <1>1
<1> DEFINE other == CHOOSE g \in ToSet(r.pair) : g # f
           open == f \notin protected /\ d.decision # "exclude"
<1>4. other \in {a, b} /\ other # f /\ (f # r.primary => other = r.primary) BY <1>1, <1>2, <1>3
<1>5. Decide(d, f, r, protected) =
        CASE f # r.primary /\ r.recommendation = "exclude" -> [decision |-> "exclude", replacement |-> r.primary]
          [] f # r.primary /\ r.recommendation = "downweight" /\ open -> [decision |-> "downweight", replacement |-> r.primary]
          [] f = r.primary /\ r.recommendation = "downweight" /\ other \in protected /\ open ->
               [decision |-> "downweight", replacement |-> other]
          [] OTHER -> d
  BY DEF Decide
<1> HIDE DEF other
<1> DEFINE D == Decide(d, f, r, protected)
<1>6. r.hinted /\ f # r.primary => D = Excluded(r.primary) BY <1>1, <1>5 DEF Excluded
<1>7. r.hinted /\ f = r.primary => D = d BY <1>1, <1>5
<1>8. ~r.hinted /\ ~open => D = d BY <1>1, <1>5
<1>9. ~r.hinted /\ open /\ f # r.primary => D = Downweighted(other) BY <1>1, <1>4, <1>5 DEF Downweighted
<1>10. ~r.hinted /\ open /\ f = r.primary /\ other \in protected => D = Downweighted(other)
  BY <1>1, <1>5 DEF Downweighted
<1>11. ~r.hinted /\ open /\ f = r.primary /\ other \notin protected => D = d BY <1>1, <1>5
<1> HIDE DEF D
<1>12. ~r.hinted => \/ D = d
                    \/ other # f /\ D = Downweighted(other) /\ (f = r.primary => other \in protected)
  BY <1>4, <1>8, <1>9, <1>10, <1>11
<1> QED BY <1>2, <1>4, <1>6, <1>7, <1>8, <1>12 DEF D

\* A decision has a reason: it keeps, a formula excludes, or another relationship downweights.
Reasoned(d, f, strong) ==
  \/ d = Kept
  \/ \E r \in strong : r.hinted /\ f \in ToSet(r.pair) /\ f # r.primary /\ d = Excluded(r.primary)
  \/ \E r \in strong : /\ ~r.hinted /\ f \in ToSet(r.pair)
                       /\ \E other \in ToSet(r.pair) : /\ other # f /\ d = Downweighted(other)
                                                       /\ f = r.primary => other \in ProtectedBy(strong)

Sound(decisions, columns, strong, n) ==
  /\ DOMAIN decisions = columns
  /\ \A f \in columns : f \in ProtectedBy(strong) => decisions[f] = Kept
  /\ \A f \in columns : Reasoned(decisions[f], f, strong)
  /\ \A r \in strong : r.hinted /\ Turn(r) <= n =>
       \A f \in ToSet(r.pair) : f # r.primary => decisions[f] = Excluded(r.primary)

\* Two formula relationships with a factor in common are of the same formula.
LEMMA SameFormula ==
  ASSUME NEW columns, NEW r, IsStrong(r, columns), r.hinted, NEW q, IsStrong(q, columns), q.hinted,
         ToSet(r.pair) \cap ToSet(q.pair) # {}
  PROVE  r.primary = q.primary
<1>1. \A s : IsStrong(s, columns) /\ s.hinted =>
        \E h \in FormulaHints : h.pair = ToSet(s.pair) /\ h.primary = s.primary
  <2> SUFFICES ASSUME NEW s, IsStrong(s, columns), s.hinted
               PROVE  \E h \in FormulaHints : h.pair = ToSet(s.pair) /\ h.primary = s.primary
    OBVIOUS
  <2>1. PICK a, b \in columns : s.pair = <<a, b>> /\ [pair |-> {a, b}, primary |-> s.primary] \in FormulaHints
    BY DEF IsStrong
  <2>2. ToSet(s.pair) = {a, b} BY <2>1 DEF ToSet
  <2> QED BY <2>1, <2>2
<1> QED BY <1>1, FormulasAreApart

LEMMA PrimaryInPair ==
  ASSUME NEW columns, NEW r, IsStrong(r, columns)
  PROVE  /\ r.primary \in ToSet(r.pair) /\ ToSet(r.pair) \subseteq columns /\ r.hinted \in BOOLEAN
         /\ \A f \in ToSet(r.pair) : \A g \in ToSet(r.pair) : \A h \in ToSet(r.pair) : f = g \/ g = h \/ f = h
<1>1. PICK a, b \in columns : /\ r.pair = <<a, b>> /\ r.primary \in {a, b}
                              /\ r.hinted = \E h \in FormulaHints : h.pair = {a, b}
  BY DEF IsStrong
<1>2. ToSet(r.pair) = {a, b} BY <1>1 DEF ToSet
<1>3. r.hinted \in BOOLEAN BY <1>1
<1> QED BY <1>1, <1>2, <1>3

\* Relationships whose turn is the same are of the same factors.
LEMMA SameTurn ==
  ASSUME NEW columns, columns \subseteq ToSet(AllFactors),
         NEW r, IsStrong(r, columns), NEW q, IsStrong(q, columns), Turn(r) = Turn(q)
  PROVE  ToSet(r.pair) = ToSet(q.pair) /\ (r.hinted <=> q.hinted)
<1>1. PICK a, b \in columns : r.pair = <<a, b>> /\ (r.hinted = \E h \in FormulaHints : h.pair = {a, b}) BY DEF IsStrong
<1>2. PICK c, d \in columns : q.pair = <<c, d>> /\ (q.hinted = \E h \in FormulaHints : h.pair = {c, d}) BY DEF IsStrong
<1>3. Place(a) \in 1..7 /\ Place(b) \in 1..7 /\ Place(c) \in 1..7 /\ Place(d) \in 1..7 BY Places
<1>4. Turn(r) = 7 * Place(a) + Place(b) /\ Turn(q) = 7 * Place(c) + Place(d) BY <1>1, <1>2, Places DEF Turn
<1>5. \A k, l, m, n \in 1..7 : 7 * k + l = 7 * m + n => k = m /\ l = n OBVIOUS
<1>7. Place(a) = Place(c) /\ Place(b) = Place(d) BY <1>3, <1>4, <1>5
<1>6. a = c /\ b = d BY <1>7, Places
<1> QED BY <1>1, <1>2, <1>6 DEF ToSet

LEMMA TurnsInRange ==
  ASSUME NEW columns, columns \subseteq ToSet(AllFactors), NEW r, IsStrong(r, columns)
  PROVE  Turn(r) \in 1..56
<1>1. PICK a, b \in columns : r.pair = <<a, b>> BY DEF IsStrong
<1>2. Place(a) \in 1..7 /\ Place(b) \in 1..7 BY Places
<1> QED BY <1>1, <1>2, Places DEF Turn

LEMMA FirstIsSound ==
  ASSUME NEW columns, columns \subseteq ToSet(AllFactors), NEW strong, \A r \in strong : IsStrong(r, columns)
  PROVE  Sound(FirstDecisions(columns), columns, strong, 0)
<1>1. DOMAIN FirstDecisions(columns) = columns /\ \A f \in columns : FirstDecisions(columns)[f] = Kept BY DEF FirstDecisions
<1>2. \A f \in columns : Reasoned(Kept, f, strong) BY DEF Reasoned
<1>3. \A r \in strong : ~(Turn(r) <= 0) BY TurnsInRange
<1> QED BY <1>1, <1>2, <1>3 DEF Sound

LEMMA TurnIsSound ==
  ASSUME NEW columns, columns \subseteq ToSet(AllFactors), NEW strong, \A r \in strong : IsStrong(r, columns),
         NEW n \in 1..56, NEW before, Sound(before, columns, strong, n - 1)
  PROVE  Sound(TurnOf(strong, n, before), columns, strong, n)
<1> DEFINE now == {r \in strong : Turn(r) = n}
           after == TurnOf(strong, n, before)
           protected == ProtectedBy(strong)
<1>0. \A r \in strong : Turn(r) \in 1..56 BY TurnsInRange
<1>1. CASE now = {}
  <2>1. after = before BY <1>1 DEF TurnOf
  <2>2. \A r \in strong : Turn(r) <= n => Turn(r) <= n - 1 BY <1>0, <1>1
  <2> HIDE DEF after
  <2>3. Sound(after, columns, strong, n) BY <2>1, <2>2 DEF Sound
  <2> QED BY <2>3 DEF after
<1>2. CASE now # {}
  <2> DEFINE q == CHOOSE r \in now : TRUE
  <2>1. q \in now BY <1>2
  <2>2. after = Applied(before, q, protected) BY <1>2 DEF TurnOf
  <2> HIDE DEF q, after
  <2>3. q \in strong /\ Turn(q) = n /\ IsStrong(q, columns) BY <2>1
  <2>4. DOMAIN before = columns BY DEF Sound
  <2>5. /\ DOMAIN after = columns
        /\ \A f \in columns : after[f] = IF f \in ToSet(q.pair) THEN Decide(before[f], f, q, protected) ELSE before[f]
    BY <2>2, <2>4 DEF Applied
  <2>6. q.primary \in ToSet(q.pair) /\ ToSet(q.pair) \subseteq columns /\ q.hinted \in BOOLEAN
    BY <2>3, PrimaryInPair
  <2>7. ASSUME NEW f \in columns, f \in protected PROVE after[f] = Kept
    <3>1. before[f] = Kept BY <2>7 DEF Sound
    <3>2. CASE f \notin ToSet(q.pair) BY <2>5, <3>1, <3>2
    <3>3. CASE f \in ToSet(q.pair) /\ ~q.hinted
      <4>1. Decide(before[f], f, q, protected) = before[f] BY <2>3, <2>7, <3>3, DecideShape
      <4> QED BY <2>5, <3>1, <3>3, <4>1
    <3>4. CASE f \in ToSet(q.pair) /\ q.hinted
      <4>1. PICK r \in strong : r.hinted /\ f = r.primary BY <2>7 DEF ProtectedBy
      <4>2. f \in ToSet(r.pair) /\ IsStrong(r, columns) BY <4>1, PrimaryInPair
      <4>3. f = q.primary BY <2>3, <3>4, <4>1, <4>2, SameFormula
      <4>4. Decide(before[f], f, q, protected) = before[f] BY <2>3, <3>4, <4>3, DecideShape
      <4> QED BY <2>5, <3>1, <3>4, <4>4
    <3> QED BY <2>6, <3>2, <3>3, <3>4
  <2>8. ASSUME NEW f \in columns PROVE Reasoned(after[f], f, strong)
    <3>1. Reasoned(before[f], f, strong) BY DEF Sound
    <3>2. CASE f \notin ToSet(q.pair) BY <2>5, <3>1, <3>2
    <3>3. CASE f \in ToSet(q.pair)
      <4>1. after[f] = Decide(before[f], f, q, protected) BY <2>5, <3>3
      <4>2. CASE after[f] = before[f] BY <3>1, <4>2
      <4>3. CASE q.hinted /\ f # q.primary /\ after[f] = Excluded(q.primary) BY <2>3, <3>3, <4>3 DEF Reasoned
      <4>4. CASE ~q.hinted /\ \E other \in ToSet(q.pair) : /\ other # f /\ after[f] = Downweighted(other)
                                                           /\ f = q.primary => other \in protected
        <5>1. PICK other \in ToSet(q.pair) : /\ other # f /\ after[f] = Downweighted(other)
                                             /\ f = q.primary => other \in protected
          BY <4>4
        <5> QED BY <2>3, <3>3, <4>4, <5>1 DEF Reasoned
      <4> QED BY <2>3, <2>6, <3>3, <4>1, <4>2, <4>3, <4>4, DecideShape
    <3> QED BY <3>2, <3>3
  <2>9. ASSUME NEW r \in strong, r.hinted, Turn(r) <= n, NEW f \in ToSet(r.pair), f # r.primary
        PROVE  after[f] = Excluded(r.primary)
    <3>1. IsStrong(r, columns) /\ f \in columns BY PrimaryInPair
    <3>2. CASE Turn(r) = n
      <4>1. ToSet(r.pair) = ToSet(q.pair) /\ (r.hinted <=> q.hinted) BY <2>3, <3>1, <3>2, SameTurn
      <4>2. q.hinted BY <2>9, <4>1
      <4>3. q.primary = r.primary BY <2>3, <2>9, <3>1, <4>1, <4>2, SameFormula
      <4>4. Decide(before[f], f, q, protected) = Excluded(q.primary) BY <2>3, <2>9, <4>1, <4>2, <4>3, DecideShape
      <4> QED BY <2>5, <2>9, <3>1, <4>1, <4>3, <4>4
    <3>3. CASE Turn(r) # n
      <4>1. Turn(r) <= n - 1 BY <1>0, <2>9, <3>3
      <4>2. before[f] = Excluded(r.primary) BY <2>9, <4>1 DEF Sound
      <4>3. CASE f \notin ToSet(q.pair) BY <2>5, <3>1, <4>2, <4>3
      <4>4. CASE f \in ToSet(q.pair) /\ ~q.hinted
        <5>1. before[f].decision = "exclude" BY <4>2 DEF Excluded
        <5>2. Decide(before[f], f, q, protected) = before[f] BY <2>3, <4>4, <5>1, DecideShape
        <5> QED BY <2>5, <3>1, <4>2, <4>4, <5>2
      <4>5. CASE f \in ToSet(q.pair) /\ q.hinted
        <5>1. q.primary = r.primary BY <2>3, <2>9, <3>1, <4>5, SameFormula
        <5>2. Decide(before[f], f, q, protected) = Excluded(q.primary) BY <2>3, <2>9, <4>5, <5>1, DecideShape
        <5> QED BY <2>5, <3>1, <4>5, <5>1, <5>2
      <4> QED BY <2>6, <4>3, <4>4, <4>5
    <3> QED BY <3>2, <3>3
  <2> QED BY <2>5, <2>7, <2>8, <2>9 DEF Sound, after
<1> QED BY <1>1, <1>2

\* So are the decisions of an instrument.
LEMMA DecisionsAreSound ==
  ASSUME NEW table, NEW given, DOMAIN table \subseteq ToSet(AllFactors)
  PROVE  LET strong == StrongOf(Relationships(table, given))
         IN /\ Sound(RetentionDecisions(Columns(table), Relationships(table, given)), Columns(table), strong, 56)
            /\ \A r \in strong : IsStrong(r, Columns(table)) /\ Turn(r) <= 56
<1> DEFINE columns == Columns(table)
           strong == StrongOf(Relationships(table, given))
<1>1. columns \subseteq ToSet(AllFactors) BY DEF Columns
<1>2. \A r \in strong : IsStrong(r, columns) BY StrongShape
<1>3. \A r \in strong : Turn(r) \in 1..56 BY <1>1, <1>2, TurnsInRange
<1>4. PICK g : /\ Turns(g, columns, strong, 56)
               /\ RetentionDecisions(columns, Relationships(table, given)) = g[56]
  BY DecisionsAreLastTurn
<1> HIDE DEF columns, strong
<1> DEFINE T == {n \in Nat : n <= 56 => Sound(g[n], columns, strong, n)}
<1>5. 0 \in T
  <2>1. g[0] = FirstDecisions(columns) BY <1>4 DEF Turns
  <2> QED BY <1>1, <1>2, <2>1, FirstIsSound
<1>6. ASSUME NEW n \in T PROVE n + 1 \in T
  <2> SUFFICES ASSUME n + 1 <= 56 PROVE Sound(g[n + 1], columns, strong, n + 1) OBVIOUS
  <2>1. n \in Nat /\ n + 1 \in 1..56 /\ (n + 1) - 1 = n OBVIOUS
  <2>2. Sound(g[n], columns, strong, n) BY <2>1
  <2>3. g[n + 1] = TurnOf(strong, n + 1, g[n]) BY <1>4, <2>1 DEF Turns
  <2>4. Sound(g[n], columns, strong, (n + 1) - 1) BY <2>1, <2>2
  <2>5. Sound(TurnOf(strong, n + 1, g[n]), columns, strong, n + 1) BY <1>1, <1>2, <2>1, <2>4, TurnIsSound
  <2> QED BY <2>3, <2>5
<1> HIDE DEF T
<1>7. T \subseteq Nat BY DEF T
<1>8. 56 \in T BY <1>5, <1>6, <1>7, AllNumbers
<1>9. Sound(g[56], columns, strong, 56) BY <1>8 DEF T
<1> QED BY <1>2, <1>3, <1>4, <1>9 DEF columns, strong

\* In a formula the primary is kept and the other excluded, and nothing else is excluded.
LEMMA SoundDecidesFormulas ==
  ASSUME NEW columns, columns \subseteq ToSet(AllFactors), NEW strong,
         \A r \in strong : IsStrong(r, columns) /\ Turn(r) <= 56,
         NEW decisions, Sound(decisions, columns, strong, 56)
  PROVE  /\ \A r \in strong : r.hinted => \A f \in ToSet(r.pair) :
              decisions[f] = IF f = r.primary THEN [decision |-> "keep", replacement |-> None]
                             ELSE [decision |-> "exclude", replacement |-> r.primary]
         /\ \A f \in columns :
              /\ decisions[f].replacement # f
              /\ decisions[f].decision = "exclude" => \E r \in strong : r.hinted /\ f \in ToSet(r.pair)
<1>1. ASSUME NEW r \in strong, r.hinted, NEW f \in ToSet(r.pair)
      PROVE  decisions[f] = IF f = r.primary THEN Kept ELSE Excluded(r.primary)
  <2>1. ToSet(r.pair) \subseteq columns BY PrimaryInPair
  <2>2. CASE f = r.primary
    <3>1. f \in ProtectedBy(strong) BY <1>1, <2>2 DEF ProtectedBy
    <3> QED BY <1>1, <2>1, <2>2, <3>1 DEF Sound
  <2>3. CASE f # r.primary BY <1>1, <2>3 DEF Sound
  <2> QED BY <2>2, <2>3
<1>2. ASSUME NEW f \in columns
      PROVE  /\ decisions[f].replacement # f
             /\ decisions[f].decision = "exclude" => \E r \in strong : r.hinted /\ f \in ToSet(r.pair)
  <2>1. Reasoned(decisions[f], f, strong) BY DEF Sound
  <2>2. CASE decisions[f] = Kept BY <2>2, ReviewsAssumption DEF Kept
  <2>3. CASE \E r \in strong : r.hinted /\ f \in ToSet(r.pair) /\ f # r.primary /\ decisions[f] = Excluded(r.primary)
    BY <2>3 DEF Excluded
  <2>4. CASE \E other : other # f /\ decisions[f] = Downweighted(other) BY <2>4 DEF Downweighted
  <2> QED BY <2>1, <2>2, <2>3, <2>4 DEF Reasoned
<1> QED BY <1>1, <1>2 DEF Kept, Excluded

\* Of factors and all they are strongly related to one is kept: a primary, or else the first.
LEMMA SoundKeepsStories ==
  ASSUME NEW columns, columns \subseteq ToSet(AllFactors), NEW strong,
         \A r \in strong : IsStrong(r, columns),
         NEW decisions, Sound(decisions, columns, strong, 56),
         NEW story \in SUBSET columns, story # {},
         \A r \in strong : ToSet(r.pair) \cap story # {} => ToSet(r.pair) \subseteq story
  PROVE  \E f \in story : decisions[f].decision = "keep"
<1>1. CASE \E f \in story : f \in ProtectedBy(strong)
  <2>1. PICK f \in story : f \in ProtectedBy(strong) BY <1>1
  <2>2. decisions[f] = Kept BY <2>1 DEF Sound
  <2> QED BY <2>2 DEF Kept
<1>2. CASE \A f \in story : f \notin ProtectedBy(strong)
  <2> DEFINE places == {Place(f) : f \in story}
  <2>1. \A f \in story : Place(f) \in Nat BY Places
  <2>2. places \in SUBSET Nat /\ places # {} BY <2>1
  <2>3. PICK m \in places : \A k \in places : m <= k BY <2>2, LeastNumber
  <2>4. PICK f \in story : Place(f) = m BY <2>3
  <2>5. \A g \in story : ~(Place(g) < Place(f)) BY <2>1, <2>3, <2>4
  <2>6. Reasoned(decisions[f], f, strong) BY DEF Sound
  <2>7. ASSUME NEW r \in strong, f \in ToSet(r.pair) PROVE ~r.hinted
    <3>1. r.primary \in story BY <2>7, PrimaryInPair
    <3> QED BY <1>2, <3>1 DEF ProtectedBy
  <2>8. ASSUME NEW r \in strong, ~r.hinted, f \in ToSet(r.pair), NEW other \in ToSet(r.pair), other # f,
               f = r.primary => other \in ProtectedBy(strong)
        PROVE  FALSE
    <3>1. PICK a, b \in columns : Place(a) < Place(b) /\ r.pair = <<a, b>> /\ (~r.hinted => r.primary = a)
      BY DEF IsStrong
    <3>2. ToSet(r.pair) = {a, b} BY <3>1 DEF ToSet
    <3>3. a \in story /\ b \in story /\ other \in story BY <2>8, <3>2
    <3>4. CASE f = a BY <1>2, <2>8, <3>1, <3>3, <3>4
    <3>5. CASE f = b BY <2>5, <3>1, <3>3, <3>5
    <3> QED BY <2>8, <3>2, <3>4, <3>5
  <2>9. decisions[f] = Kept BY <2>6, <2>7, <2>8 DEF Reasoned
  <2> QED BY <2>9 DEF Kept
<1> QED BY <1>1, <1>2

\* What takes the place of a factor is the other factor of a strong relationship.
LEMMA SoundReplaces ==
  ASSUME NEW columns, NEW strong, \A r \in strong : IsStrong(r, columns),
         NEW decisions, Sound(decisions, columns, strong, 56), NEW f \in columns, decisions[f].decision # "keep"
  PROVE  \E r \in strong : {f, decisions[f].replacement} \subseteq ToSet(r.pair) /\ f # decisions[f].replacement
<1>1. Reasoned(decisions[f], f, strong) BY DEF Sound
<1>2. decisions[f] # Kept BY DEF Kept
<1>3. ASSUME NEW r \in strong, f \in ToSet(r.pair), f # r.primary, decisions[f] = Excluded(r.primary)
      PROVE  {f, decisions[f].replacement} \subseteq ToSet(r.pair) /\ f # decisions[f].replacement
  BY <1>3, PrimaryInPair DEF Excluded
<1>4. ASSUME NEW r \in strong, f \in ToSet(r.pair), NEW other \in ToSet(r.pair), other # f, decisions[f] = Downweighted(other)
      PROVE  {f, decisions[f].replacement} \subseteq ToSet(r.pair) /\ f # decisions[f].replacement
  BY <1>4 DEF Downweighted
<1> QED BY <1>1, <1>2, <1>3, <1>4 DEF Reasoned

\* Factors are strongly related by enough days with values of both, on which both vary.
LEMMA StrongByDays ==
  ASSUME NEW table, NEW given, given.observations \in Nat,
         NEW r \in StrongOf(Relationships(table, given)), NEW f \in ToSet(r.pair), NEW g \in ToSet(r.pair), f # g,
         IsFiniteSet(DOMAIN table[f]), \A h \in DOMAIN table : DOMAIN table[h] = DOMAIN table[f]
  PROVE  LET days == {d \in DOMAIN table[f] : table[f][d] # None /\ table[g][d] # None}
         IN /\ g \in DOMAIN table
            /\ Cardinality(days) >= given.observations
            /\ \E d, e \in days : table[f][d] # table[f][e]
<1> DEFINE days == {d \in DOMAIN table[f] : table[f][d] # None /\ table[g][d] # None}
<1>1. r \in Range(Relationships(table, given)) /\ r.type \in StrongTypes BY DEF StrongOf
<1>2. PICK a, b \in Columns(table) :
         /\ Place(a) < Place(b)
         /\ r = BuildPairRelationship(a, b, ClassifyRelationship(a, b, PairValues(table, a, b), given))
  BY <1>1, RelationshipShape
<1> DEFINE pairs == PairValues(table, a, b)
           type == ClassifyRelationship(a, b, pairs, given)
<1> HIDE DEF type
<1>3. r.pair = <<a, b>> /\ r.type = type BY <1>2 DEF BuildPairRelationship, type
<1>4. {f, g} = {a, b} BY <1>3 DEF ToSet
<1>5. a \in DOMAIN table /\ b \in DOMAIN table BY DEF Columns
<1>6. DOMAIN table[a] = DOMAIN table[f] /\ DOMAIN table[b] = DOMAIN table[f] BY <1>5
<1>7. DOMAIN pairs = days
  <2>1. DOMAIN pairs = {d \in DOMAIN table[a] : table[a][d] # None /\ table[b][d] # None} BY DEF PairValues
  <2> QED BY <1>4, <1>6, <2>1
<1>8. \A d \in days : pairs[d] = <<table[a][d], table[b][d]>>
  BY <1>7 DEF PairValues
<1> HIDE DEF pairs
<1>9. ~(Cardinality(DOMAIN pairs) < given.observations) /\ ~Constant(pairs)
  <2>1. type \in StrongTypes BY <1>1, <1>3
  <2> QED BY <2>1 DEF type, ClassifyRelationship, StrongTypes
<1>10. Cardinality(days) \in Nat
  <2>1. days \in SUBSET DOMAIN table[f] OBVIOUS
  <2>2. IsFiniteSet(days) BY <2>1, FS_Subset
  <2> QED BY <2>2, FS_CardinalityType
<1> DEFINE k == IF f = a THEN 1 ELSE 2
           values == {pairs[d][k] : d \in DOMAIN pairs}
<1>11. k \in 1..2 /\ \A d \in days : pairs[d][k] = table[f][d]
  <2>1. CASE f = a BY <1>8, <2>1
  <2>2. CASE f # a
    <3>1. f = b /\ k = 2 BY <1>4, <2>2
    <3> QED BY <1>8, <3>1
  <2> QED BY <2>1, <2>2
<1> HIDE DEF k
<1>12. ASSUME \A d, e \in days : table[f][d] = table[f][e] PROVE FALSE
  <2>1. values = {table[f][d] : d \in days} BY <1>7, <1>11
  <2>4. ~(Cardinality(values) <= 1) BY <1>9, <1>11 DEF Constant
  <2> HIDE DEF values
  <2>2. CASE days = {}
    <3>1. values = {} BY <2>1, <2>2
    <3>2. Cardinality(values) <= 1 BY <3>1, FS_EmptySet
    <3> QED BY <2>4, <3>2
  <2>3. CASE days # {}
    <3>1. PICK d \in days : TRUE BY <2>3
    <3>2. values = {table[f][d]} BY <1>12, <2>1, <3>1
    <3>4. \A x : Cardinality({x}) = 1 BY FS_Singleton, Zenon
    <3>5. Cardinality(values) = 1 BY <3>2, <3>4, Zenon
    <3>3. Cardinality(values) <= 1 BY <3>5
    <3> QED BY <2>4, <3>3
  <2> QED BY <2>2, <2>3
<1>13. Cardinality(days) >= given.observations BY <1>7, <1>9, <1>10
<1> QED BY <1>4, <1>5, <1>12, <1>13

-----------------------------------------------------------------------------
(* Sums of returns *)

Summand(fun, s) == fun[CHOOSE x \in s : TRUE]
Others(s) == s \ {CHOOSE x \in s : TRUE}

\* The sums of the sets of at most N indices.
Sums(h, fun, indices, N) ==
  LET sets == {s \in SUBSET indices : Cardinality(s) <= N}
  IN h \in [sets -> Int] /\ \A s \in sets : h[s] = IF s = {} THEN 0 ELSE Summand(fun, s) + h[Others(s)]

LEMMA OthersAreFewer ==
  ASSUME NEW indices, IsFiniteSet(indices), NEW s \in SUBSET indices, s # {}
  PROVE  /\ Others(s) \in SUBSET indices /\ Cardinality(s) \in Nat
         /\ Cardinality(Others(s)) \in Nat /\ Cardinality(Others(s)) = Cardinality(s) - 1
         /\ (CHOOSE x \in s : TRUE) \in s
<1> DEFINE x == CHOOSE x \in s : TRUE
<1>1. x \in s OBVIOUS
<1>2. Others(s) = s \ {x} BY DEF Others
<1> HIDE DEF x
<1>3. IsFiniteSet(s) BY FS_Subset
<1>4. Cardinality(s) \in Nat BY <1>3, FS_CardinalityType
<1>5. IsFiniteSet(s \ {x}) /\ Cardinality(s \ {x}) = Cardinality(s) - 1 BY <1>1, <1>3, FS_RemoveElement
<1>6. Cardinality(s \ {x}) \in Nat BY <1>5, FS_CardinalityType
<1> QED BY <1>1, <1>2, <1>4, <1>5, <1>6 DEF x

LEMMA SumsExist ==
  ASSUME NEW indices, IsFiniteSet(indices), NEW fun, \A i \in indices : fun[i] \in Int, NEW N \in Nat
  PROVE  \E h : Sums(h, fun, indices, N)
<1> DEFINE Sets(n) == {s \in SUBSET indices : Cardinality(s) <= n}
           T == {n \in Nat : \E h : Sums(h, fun, indices, n)}
<1>0. \A s \in SUBSET indices : /\ Cardinality(s) \in Nat
                                /\ Cardinality(s) = 0 <=> s = {}
  <2> TAKE s \in SUBSET indices
  <2>1. IsFiniteSet(s) BY FS_Subset
  <2> QED BY <2>1, FS_CardinalityType, FS_EmptySet
<1>1. 0 \in T
  <2> DEFINE h == [s \in Sets(0) |-> 0]
  <2>1. \A s \in Sets(0) : s = {} BY <1>0
  <2>2. h \in [Sets(0) -> Int] /\ \A s \in Sets(0) : h[s] = 0 OBVIOUS
  <2> HIDE DEF h
  <2>3. Sums(h, fun, indices, 0) BY <2>1, <2>2 DEF Sums
  <2> QED BY <2>3
<1>2. ASSUME NEW n \in T PROVE n + 1 \in T
  <2>0. n \in Nat OBVIOUS
  <2>1. PICK h : Sums(h, fun, indices, n) OBVIOUS
  <2> DEFINE next(s) == IF Cardinality(s) <= n THEN h[s] ELSE Summand(fun, s) + h[Others(s)]
             g == [s \in Sets(n + 1) |-> next(s)]
  <2>2. h \in [Sets(n) -> Int] /\ \A s \in Sets(n) : h[s] = IF s = {} THEN 0 ELSE Summand(fun, s) + h[Others(s)]
    BY <2>1 DEF Sums
  <2>3. \A s \in Sets(n + 1) : s # {} => Others(s) \in Sets(n) /\ Summand(fun, s) \in Int
    <3> TAKE s \in Sets(n + 1)
    <3> HAVE s # {}
    <3> QED BY <2>0, OthersAreFewer DEF Summand
  <2>4. \A s \in Sets(n + 1) : s \notin Sets(n) => s # {} BY <1>0, <2>0
  <2>5. \A s \in Sets(n + 1) : next(s) \in Int
    <3> TAKE s \in Sets(n + 1)
    <3>1. CASE s \in Sets(n) BY <2>2, <3>1
    <3>2. CASE s \notin Sets(n)
      <4>1. h[Others(s)] \in Int /\ Summand(fun, s) \in Int BY <2>2, <2>3, <2>4, <3>2
      <4>2. ~(Cardinality(s) <= n) BY <3>2
      <4> QED BY <4>1, <4>2
    <3> QED BY <3>1, <3>2
  <2>6. \A s \in Sets(n) : s \in Sets(n + 1) /\ next(s) = h[s] BY <1>0, <2>0
  <2>7. \A s \in Sets(n + 1) : s \notin Sets(n) => next(s) = Summand(fun, s) + h[Others(s)] OBVIOUS
  <2> HIDE DEF next
  <2>8. g \in [Sets(n + 1) -> Int] /\ \A s \in Sets(n + 1) : g[s] = next(s) BY <2>5
  <2> HIDE DEF g
  <2>9. ASSUME NEW s \in Sets(n + 1)
        PROVE  g[s] = IF s = {} THEN 0 ELSE Summand(fun, s) + g[Others(s)]
    <3>1. s # {} => g[Others(s)] = h[Others(s)] BY <2>3, <2>6, <2>8
    <3>2. CASE s \in Sets(n)
      <4>1. g[s] = h[s] BY <2>6, <2>8, <3>2
      <4> QED BY <2>2, <3>1, <3>2, <4>1
    <3>3. CASE s \notin Sets(n) BY <2>4, <2>7, <2>8, <3>1, <3>3
    <3> QED BY <3>2, <3>3
  <2>10. Sums(g, fun, indices, n + 1) BY <2>8, <2>9 DEF Sums
  <2> QED BY <2>0, <2>10
<1> HIDE DEF T
<1>3. T \subseteq Nat BY DEF T
<1>4. N \in T BY <1>1, <1>2, <1>3, AllNumbers
<1> QED BY <1>4 DEF T

\* A sum of integers is one.
LEMMA SumIsInteger ==
  ASSUME NEW indices, IsFiniteSet(indices), NEW fun, \A i \in indices : fun[i] \in Int
  PROVE  SumFunctionOnSet(fun, indices) \in Int
<1> DEFINE Body(h, s) == IF s = {} THEN 0 ELSE Summand(fun, s) + h[Others(s)]
           g == CHOOSE h : h = [s \in SUBSET indices |-> Body(h, s)]
           N == Cardinality(indices)
<1>1. N \in Nat /\ \A s \in SUBSET indices : Cardinality(s) <= N BY FS_CardinalityType, FS_Subset
<1>2. PICK h : Sums(h, fun, indices, N) BY <1>1, SumsExist
<1>3. h \in [SUBSET indices -> Int] /\ \A s \in SUBSET indices : h[s] = Body(h, s)
  <2>1. {s \in SUBSET indices : Cardinality(s) <= N} = SUBSET indices BY <1>1
  <2> QED BY <1>2, <2>1 DEF Sums
<1>4. h = [s \in SUBSET indices |-> Body(h, s)]
  <2> HIDE DEF Body
  <2> QED BY <1>3
<1>5. g = [s \in SUBSET indices |-> Body(g, s)] BY <1>4
<1>6. SumFunctionOnSet(fun, indices) = g[indices]
  BY DEF SumFunctionOnSet, FoldFunctionOnSet, MapThenFoldSet, Summand, Others
<1> HIDE DEF g
<1>7. \A s \in SUBSET indices : g[s] = Body(g, s)
  <2> HIDE DEF Body
  <2> QED BY <1>5
<1> DEFINE T == {n \in Nat : \A s \in SUBSET indices : Cardinality(s) = n => g[s] \in Int}
<1>8. 0 \in T
  <2>1. \A s \in SUBSET indices : Cardinality(s) = 0 => s = {} BY FS_Subset, FS_EmptySet
  <2>2. ASSUME NEW s \in SUBSET indices, s = {} PROVE g[s] \in Int
    <3>1. g[s] = 0 BY <1>7, <2>2
    <3> QED BY <3>1
  <2> QED BY <2>1, <2>2
<1>9. ASSUME NEW n \in T PROVE n + 1 \in T
  <2> SUFFICES ASSUME NEW s \in SUBSET indices, Cardinality(s) = n + 1 PROVE g[s] \in Int OBVIOUS
  <2>0. n \in Nat /\ n + 1 # 0 OBVIOUS
  <2>1. s # {}
    <3>1. Cardinality({}) = 0 BY FS_EmptySet
    <3> QED BY <2>0, <3>1
  <2>2. /\ Others(s) \in SUBSET indices /\ Cardinality(Others(s)) = n /\ (CHOOSE x \in s : TRUE) \in s
    BY <2>1, OthersAreFewer
  <2>3. g[Others(s)] \in Int /\ Summand(fun, s) \in Int BY <2>2 DEF Summand
  <2> QED BY <1>7, <2>1, <2>3
<1> HIDE DEF T
<1>10. T \subseteq Nat BY DEF T
<1>11. N \in T BY <1>1, <1>8, <1>9, <1>10, AllNumbers
<1>12. g[indices] \in Int BY <1>11 DEF T
<1> QED BY <1>6, <1>12

-----------------------------------------------------------------------------
(* The days in the order of their values *)

\* Values of some days.
Series(values) == IsFiniteSet(DOMAIN values) /\ DOMAIN values \subseteq Int /\ \A d \in DOMAIN values : values[d] \in Int
Position(values, d) == Cardinality(DaysUnder(values, d))

LEMMA PositionsAreApart ==
  ASSUME NEW values, Series(values), NEW d \in DOMAIN values
  PROVE  /\ Position(values, d) \in 0..(Cardinality(DOMAIN values) - 1) /\ Cardinality(DOMAIN values) \in Nat
         /\ \A e \in DOMAIN values : e \in DaysUnder(values, d) => Position(values, e) < Position(values, d)
         /\ \A e \in DOMAIN values : e # d => e \in DaysUnder(values, d) \/ d \in DaysUnder(values, e)
<1> DEFINE days == DOMAIN values
<1>0. IsFiniteSet(days) /\ Cardinality(days) \in Nat BY FS_CardinalityType DEF Series
<1>1. \A e \in days : DaysUnder(values, e) \subseteq days /\ e \notin DaysUnder(values, e) BY DEF DaysUnder, Series
<1>2. \A e \in days : IsFiniteSet(DaysUnder(values, e)) /\ Position(values, e) \in Nat
  <2> TAKE e \in days
  <2>1. IsFiniteSet(DaysUnder(values, e)) BY <1>0, <1>1, FS_Subset
  <2> QED BY <2>1, FS_CardinalityType DEF Position
<1>3. Position(values, d) < Cardinality(days)
  <2>1. IsFiniteSet(DaysUnder(values, d) \cup {d}) /\ Cardinality(DaysUnder(values, d) \cup {d}) = Position(values, d) + 1
    BY <1>1, <1>2, FS_AddElement DEF Position
  <2>2. DaysUnder(values, d) \cup {d} \in SUBSET days BY <1>1
  <2>3. Cardinality(DaysUnder(values, d) \cup {d}) <= Cardinality(days) BY <1>0, <2>2, FS_Subset
  <2> QED BY <1>0, <1>2, <2>1, <2>3
<1>4. ASSUME NEW e \in days, e \in DaysUnder(values, d) PROVE Position(values, e) < Position(values, d)
  <2>1. DaysUnder(values, e) \cup {e} \in SUBSET DaysUnder(values, d) BY <1>4 DEF DaysUnder, Series
  <2>2. Cardinality(DaysUnder(values, e) \cup {e}) = Position(values, e) + 1 BY <1>1, <1>2, FS_AddElement DEF Position
  <2>3. Cardinality(DaysUnder(values, e) \cup {e}) <= Position(values, d) BY <1>2, <2>1, FS_Subset DEF Position
  <2> QED BY <1>2, <2>2, <2>3
<1>5. \A e \in days : e # d => e \in DaysUnder(values, d) \/ d \in DaysUnder(values, e) BY DEF DaysUnder, Series
<1> QED BY <1>0, <1>2, <1>3, <1>4, <1>5

\* Each position is that of one day.
LEMMA PositionsAreTaken ==
  ASSUME NEW values, Series(values)
  PROVE  LET days == DOMAIN values
             places == 0..(Cardinality(days) - 1)
             f == [d \in days |-> Position(values, d)]
         IN f \in Bijection(days, places) /\ IsFiniteSet(places)
<1> DEFINE days == DOMAIN values
           n == Cardinality(days)
           places == 0..(n - 1)
           f == [d \in days |-> Position(values, d)]
<1>1. IsFiniteSet(days) /\ n \in Nat BY FS_CardinalityType DEF Series
<1>2. IsFiniteSet(places) /\ Cardinality(places) = n
  <2>1. IsFiniteSet(places) /\ Cardinality(places) = IF 0 > n - 1 THEN 0 ELSE (n - 1) - 0 + 1 BY <1>1, FS_Interval
  <2> QED BY <1>1, <2>1
<1>3. f \in [days -> places] BY PositionsAreApart
<1>4. ASSUME NEW d \in days, NEW e \in days, f[d] = f[e] PROVE d = e
  <2> SUFFICES ASSUME d # e PROVE FALSE OBVIOUS
  <2>1. Position(values, d) = Position(values, e) BY <1>4
  <2>2. Position(values, d) \in Nat /\ Position(values, e) \in Nat BY <1>1, PositionsAreApart
  <2>3. e \in DaysUnder(values, d) \/ d \in DaysUnder(values, e) BY PositionsAreApart
  <2>4. Position(values, e) < Position(values, d) \/ Position(values, d) < Position(values, e) BY <2>3, PositionsAreApart
  <2> QED BY <2>1, <2>2, <2>4
<1>5. f \in Injection(days, places)
  <2> HIDE DEF f
  <2>1. DOMAIN f = days BY <1>3
  <2> QED BY <1>3, <1>4, <2>1 DEF Injection, IsInjective
<1> HIDE DEF f, places, n
<1>6. f \in Surjection(days, places) BY <1>1, <1>2, <1>5, FS_Injection DEF n
<1> QED BY <1>2, <1>5, <1>6 DEF Bijection, f, places, n

\* The lowest and the highest days are equally many.
LEMMA EquallyMany ==
  ASSUME NEW values, Series(values), NEW t \in Nat, t >= 1, DOMAIN values # {}
  PROVE  LET days == DOMAIN values
             low == {d \in days : Position(values, d) < t}
             high == {d \in days : Position(values, d) >= Cardinality(days) - t}
         IN /\ IsFiniteSet(low) /\ IsFiniteSet(high)
            /\ Cardinality(low) = Cardinality(high) /\ Cardinality(low) \in Nat \ {0}
<1> DEFINE days == DOMAIN values
           n == Cardinality(days)
           places == 0..(n - 1)
           f == [d \in days |-> Position(values, d)]
           low == {d \in days : Position(values, d) < t}
           high == {d \in days : Position(values, d) >= n - t}
           m == IF t <= n THEN t ELSE n
<1>1. IsFiniteSet(days) /\ n \in Nat /\ n # 0 BY FS_CardinalityType, FS_EmptySet DEF Series
<1>2. f \in Bijection(days, places) BY PositionsAreTaken
<1>3. \A d \in days : f[d] = Position(values, d) OBVIOUS
<1> HIDE DEF f
<1>4. /\ f \in [days -> places] /\ \A d, e \in days : f[d] = f[e] => d = e
      /\ \A k \in places : \E d \in days : f[d] = k
  BY <1>2 DEF Bijection, Injection, Surjection, IsInjective
<1>5. ASSUME NEW S \in SUBSET days, NEW a \in Int, NEW b \in Int, a..b \subseteq places, a <= b,
             \A d \in days : d \in S <=> f[d] \in a..b
      PROVE  IsFiniteSet(S) /\ Cardinality(S) = b - a + 1
  <2> DEFINE g == [d \in S |-> f[d]]
  <2>1. g \in [S -> a..b] BY <1>4, <1>5
  <2>2. \A d, e \in S : g[d] = g[e] => d = e BY <1>4
  <2>3. \A k \in a..b : \E d \in S : g[d] = k
    <3> TAKE k \in a..b
    <3>1. PICK d \in days : f[d] = k BY <1>4, <1>5
    <3>2. d \in S BY <1>5, <3>1
    <3> QED BY <3>1, <3>2
  <2> HIDE DEF g
  <2>4. g \in Injection(S, a..b) /\ g \in Surjection(S, a..b)
    <3>1. DOMAIN g = S BY <2>1
    <3> QED BY <2>1, <2>2, <2>3, <3>1 DEF Injection, Surjection, IsInjective
  <2>5. IsFiniteSet(a..b) /\ Cardinality(a..b) = b - a + 1
    <3>1. IsFiniteSet(a..b) /\ Cardinality(a..b) = IF a > b THEN 0 ELSE b - a + 1 BY FS_Interval
    <3> QED BY <1>5, <3>1
  <2> QED BY <2>4, <2>5, FS_Injection
<1>6. m \in Nat /\ m >= 1 /\ m <= n /\ m <= t BY <1>1
<1>7. \A d \in days : d \in low <=> f[d] \in 0..(m - 1) BY <1>1, <1>3, <1>4
<1>8. \A d \in days : d \in high <=> f[d] \in (n - m)..(n - 1) BY <1>1, <1>3, <1>4
<1>9. 0..(m - 1) \subseteq places /\ (n - m)..(n - 1) \subseteq places BY <1>1, <1>6
<1> HIDE DEF m, low, high, places, n
<1>10. low \in SUBSET days /\ high \in SUBSET days BY DEF low, high
<1>11. IsFiniteSet(low) /\ Cardinality(low) = (m - 1) - 0 + 1 BY <1>5, <1>6, <1>7, <1>9, <1>10
<1>12. IsFiniteSet(high) /\ Cardinality(high) = (n - 1) - (n - m) + 1
  <2>1. n - m \in Int /\ n - 1 \in Int /\ n - m <= n - 1 BY <1>1, <1>6
  <2> QED BY <1>5, <1>8, <1>9, <1>10, <2>1
<1>13. Cardinality(low) = m /\ Cardinality(high) = m BY <1>1, <1>6, <1>11, <1>12
<1> QED BY <1>6, <1>11, <1>12, <1>13 DEF low, high, n

-----------------------------------------------------------------------------
(* The triggers of a factor *)

IsFraction(x) == x.num \in Int /\ x.den \in Nat \ {0}
\* What is known of a stat.
IsStat(s) ==
  /\ IsFiniteSet(s.low) /\ IsFiniteSet(s.high) /\ Cardinality(s.low) = Cardinality(s.high) /\ Cardinality(s.low) \in Nat \ {0}
  /\ IsFraction(s.lowMean) /\ IsFraction(s.highMean) /\ IsFraction(s.spread)
  /\ s.spread = Minus(s.highMean, s.lowMean) /\ s.direction = DirectionHint(s.spread)

LEMMA Arithmetic ==
  /\ \A a, b \in Int : a * b \in Int /\ a * b = b * a
  /\ \A a, b \in Nat \ {0} : a * b \in Nat \ {0}
OBVIOUS

LEMMA MinusFraction ==
  ASSUME NEW x, IsFraction(x), NEW y, IsFraction(y)
  PROVE  /\ IsFraction(Minus(x, y))
         /\ Minus(x, y).num = x.num * y.den - y.num * x.den /\ Minus(x, y).den = x.den * y.den
BY Arithmetic DEF Minus, Fraction, IsFraction

LEMMA TriggersAreNatural ==
  ASSUME NEW n \in Nat, NEW quantile, quantile.den \in Nat, quantile.num \in 1..quantile.den
  PROVE  LET t == Max({1, (n * quantile.num) \div quantile.den}) IN t \in Nat /\ t >= 1
<1> DEFINE a == n * quantile.num
           q == a \div quantile.den
           t == Max({1, q})
<1>1. a \in Nat /\ quantile.den \in Nat \ {0} BY Arithmetic
<1> HIDE DEF a
<1>2. q \in Int BY <1>1
<1> HIDE DEF q
<1>3. \E x \in {1, q} : \A y \in {1, q} : x >= y
  <2>1. CASE q <= 1 BY <1>2, <2>1
  <2>2. CASE ~(q <= 1) BY <1>2, <2>2
  <2> QED BY <2>1, <2>2
<1>4. t \in {1, q} /\ \A y \in {1, q} : t >= y BY <1>3 DEF Max
<1> HIDE DEF t
<1>5. t \in Int /\ t >= 1 BY <1>2, <1>4
<1> QED BY <1>5 DEF t, q, a

LEMMA MeanIsFraction ==
  ASSUME NEW returns, NEW days, IsFiniteSet(days), days # {}, \A d \in days : returns[d] \in Int
  PROVE  IsFraction(MeanReturn(returns, days))
<1>1. SumFunctionOnSet(returns, days) \in Int BY SumIsInteger
<1>2. Cardinality(days) \in Nat \ {0} BY FS_CardinalityType, FS_EmptySet
<1> QED BY <1>1, <1>2 DEF MeanReturn, Fraction, IsFraction

LEMMA StatShape ==
  ASSUME NEW values, Series(values), DOMAIN values # {}, NEW returns, \A d \in DOMAIN values : returns[d] \in Int,
         NEW quantile, quantile.den \in Nat, quantile.num \in 1..quantile.den
  PROVE  LET s == SignalStat(values, returns, quantile)
             days == DOMAIN values
         IN /\ IsStat(s)
            /\ \E t \in Nat : /\ t = Max({1, (Cardinality(days) * quantile.num) \div quantile.den})
                              /\ s.low = {d \in days : Position(values, d) < t}
                              /\ s.high = {d \in days : Position(values, d) >= Cardinality(days) - t}
            /\ s.lowMean = MeanReturn(returns, s.low) /\ s.highMean = MeanReturn(returns, s.high)
<1> DEFINE s == SignalStat(values, returns, quantile)
           days == DOMAIN values
           n == Cardinality(days)
           t == Max({1, (n * quantile.num) \div quantile.den})
           low == {d \in days : Position(values, d) < t}
           high == {d \in days : Position(values, d) >= n - t}
           spread == Minus(MeanReturn(returns, high), MeanReturn(returns, low))
<1>1. n \in Nat BY FS_CardinalityType DEF Series
<1>2. t \in Nat /\ t >= 1 BY <1>1, TriggersAreNatural
<1>3. s = [low |-> low, high |-> high, lowMean |-> MeanReturn(returns, low), highMean |-> MeanReturn(returns, high),
           spread |-> spread, direction |-> DirectionHint(spread)]
  BY DEF SignalStat, Position
<1> HIDE DEF s, t
<1>4. IsFiniteSet(low) /\ IsFiniteSet(high) /\ Cardinality(low) = Cardinality(high) /\ Cardinality(low) \in Nat \ {0}
  BY <1>2, EquallyMany
<1>5. low # {} /\ high # {} BY <1>4, FS_EmptySet
<1>6. low \subseteq days /\ high \subseteq days OBVIOUS
<1>7. s.low = low /\ s.high = high /\ s.lowMean = MeanReturn(returns, low) /\ s.highMean = MeanReturn(returns, high)
      /\ s.spread = spread /\ s.direction = DirectionHint(spread)
  BY <1>3
<1> HIDE DEF low, high
<1>8. IsFraction(MeanReturn(returns, low)) /\ IsFraction(MeanReturn(returns, high)) BY <1>4, <1>5, <1>6, MeanIsFraction
<1>9. IsFraction(spread) BY <1>8, MinusFraction
<1> HIDE DEF spread
<1>10. IsStat(s) BY <1>4, <1>7, <1>8, <1>9 DEF IsStat, spread
<1> QED BY <1>2, <1>7, <1>10 DEF s, t, low, high

-----------------------------------------------------------------------------
(* The overlap of two factors *)

Candidates(a, b) ==
  {Overlap("high_vs_high", 1, a.high, b.high), Overlap("low_vs_low", 4, a.low, b.low),
   Overlap("high_vs_low", 2, a.high, b.low), Overlap("low_vs_high", 3, a.low, b.high)}
Beats(p, q) ==
  \/ q.both * p.either < p.both * q.either
  \/ ~(p.both * q.either < q.both * p.either) /\ (q.both < p.both \/ (q.both = p.both /\ q.order < p.order))

\* As many trigger days on every side: the overlaps differ by the days in both.
LEMMA OverlapShape ==
  ASSUME NEW daysA, NEW daysB, IsFiniteSet(daysA), IsFiniteSet(daysB), NEW side, NEW order
  PROVE  LET p == Overlap(side, order, daysA, daysB)
         IN /\ p.side = side /\ p.order = order /\ p.count = Min({Cardinality(daysA), Cardinality(daysB)})
            /\ p.both = Cardinality(daysA \cap daysB) /\ p.either = Cardinality(daysA) + Cardinality(daysB) - p.both
            /\ p.both \in Nat /\ p.both <= Cardinality(daysA) /\ p.both <= Cardinality(daysB)
<1>1. daysA \cap daysB \in SUBSET daysA /\ daysA \cap daysB \in SUBSET daysB OBVIOUS
<1>2. IsFiniteSet(daysA \cap daysB) /\ Cardinality(daysA \cap daysB) \in Nat /\ Cardinality(daysA \cap daysB) <= Cardinality(daysA)
  BY <1>1, FS_Subset, FS_CardinalityType
<1>3. Cardinality(daysA \cap daysB) <= Cardinality(daysB) BY <1>1, FS_Subset
<1>4. Cardinality(daysA \cup daysB) = Cardinality(daysA) + Cardinality(daysB) - Cardinality(daysA \cap daysB) BY FS_Union
<1> QED BY <1>2, <1>3, <1>4 DEF Overlap

LEMMA LessMeansFewer ==
  ASSUME NEW s \in Nat \ {0}, NEW x \in 0..s, NEW y \in 0..s
  PROVE  x * (s - y) < y * (s - x) <=> x < y
<1>1. x * (s - y) = x * s - x * y /\ y * (s - x) = y * s - x * y OBVIOUS
<1>2. x * s \in Int /\ y * s \in Int /\ x * y \in Int OBVIOUS
<1>3. x < y => x * s < y * s OBVIOUS
<1>4. y <= x => y * s <= x * s OBVIOUS
<1> QED BY <1>1, <1>2, <1>3, <1>4

\* The best overlap is one of the most days; of equal ones low and low, low and high, high and low.
LEMMA BestOverlap ==
  ASSUME NEW a, NEW b, IsStat(a), IsStat(b)
  PROVE  LET best == BestTriggerOverlap(a, b)
             hh == Cardinality(a.high \cap b.high)
             ll == Cardinality(a.low \cap b.low)
             hl == Cardinality(a.high \cap b.low)
             lh == Cardinality(a.low \cap b.high)
         IN /\ {hh, ll, hl, lh} \subseteq Nat
            /\ best.both \in {hh, ll, hl, lh} /\ \A x \in {hh, ll, hl, lh} : x <= best.both
            /\ best.count = Min({Cardinality(a.low), Cardinality(b.low)})
            /\ best.either = Cardinality(a.low) + Cardinality(b.low) - best.both
            /\ best.both <= Cardinality(a.low) /\ best.both <= Cardinality(b.low)
            /\ best.side \in {"high_vs_low", "low_vs_high"} <=> ll < best.both /\ (hl = best.both \/ lh = best.both)
<1> DEFINE m == Cardinality(a.low)
           n == Cardinality(b.low)
           s == m + n
           hh == Overlap("high_vs_high", 1, a.high, b.high)
           ll == Overlap("low_vs_low", 4, a.low, b.low)
           hl == Overlap("high_vs_low", 2, a.high, b.low)
           lh == Overlap("low_vs_high", 3, a.low, b.high)
           cs == {hh, ll, hl, lh}
           best == BestTriggerOverlap(a, b)
           Known(p) == p.count = Min({m, n}) /\ p.both \in Nat /\ p.both <= m /\ p.both <= n /\ p.either = s - p.both
<1>1. m \in Nat /\ n \in Nat /\ s \in Nat \ {0} BY DEF IsStat
<1>2. /\ IsFiniteSet(a.low) /\ IsFiniteSet(a.high) /\ IsFiniteSet(b.low) /\ IsFiniteSet(b.high)
      /\ Cardinality(a.high) = m /\ Cardinality(b.high) = n
  BY DEF IsStat
<1> HIDE DEF m, n
<1>2b. Cardinality(a.low) = m /\ Cardinality(b.low) = n BY DEF m, n
<1>3. Known(hh) /\ hh.side = "high_vs_high" /\ hh.order = 1 /\ hh.both = Cardinality(a.high \cap b.high)
  <2>1. /\ hh.side = "high_vs_high" /\ hh.order = 1 /\ hh.count = Min({Cardinality(a.high), Cardinality(b.high)})
        /\ hh.both = Cardinality(a.high \cap b.high) /\ hh.either = Cardinality(a.high) + Cardinality(b.high) - hh.both
        /\ hh.both \in Nat /\ hh.both <= Cardinality(a.high) /\ hh.both <= Cardinality(b.high)
    BY <1>2, OverlapShape
  <2> HIDE DEF hh
  <2> QED BY <1>1, <1>2, <1>2b, <2>1
<1>4. Known(ll) /\ ll.side = "low_vs_low" /\ ll.order = 4 /\ ll.both = Cardinality(a.low \cap b.low)
  <2>1. /\ ll.side = "low_vs_low" /\ ll.order = 4 /\ ll.count = Min({Cardinality(a.low), Cardinality(b.low)})
        /\ ll.both = Cardinality(a.low \cap b.low) /\ ll.either = Cardinality(a.low) + Cardinality(b.low) - ll.both
        /\ ll.both \in Nat /\ ll.both <= Cardinality(a.low) /\ ll.both <= Cardinality(b.low)
    BY <1>2, OverlapShape
  <2> HIDE DEF ll
  <2> QED BY <1>1, <1>2, <1>2b, <2>1
<1>5. Known(hl) /\ hl.side = "high_vs_low" /\ hl.order = 2 /\ hl.both = Cardinality(a.high \cap b.low)
  <2>1. /\ hl.side = "high_vs_low" /\ hl.order = 2 /\ hl.count = Min({Cardinality(a.high), Cardinality(b.low)})
        /\ hl.both = Cardinality(a.high \cap b.low) /\ hl.either = Cardinality(a.high) + Cardinality(b.low) - hl.both
        /\ hl.both \in Nat /\ hl.both <= Cardinality(a.high) /\ hl.both <= Cardinality(b.low)
    BY <1>2, OverlapShape
  <2> HIDE DEF hl
  <2> QED BY <1>1, <1>2, <1>2b, <2>1
<1>6. Known(lh) /\ lh.side = "low_vs_high" /\ lh.order = 3 /\ lh.both = Cardinality(a.low \cap b.high)
  <2>1. /\ lh.side = "low_vs_high" /\ lh.order = 3 /\ lh.count = Min({Cardinality(a.low), Cardinality(b.high)})
        /\ lh.both = Cardinality(a.low \cap b.high) /\ lh.either = Cardinality(a.low) + Cardinality(b.high) - lh.both
        /\ lh.both \in Nat /\ lh.both <= Cardinality(a.low) /\ lh.both <= Cardinality(b.high)
    BY <1>2, OverlapShape
  <2> HIDE DEF lh
  <2> QED BY <1>1, <1>2, <1>2b, <2>1
<1>7. best = CHOOSE p \in cs : \A q \in cs \ {p} : Beats(p, q) BY DEF BestTriggerOverlap, Beats
<1> HIDE DEF hh, ll, hl, lh, best
<1>8. ASSUME NEW p \in cs, NEW q \in cs
      PROVE  Beats(p, q) <=> q.both < p.both \/ (q.both = p.both /\ q.order < p.order)
  <2>1. Known(p) /\ Known(q) BY <1>3, <1>4, <1>5, <1>6
  <2> HIDE DEF cs
  <2>2. p.both \in 0..s /\ q.both \in 0..s /\ p.either = s - p.both /\ q.either = s - q.both BY <1>1, <2>1
  <2>3. p.both * (s - q.both) < q.both * (s - p.both) <=> p.both < q.both BY <1>1, <2>2, LessMeansFewer
  <2>4. q.both * (s - p.both) < p.both * (s - q.both) <=> q.both < p.both BY <1>1, <2>2, LessMeansFewer
  <2> QED BY <2>2, <2>3, <2>4 DEF Beats
<1>9. \E p \in cs : \A q \in cs \ {p} : Beats(p, q)
  <2> DEFINE Ahead(p, q) == q.both < p.both \/ (q.both = p.both /\ q.order < p.order)
  <2>1. \E p \in cs : \A q \in cs : q # p => Ahead(p, q)
    <3>1. hh.both \in Int /\ ll.both \in Int /\ hl.both \in Int /\ lh.both \in Int BY <1>3, <1>4, <1>5, <1>6
    <3>2. \E p \in cs : \A q \in cs : q.both <= p.both BY <3>1
    <3>3. PICK p \in cs : \A q \in cs : q.both <= p.both BY <3>2
    <3>4. CASE ll.both = p.both
      <4>1. \A q \in cs : q # ll => Ahead(ll, q) BY <1>3, <1>4, <1>5, <1>6, <3>1, <3>3, <3>4
      <4> QED BY <4>1
    <3>5. CASE ll.both # p.both /\ lh.both = p.both
      <4>1. \A q \in cs : q # lh => Ahead(lh, q) BY <1>3, <1>4, <1>5, <1>6, <3>1, <3>3, <3>5
      <4> QED BY <4>1
    <3>6. CASE ll.both # p.both /\ lh.both # p.both /\ hl.both = p.both
      <4>1. \A q \in cs : q # hl => Ahead(hl, q) BY <1>3, <1>4, <1>5, <1>6, <3>1, <3>3, <3>6
      <4> QED BY <4>1
    <3>7. CASE ll.both # p.both /\ lh.both # p.both /\ hl.both # p.both
      <4>1. p = hh BY <3>3, <3>7
      <4>2. \A q \in cs : q # hh => Ahead(hh, q) BY <1>3, <1>4, <1>5, <1>6, <3>1, <3>3, <3>7, <4>1
      <4> QED BY <4>2
    <3> QED BY <3>4, <3>5, <3>6, <3>7
  <2> QED BY <1>8, <2>1
<1>10. best \in cs /\ \A q \in cs \ {best} : Beats(best, q) BY <1>7, <1>9
<1>11. \A q \in cs : q # best => q.both < best.both \/ (q.both = best.both /\ q.order < best.order) BY <1>8, <1>10
<1>12. Known(best) BY <1>3, <1>4, <1>5, <1>6, <1>10
<1>13. hh.both \in Nat /\ ll.both \in Nat /\ hl.both \in Nat /\ lh.both \in Nat /\ best.both \in Nat
  BY <1>3, <1>4, <1>5, <1>6, <1>12
<1>14. hh.both <= best.both /\ ll.both <= best.both /\ hl.both <= best.both /\ lh.both <= best.both BY <1>11, <1>13
<1>15. best.side \in {"high_vs_low", "low_vs_high"} <=> ll.both < best.both /\ (hl.both = best.both \/ lh.both = best.both)
  <2>1. CASE best = hh
    <3>1. ll # hh /\ hl # hh /\ lh # hh BY <1>3, <1>4, <1>5, <1>6
    <3>2. hl.both < best.both /\ lh.both < best.both BY <1>3, <1>5, <1>6, <1>11, <1>13, <2>1, <3>1
    <3> QED BY <1>3, <1>13, <2>1, <3>2
  <2>2. CASE best = ll BY <1>4, <1>13, <2>2
  <2>3. CASE best = hl
    <3>1. ll # hl BY <1>4, <1>5
    <3>2. ll.both < best.both BY <1>4, <1>5, <1>11, <1>13, <2>3, <3>1
    <3> QED BY <1>5, <2>3, <3>2
  <2>4. CASE best = lh
    <3>1. ll # lh BY <1>4, <1>6
    <3>2. ll.both < best.both BY <1>4, <1>6, <1>11, <1>13, <2>4, <3>1
    <3> QED BY <1>6, <2>4, <3>2
  <2> QED BY <1>10, <2>1, <2>2, <2>3, <2>4
<1>16. best.both \in {hh.both, ll.both, hl.both, lh.both} BY <1>10
<1>17. best.count = Min({m, n}) /\ best.either = s - best.both /\ best.both <= m /\ best.both <= n BY <1>12
<1> HIDE DEF Known, cs, s
<1>18. /\ hh.both = Cardinality(a.high \cap b.high) /\ ll.both = Cardinality(a.low \cap b.low)
       /\ hl.both = Cardinality(a.high \cap b.low) /\ lh.both = Cardinality(a.low \cap b.high)
  BY <1>3, <1>4, <1>5, <1>6
<1> DEFINE x == hh.both
           y == ll.both
           u == hl.both
           v == lh.both
<1>19. /\ {x, y, u, v} \subseteq Nat /\ best.both \in {x, y, u, v} /\ \A z \in {x, y, u, v} : z <= best.both
       /\ best.side \in {"high_vs_low", "low_vs_high"} <=> y < best.both /\ (u = best.both \/ v = best.both)
  BY <1>13, <1>14, <1>15, <1>16
<1> HIDE DEF x, y, u, v
<1>20. /\ x = Cardinality(a.high \cap b.high) /\ y = Cardinality(a.low \cap b.low)
       /\ u = Cardinality(a.high \cap b.low) /\ v = Cardinality(a.low \cap b.high)
  BY <1>18 DEF x, y, u, v
<1>21. best.either = m + n - best.both
  <2>1. s = m + n BY DEF s
  <2>2. s \in Nat BY <1>1, <2>1
  <2> QED BY <1>1, <1>13, <1>17, <2>1, <2>2
<1> QED BY <1>17, <1>19, <1>20, <1>21, Zenon DEF best, m, n

\* Read the other way, two factors overlap on as many days, upside down when they did.
LEMMA OverlapIsSymmetric ==
  ASSUME NEW a, NEW b, IsStat(a), IsStat(b)
  PROVE  LET p == BestTriggerOverlap(a, b)
             q == BestTriggerOverlap(b, a)
         IN /\ p.both = q.both /\ p.either = q.either /\ p.count = q.count
            /\ p.side \in {"high_vs_low", "low_vs_high"} <=> q.side \in {"high_vs_low", "low_vs_high"}
<1> DEFINE p == BestTriggerOverlap(a, b)
           q == BestTriggerOverlap(b, a)
           hh == Cardinality(a.high \cap b.high)
           ll == Cardinality(a.low \cap b.low)
           hl == Cardinality(a.high \cap b.low)
           lh == Cardinality(a.low \cap b.high)
           m == Cardinality(a.low)
           n == Cardinality(b.low)
<1>1. /\ hh = Cardinality(b.high \cap a.high) /\ ll = Cardinality(b.low \cap a.low)
      /\ lh = Cardinality(b.high \cap a.low) /\ hl = Cardinality(b.low \cap a.high)
  <2>1. \A xs, ys : xs \cap ys = ys \cap xs OBVIOUS
  <2> QED BY <2>1, Zenon
<1>2. /\ {hh, ll, hl, lh} \subseteq Nat
      /\ p.both \in {hh, ll, hl, lh} /\ \A x \in {hh, ll, hl, lh} : x <= p.both
      /\ p.count = Min({m, n}) /\ p.either = m + n - p.both
      /\ p.side \in {"high_vs_low", "low_vs_high"} <=> ll < p.both /\ (hl = p.both \/ lh = p.both)
  BY BestOverlap
<1>3. /\ q.both \in {hh, ll, lh, hl} /\ \A x \in {hh, ll, lh, hl} : x <= q.both
      /\ q.count = Min({n, m}) /\ q.either = n + m - q.both
      /\ q.side \in {"high_vs_low", "low_vs_high"} <=> ll < q.both /\ (lh = q.both \/ hl = q.both)
  <2> DEFINE hhB == Cardinality(b.high \cap a.high)
             llB == Cardinality(b.low \cap a.low)
             hlB == Cardinality(b.high \cap a.low)
             lhB == Cardinality(b.low \cap a.high)
  <2>1. /\ q.both \in {hhB, llB, hlB, lhB} /\ \A x \in {hhB, llB, hlB, lhB} : x <= q.both
        /\ q.count = Min({n, m}) /\ q.either = n + m - q.both
        /\ q.side \in {"high_vs_low", "low_vs_high"} <=> llB < q.both /\ (hlB = q.both \/ lhB = q.both)
    BY BestOverlap
  <2>2. hhB = hh /\ llB = ll /\ hlB = lh /\ lhB = hl BY <1>1
  <2> HIDE DEF hh, ll, hl, lh, hhB, llB, hlB, lhB, q, m, n
  <2> QED BY <2>1, <2>2
<1>4. m \in Nat /\ n \in Nat BY DEF IsStat
<1> HIDE DEF p, q, hh, ll, hl, lh, m, n
<1>5. p.both \in Nat /\ q.both \in Nat /\ p.both <= q.both /\ q.both <= p.both BY <1>2, <1>3
<1>6. p.both = q.both BY <1>5
<1>7. p.either = q.either BY <1>2, <1>3, <1>4, <1>5, <1>6
<1>8. p.count = q.count
  <2>1. {m, n} = {n, m} OBVIOUS
  <2> QED BY <1>2, <1>3, <2>1, Zenon
<1>9. p.side \in {"high_vs_low", "low_vs_high"} <=> q.side \in {"high_vs_low", "low_vs_high"} BY <1>2, <1>3, <1>6
<1> QED BY <1>6, <1>7, <1>8, <1>9 DEF p, q

LEMMA CloseMeans ==
  ASSUME NEW x, NEW y, IsFraction(x), IsFraction(y), NEW s \in Nat
  PROVE  Close(x, y, s) <=> AbsoluteValue(x.num * y.den - y.num * x.den) <= s * (x.den * y.den)
<1> DEFINE n == x.num * y.den - y.num * x.den
           d == x.den * y.den
<1>1. Minus(x, y).num = n /\ Minus(x, y).den = d BY MinusFraction
<1>2. n \in Int /\ d \in Nat BY Arithmetic DEF IsFraction
<1> HIDE DEF n, d
<1>3. AbsoluteValue(n) \in Int BY <1>2 DEF AbsoluteValue
<1>4. Close(x, y, s) <=> AbsoluteValue(n) * 1 <= s * d
  BY <1>1 DEF Close, Leq, Fraction, Whole
<1> QED BY <1>3, <1>4 DEF n, d

LEMMA CloseIsSymmetric ==
  ASSUME NEW x, NEW y, IsFraction(x), IsFraction(y), NEW s \in Nat
  PROVE  Close(x, y, s) <=> Close(y, x, s)
<1> DEFINE u == x.num * y.den
           v == y.num * x.den
<1>1. u \in Int /\ v \in Int BY Arithmetic DEF IsFraction
<1>2. x.den * y.den = y.den * x.den BY Arithmetic DEF IsFraction
<1>3. Close(x, y, s) <=> AbsoluteValue(u - v) <= s * (x.den * y.den) BY CloseMeans
<1>4. Close(y, x, s) <=> AbsoluteValue(v - u) <= s * (x.den * y.den) BY <1>2, CloseMeans
<1> HIDE DEF u, v
<1>5. AbsoluteValue(u - v) = AbsoluteValue(v - u) BY <1>1 DEF AbsoluteValue
<1> QED BY <1>3, <1>4, <1>5

\* What a fraction becomes upside down.
LEMMA Negated ==
  ASSUME NEW x, IsFraction(x)
  PROVE  LET y == Minus(Whole(0), x) IN IsFraction(y) /\ y.num = -x.num /\ y.den = x.den
<1>1. IsFraction(Whole(0)) /\ Whole(0).num = 0 /\ Whole(0).den = 1 BY DEF Whole, Fraction, IsFraction
<1>2. x.num \in Int /\ x.den \in Nat \ {0} BY DEF IsFraction
<1>3. LET y == Minus(Whole(0), x) IN IsFraction(y) /\ y.num = 0 * x.den - x.num * 1 /\ y.den = 1 * x.den
  BY <1>1, MinusFraction
<1> QED BY <1>2, <1>3

LEMMA OppositesAreSymmetric ==
  ASSUME NEW x, NEW y, IsFraction(x), IsFraction(y), NEW s \in Nat
  PROVE  Close(x, Minus(Whole(0), y), s) <=> Close(y, Minus(Whole(0), x), s)
<1> DEFINE mx == Minus(Whole(0), x)
           my == Minus(Whole(0), y)
           u == x.num * y.den
           v == y.num * x.den
<1>1. /\ IsFraction(mx) /\ mx.num = -x.num /\ mx.den = x.den
      /\ IsFraction(my) /\ my.num = -y.num /\ my.den = y.den
  BY Negated
<1> HIDE DEF mx, my
<1>2. u \in Int /\ v \in Int /\ x.den * y.den = y.den * x.den BY Arithmetic DEF IsFraction
<1>3. Close(x, my, s) <=> AbsoluteValue(x.num * y.den - (-y.num) * x.den) <= s * (x.den * y.den) BY <1>1, CloseMeans
<1>4. Close(y, mx, s) <=> AbsoluteValue(y.num * x.den - (-x.num) * y.den) <= s * (y.den * x.den) BY <1>1, CloseMeans
<1>5. (-y.num) * x.den = -v /\ (-x.num) * y.den = -u BY DEF IsFraction
<1> HIDE DEF u, v
<1>6. u - (-v) = v - (-u) BY <1>2
<1> QED BY <1>2, <1>3, <1>4, <1>5, <1>6 DEF u, v, mx, my

LEMMA TypeIsSymmetric ==
  ASSUME NEW a, NEW b, IsStat(a), IsStat(b), NEW given, given.spread \in Nat
  PROVE  RelationshipType(a, b, given) = RelationshipType(b, a, given)
<1> DEFINE p == BestTriggerOverlap(a, b)
           q == BestTriggerOverlap(b, a)
           mirrored == p.side \in {"high_vs_low", "low_vs_high"}
<1>1. /\ p.both = q.both /\ p.either = q.either /\ p.count = q.count
      /\ mirrored <=> q.side \in {"high_vs_low", "low_vs_high"}
  BY OverlapIsSymmetric
<1> HIDE DEF p, q
<1>2. /\ IsFraction(a.lowMean) /\ IsFraction(a.highMean) /\ IsFraction(a.spread)
      /\ IsFraction(b.lowMean) /\ IsFraction(b.highMean) /\ IsFraction(b.spread)
  BY DEF IsStat
<1>3. BehaviorSimilar(a, b, p, given.spread) <=> BehaviorSimilar(b, a, q, given.spread)
  <2>1. /\ Close(a.spread, b.spread, given.spread) <=> Close(b.spread, a.spread, given.spread)
        /\ Close(a.highMean, b.lowMean, given.spread) <=> Close(b.lowMean, a.highMean, given.spread)
        /\ Close(a.lowMean, b.highMean, given.spread) <=> Close(b.highMean, a.lowMean, given.spread)
    BY <1>2, CloseIsSymmetric
  <2>2. Close(a.spread, Minus(Whole(0), b.spread), given.spread) <=> Close(b.spread, Minus(Whole(0), a.spread), given.spread)
    BY <1>2, OppositesAreSymmetric
  <2>3. a.direction = b.direction => (Directed(a) <=> Directed(b)) BY DEF Directed
  <2> QED BY <1>1, <2>1, <2>2, <2>3 DEF BehaviorSimilar
<1> DEFINE trigger == p.both * given.similarity.den >= given.similarity.num * p.either
           triggerOfB == q.both * given.similarity.den >= given.similarity.num * q.either
           behavior == BehaviorSimilar(a, b, p, given.spread)
           behaviorOfB == BehaviorSimilar(b, a, q, given.spread)
           few == p.count < given.triggers
           fewOfB == q.count < given.triggers
<1>4. (trigger <=> triggerOfB) /\ (behavior <=> behaviorOfB) /\ (few <=> fewOfB)
      /\ (p.count >= given.triggers <=> q.count >= given.triggers)
  BY <1>1, <1>3
<1> HIDE DEF trigger, triggerOfB, behavior, behaviorOfB
<1>5. RelationshipType(a, b, given) =
        CASE p.count < given.triggers -> "insufficient_trigger_count"
          [] p.count >= given.triggers /\ trigger /\ behavior -> "trigger_and_behavior_similar"
          [] p.count >= given.triggers /\ trigger /\ ~behavior -> "trigger_similar"
          [] p.count >= given.triggers /\ ~trigger /\ behavior -> "behavior_similar"
          [] OTHER -> "weak_or_no_similarity"
  BY Zenon DEF RelationshipType, trigger, behavior, p
<1>6. RelationshipType(b, a, given) =
        CASE q.count < given.triggers -> "insufficient_trigger_count"
          [] q.count >= given.triggers /\ triggerOfB /\ behaviorOfB -> "trigger_and_behavior_similar"
          [] q.count >= given.triggers /\ triggerOfB /\ ~behaviorOfB -> "trigger_similar"
          [] q.count >= given.triggers /\ ~triggerOfB /\ behaviorOfB -> "behavior_similar"
          [] OTHER -> "weak_or_no_similarity"
  BY Zenon DEF RelationshipType, triggerOfB, behaviorOfB, q
<1> QED BY <1>1, <1>4, <1>5, <1>6

-----------------------------------------------------------------------------
(* A factor and its mirror image *)

\* The values of b fall where those of a rise, and no two of them are the same.
Mirror(a, b) ==
  /\ Series(a) /\ Series(b) /\ DOMAIN a = DOMAIN b
  /\ \A d, e \in DOMAIN a : (a[d] = a[e] => d = e) /\ a[d] + b[d] = a[e] + b[e]

LEMMA PositionsAreReversed ==
  ASSUME NEW a, NEW b, Mirror(a, b), NEW d \in DOMAIN a
  PROVE  Position(b, d) = Cardinality(DOMAIN a) - 1 - Position(a, d) /\ Position(a, d) \in Nat /\ Cardinality(DOMAIN a) \in Nat
<1> DEFINE days == DOMAIN a
           under == DaysUnder(a, d)
           above == DaysUnder(b, d)
<1>1. IsFiniteSet(days) /\ days = DOMAIN b /\ \A e \in days : e \in Int /\ a[e] \in Int /\ b[e] \in Int BY DEF Mirror, Series
<1>2. \A e \in days : e # d => a[e] # a[d] /\ a[e] + b[e] = a[d] + b[d] BY DEF Mirror
<1>3. \A e \in days : (e \in under <=> a[e] < a[d]) /\ (e \in above <=> a[e] > a[d])
  <2> TAKE e \in days
  <2>1. CASE e = d BY <1>1, <2>1 DEF DaysUnder
  <2>2. CASE e # d
    <3>1. a[e] \in Int /\ a[d] \in Int /\ b[e] \in Int /\ b[d] \in Int BY <1>1
    <3>2. a[e] # a[d] /\ a[e] + b[e] = a[d] + b[d] BY <1>2, <2>2
    <3>3. (b[e] < b[d] <=> a[e] > a[d]) /\ b[e] # b[d] BY <3>1, <3>2
    <3>4. e \in DOMAIN b /\ e \in DOMAIN a BY <1>1
    <3>5. e \in above <=> b[e] < b[d] BY <3>3, <3>4 DEF DaysUnder
    <3>6. e \in under <=> a[e] < a[d] BY <3>2, <3>4 DEF DaysUnder
    <3> QED BY <3>3, <3>5, <3>6
  <2> QED BY <2>1, <2>2
<1>4. under \in SUBSET days /\ above \in SUBSET days BY <1>1 DEF DaysUnder
<1> HIDE DEF under, above, days
<1>5. d \in days /\ \A e \in days : e # d => e \in under \/ e \in above
  <2>1. d \in days /\ \A e \in days : e # d => a[e] # a[d] BY <1>2 DEF days
  <2>2. \A x, y \in Int : x = y \/ x < y \/ x > y OBVIOUS
  <2> QED BY <1>1, <1>3, <2>1, <2>2
<1>6. d \notin under /\ d \notin above /\ under \cap above = {} BY <1>1, <1>3, <1>4, <1>5
<1>7. days = (under \cup {d}) \cup above BY <1>4, <1>5
<1>8. IsFiniteSet(under) /\ IsFiniteSet(above) /\ Cardinality(under) \in Nat /\ Cardinality(above) \in Nat /\ Cardinality(days) \in Nat
  BY <1>1, <1>4, FS_Subset, FS_CardinalityType
<1>9. IsFiniteSet(under \cup {d}) /\ Cardinality(under \cup {d}) = Cardinality(under) + 1 BY <1>6, <1>8, FS_AddElement
<1>10. (under \cup {d}) \cap above = {} BY <1>6
<1>11. Cardinality(days) = Cardinality(under \cup {d}) + Cardinality(above) - 0
  BY <1>7, <1>8, <1>9, <1>10, FS_Union, FS_EmptySet
<1> QED BY <1>8, <1>9, <1>11 DEF days, under, above, Position

\* The low days of the one are the high days of the other.
LEMMA SidesAreSwapped ==
  ASSUME NEW a, NEW b, Mirror(a, b), DOMAIN a # {}, NEW returns, \A d \in DOMAIN a : returns[d] \in Int,
         NEW quantile, quantile.den \in Nat, quantile.num \in 1..quantile.den
  PROVE  LET s == SignalStat(a, returns, quantile)
             r == SignalStat(b, returns, quantile)
         IN /\ IsStat(s) /\ IsStat(r) /\ r.low = s.high /\ r.high = s.low
            /\ r.lowMean = s.highMean /\ r.highMean = s.lowMean /\ (s.low = s.high => s.lowMean = s.highMean)
<1> DEFINE s == SignalStat(a, returns, quantile)
           r == SignalStat(b, returns, quantile)
           days == DOMAIN a
           n == Cardinality(days)
           t == Max({1, (n * quantile.num) \div quantile.den})
<1>1. Series(a) /\ Series(b) /\ days = DOMAIN b BY DEF Mirror
<1>2. /\ IsStat(s) /\ t \in Nat
      /\ s.low = {d \in days : Position(a, d) < t} /\ s.high = {d \in days : Position(a, d) >= n - t}
      /\ s.lowMean = MeanReturn(returns, s.low) /\ s.highMean = MeanReturn(returns, s.high)
  <2>1. DOMAIN a = days /\ DOMAIN a # {} /\ \A d \in DOMAIN a : returns[d] \in Int BY <1>1
  <2>2. \E u \in Nat : /\ u = Max({1, (Cardinality(DOMAIN a) * quantile.num) \div quantile.den})
                      /\ s.low = {d \in DOMAIN a : Position(a, d) < u}
                      /\ s.high = {d \in DOMAIN a : Position(a, d) >= Cardinality(DOMAIN a) - u}
    BY <1>1, <2>1, StatShape
  <2>3. PICK u \in Nat : /\ u = Max({1, (Cardinality(DOMAIN a) * quantile.num) \div quantile.den})
                        /\ s.low = {d \in DOMAIN a : Position(a, d) < u}
                        /\ s.high = {d \in DOMAIN a : Position(a, d) >= Cardinality(DOMAIN a) - u}
    BY <2>2
  <2>4. u = t BY <2>1, <2>3
  <2>5. IsStat(s) /\ s.lowMean = MeanReturn(returns, s.low) /\ s.highMean = MeanReturn(returns, s.high)
    BY <1>1, <2>1, StatShape
  <2> HIDE DEF t, s
  <2> QED BY <2>1, <2>3, <2>4, <2>5
<1>3. /\ IsStat(r)
      /\ r.low = {d \in days : Position(b, d) < t} /\ r.high = {d \in days : Position(b, d) >= n - t}
      /\ r.lowMean = MeanReturn(returns, r.low) /\ r.highMean = MeanReturn(returns, r.high)
  <2>1. DOMAIN b = days /\ DOMAIN b # {} /\ \A d \in DOMAIN b : returns[d] \in Int BY <1>1
  <2> HIDE DEF days, n, t, s
  <2>2. \E u \in Nat : /\ u = Max({1, (Cardinality(DOMAIN b) * quantile.num) \div quantile.den})
                      /\ r.low = {d \in DOMAIN b : Position(b, d) < u}
                      /\ r.high = {d \in DOMAIN b : Position(b, d) >= Cardinality(DOMAIN b) - u}
    BY <1>1, <2>1, StatShape
  <2>3. PICK u \in Nat : /\ u = Max({1, (Cardinality(DOMAIN b) * quantile.num) \div quantile.den})
                        /\ r.low = {d \in DOMAIN b : Position(b, d) < u}
                        /\ r.high = {d \in DOMAIN b : Position(b, d) >= Cardinality(DOMAIN b) - u}
    BY <2>2
  <2>4. u = t BY <2>1, <2>3 DEF n, t
  <2>5. IsStat(r) /\ r.lowMean = MeanReturn(returns, r.low) /\ r.highMean = MeanReturn(returns, r.high)
    BY <1>1, <2>1, StatShape
  <2> HIDE DEF r
  <2>6. Cardinality(DOMAIN b) = n BY <2>1 DEF n
  <2> QED BY <2>1, <2>3, <2>4, <2>5, <2>6
<1>4. \A d \in days : Position(b, d) = n - 1 - Position(a, d) /\ Position(a, d) \in Nat /\ n \in Nat BY PositionsAreReversed
<1> HIDE DEF s, r, t, n, days
<1>5. r.low = s.high /\ r.high = s.low
  <2>1. \A d \in days : /\ Position(b, d) < t <=> Position(a, d) >= n - t
                        /\ Position(b, d) >= n - t <=> Position(a, d) < t
    BY <1>2, <1>4
  <2>2. r.low = s.high BY <1>2, <1>3, <2>1
  <2>3. r.high = s.low BY <1>2, <1>3, <2>1
  <2> QED BY <2>2, <2>3
<1> QED BY <1>2, <1>3, <1>5 DEF s, r

LEMMA Hints ==
  ASSUME NEW x, IsFraction(x), None \notin [num : Int, den : Int], x = Fraction(x.num, x.den)
  PROVE  /\ x.num > 0 => DirectionHint(x) = "HIGH_FACTOR_OUTPERFORMS"
         /\ x.num < 0 => DirectionHint(x) = "LOW_FACTOR_OUTPERFORMS"
         /\ x.num = 0 => DirectionHint(x) = "NO_SPREAD"
<1>1. x \in [num : Int, den : Int] BY DEF IsFraction, Fraction
<1>2. x # None BY <1>1
<1>3. x.num > 0 \/ x.num < 0 \/ x.num = 0 BY DEF IsFraction
<1> QED BY <1>2, <1>3 DEF DirectionHint, IsFraction

\* So the two are found similar in every way.
LEMMA MirrorsAreSimilar ==
  ASSUME NEW a, NEW b, IsStat(a), IsStat(b), b.low = a.high, b.high = a.low, b.lowMean = a.highMean, b.highMean = a.lowMean,
         Directed(a), None \notin [num : Int, den : Int], a.low # a.high,
         NEW given, given.spread \in Nat, given.triggers \in Nat, Cardinality(a.low) >= given.triggers,
         given.similarity.den \in Nat, given.similarity.num \in 1..given.similarity.den
  PROVE  RelationshipType(a, b, given) = "trigger_and_behavior_similar"
<1> DEFINE p == BestTriggerOverlap(a, b)
           m == Cardinality(a.low)
<1>1. /\ IsFiniteSet(a.low) /\ IsFiniteSet(a.high) /\ Cardinality(a.high) = m /\ m \in Nat \ {0}
      /\ IsFraction(a.lowMean) /\ IsFraction(a.highMean) /\ IsFraction(a.spread) /\ IsFraction(b.spread)
      /\ a.spread = Minus(a.highMean, a.lowMean) /\ b.spread = Minus(a.lowMean, a.highMean)
      /\ a.direction = DirectionHint(a.spread) /\ b.direction = DirectionHint(b.spread)
  BY DEF IsStat
<1>2. a.high \cap b.low = a.high /\ a.low \cap b.low = a.low \cap a.high OBVIOUS
<1>3. Cardinality(a.low \cap b.low) \in Nat /\ Cardinality(a.low \cap b.low) < m
  <2>1. a.low \cap a.high \in SUBSET a.low /\ a.low \cap a.high \in SUBSET a.high OBVIOUS
  <2>2. Cardinality(a.low \cap a.high) \in Nat /\ Cardinality(a.low \cap a.high) <= m BY <1>1, <2>1, FS_Subset, FS_CardinalityType, FS_Intersection
  <2>3. ASSUME Cardinality(a.low \cap a.high) = m PROVE FALSE
    <3>1. a.low \cap a.high = a.low BY <1>1, <2>1, <2>3, FS_Subset
    <3>2. a.low \cap a.high = a.high BY <1>1, <2>1, <2>3, FS_Subset
    <3> QED BY <3>1, <3>2
  <2>4. Cardinality(a.low \cap b.low) = Cardinality(a.low \cap a.high) BY <1>2, Zenon
  <2> HIDE DEF m
  <2> QED BY <1>1, <2>2, <2>3, <2>4
<1>4. /\ p.both <= m /\ m <= p.both /\ p.both \in Nat /\ p.count = Min({m, m}) /\ p.either = m + m - p.both
      /\ p.side \in {"high_vs_low", "low_vs_high"}
  <2> DEFINE hh == Cardinality(a.high \cap b.high)
             ll == Cardinality(a.low \cap b.low)
             hl == Cardinality(a.high \cap b.low)
             lh == Cardinality(a.low \cap b.high)
  <2>1. Cardinality(b.low) = m BY <1>1
  <2>2. /\ {hh, ll, hl, lh} \subseteq Nat
        /\ p.both \in {hh, ll, hl, lh} /\ \A x \in {hh, ll, hl, lh} : x <= p.both
        /\ p.count = Min({m, Cardinality(b.low)}) /\ p.either = m + Cardinality(b.low) - p.both
        /\ p.both <= m
        /\ p.side \in {"high_vs_low", "low_vs_high"} <=> ll < p.both /\ (hl = p.both \/ lh = p.both)
    BY BestOverlap
  <2>3. hl = m BY <1>1, <1>2
  <2>4. ll < m BY <1>3
  <2>5. p.count = Min({m, m}) /\ p.either = m + m - p.both BY <2>1, <2>2, Zenon
  <2>6. /\ hh \in Nat /\ ll \in Nat /\ hl \in Nat /\ lh \in Nat
        /\ p.both \in {hh, ll, hl, lh} /\ hl <= p.both /\ p.both <= m
        /\ p.side \in {"high_vs_low", "low_vs_high"} <=> ll < p.both /\ (hl = p.both \/ lh = p.both)
    BY <2>2
  <2> HIDE DEF hh, ll, hl, lh, p, m
  <2>7. p.both \in Nat BY <2>6
  <2>8. p.both = m /\ ll < p.both BY <1>1, <2>3, <2>4, <2>6, <2>7
  <2> QED BY <1>1, <2>3, <2>5, <2>6, <2>7, <2>8
<1>5. p.both = m /\ p.either = m /\ p.count = m
  <2>1. Min({m, m}) = m
    <3>1. \E x \in {m, m} : \A y \in {m, m} : x <= y BY <1>1
    <3>2. Min({m, m}) \in {m, m} BY <3>1 DEF Min
    <3> QED BY <3>2
  <2> HIDE DEF p, m
  <2> QED BY <1>1, <1>4, <2>1
<1> HIDE DEF p
<1>6. p.both * given.similarity.den >= given.similarity.num * p.either
  <2> HIDE DEF m
  <2>1. \A x, y \in Nat : \A z \in Nat : y <= x => z * x >= y * z OBVIOUS
  <2>2. given.similarity.num \in Nat /\ given.similarity.num <= given.similarity.den OBVIOUS
  <2> QED BY <1>1, <1>5, <2>1, <2>2
<1>7. BehaviorSimilar(a, b, p, given.spread)
  <2> DEFINE u == a.highMean.num * a.lowMean.den
             v == a.lowMean.num * a.highMean.den
  <2>1. u \in Int /\ v \in Int BY <1>1, Arithmetic DEF IsFraction
  <2>2. a.spread.num = u - v /\ b.spread.num = v - u BY <1>1, MinusFraction
  <2>3. a.spread.den = b.spread.den BY <1>1, MinusFraction, Arithmetic DEF IsFraction
  <2> HIDE DEF u, v
  <2>4. a.spread = Fraction(a.spread.num, a.spread.den) /\ b.spread = Fraction(b.spread.num, b.spread.den)
    BY <1>1 DEF Minus, Fraction
  <2>5. a.direction # b.direction /\ Directed(b)
    <3>1. /\ a.spread.num > 0 => a.direction = "HIGH_FACTOR_OUTPERFORMS"
          /\ a.spread.num < 0 => a.direction = "LOW_FACTOR_OUTPERFORMS"
          /\ a.spread.num = 0 => a.direction = "NO_SPREAD"
      BY <1>1, <2>4, Hints
    <3>2. /\ b.spread.num > 0 => b.direction = "HIGH_FACTOR_OUTPERFORMS"
          /\ b.spread.num < 0 => b.direction = "LOW_FACTOR_OUTPERFORMS"
      BY <1>1, <2>4, Hints
    <3>3. u - v # 0 BY <2>2, <3>1 DEF Directed
    <3> QED BY <2>1, <2>2, <3>1, <3>2, <3>3 DEF Directed
  <2>6. \A x, y : IsFraction(x) /\ IsFraction(y) /\ x.num = y.num /\ x.den = y.den => Close(x, y, given.spread)
    <3> SUFFICES ASSUME NEW x, NEW y, IsFraction(x), IsFraction(y), x.num = y.num, x.den = y.den
                 PROVE  Close(x, y, given.spread)
      OBVIOUS
    <3>1. x.num * y.den - y.num * x.den = 0 /\ x.den * y.den \in Nat BY Arithmetic DEF IsFraction
    <3>2. AbsoluteValue(0) = 0 BY DEF AbsoluteValue
    <3>3. 0 <= given.spread * (x.den * y.den) BY <3>1
    <3> QED BY <3>1, <3>2, <3>3, CloseMeans
  <2>7. Close(a.spread, Minus(Whole(0), b.spread), given.spread)
    <3> DEFINE mb == Minus(Whole(0), b.spread)
    <3>1. IsFraction(mb) /\ mb.num = -b.spread.num /\ mb.den = b.spread.den BY <1>1, Negated
    <3> HIDE DEF mb
    <3>2. mb.num = a.spread.num /\ mb.den = a.spread.den BY <2>1, <2>2, <2>3, <3>1
    <3>3. Close(a.spread, mb, given.spread) BY <1>1, <2>6, <3>1, <3>2
    <3> QED BY <3>3 DEF mb
  <2>8. Close(a.highMean, b.lowMean, given.spread) /\ Close(a.lowMean, b.highMean, given.spread) BY <1>1, <2>6
  <2> QED BY <1>4, <2>5, <2>7, <2>8 DEF BehaviorSimilar
<1> DEFINE trigger == p.both * given.similarity.den >= given.similarity.num * p.either
           behavior == BehaviorSimilar(a, b, p, given.spread)
<1>8. trigger /\ behavior BY <1>6, <1>7
<1> HIDE DEF trigger, behavior
<1>9. RelationshipType(a, b, given) =
        CASE p.count < given.triggers -> "insufficient_trigger_count"
          [] p.count >= given.triggers /\ trigger /\ behavior -> "trigger_and_behavior_similar"
          [] p.count >= given.triggers /\ trigger /\ ~behavior -> "trigger_similar"
          [] p.count >= given.triggers /\ ~trigger /\ behavior -> "behavior_similar"
          [] OTHER -> "weak_or_no_similarity"
  BY Zenon DEF RelationshipType, trigger, behavior, p
<1>10. p.count >= given.triggers /\ ~(p.count < given.triggers)
  <2> HIDE DEF m
  <2>1. m >= given.triggers BY DEF m
  <2> QED BY <1>1, <1>5, <2>1
<1> QED BY <1>8, <1>9, <1>10

-----------------------------------------------------------------------------
(* The signals of an instrument *)

\* What the files of an instrument hold: series of the same days.
IsData(table, returns) ==
  LET series == {table[f] : f \in DOMAIN table} \cup {returns[n] : n \in DOMAIN returns}
  IN series \subseteq Seq(Int \cup {None}) /\ \A s, t \in series : Len(s) = Len(t)
Available(table, returns, f, n) == {d \in DOMAIN table[f] : table[f][d] # None /\ returns[n][d] # None}
Observed(table, returns, f, n) == [d \in Available(table, returns, f, n) |-> table[f][d]]

\* The days of two series of an instrument are the same.
LEMMA SeriesShape ==
  ASSUME NEW table, NEW returns, IsData(table, returns), NEW f \in DOMAIN table
  PROVE  /\ DOMAIN table[f] \subseteq Int /\ IsFiniteSet(DOMAIN table[f]) /\ \A d \in DOMAIN table[f] : table[f][d] \in Int \cup {None}
         /\ \A g \in DOMAIN table : DOMAIN table[g] = DOMAIN table[f]
         /\ \A n \in DOMAIN returns : \A d \in DOMAIN table[f] : returns[n][d] \in Int \cup {None}
<1> DEFINE series == {table[g] : g \in DOMAIN table} \cup {returns[n] : n \in DOMAIN returns}
<1>1. /\ table[f] \in series /\ \A g \in DOMAIN table : table[g] \in series
      /\ \A n \in DOMAIN returns : returns[n] \in series
  OBVIOUS
<1>2. \A s, t \in series : s \in Seq(Int \cup {None}) /\ Len(s) = Len(t) BY DEF IsData
<1> HIDE DEF series
<1>3. \A s \in series : DOMAIN s = 1..Len(table[f]) /\ \A d \in 1..Len(table[f]) : s[d] \in Int \cup {None} BY <1>1, <1>2
<1>4. Len(table[f]) \in Nat BY <1>1, <1>2
<1>5. IsFiniteSet(1..Len(table[f])) BY <1>4, FS_Interval
<1> QED BY <1>1, <1>3, <1>4, <1>5

LEMMA StatsShape ==
  ASSUME NEW table, NEW returns, IsData(table, returns), NEW quantile, quantile.den \in Nat, quantile.num \in 1..quantile.den,
         NEW f, NEW n, <<f, n>> \in DOMAIN SignalStats(table, returns, quantile)
  PROVE  LET values == Observed(table, returns, f, n)
         IN /\ f \in DOMAIN table /\ n \in DOMAIN returns /\ DOMAIN values = Available(table, returns, f, n)
            /\ Series(values) /\ DOMAIN values # {} /\ \A d \in DOMAIN values : returns[n][d] \in Int
            /\ SignalStats(table, returns, quantile)[<<f, n>>] = SignalStat(values, returns[n], quantile)
            /\ IsStat(SignalStats(table, returns, quantile)[<<f, n>>])
<1> DEFINE values == Observed(table, returns, f, n)
           keys == {k \in (DOMAIN table) \X (DOMAIN returns) : Available(table, returns, k[1], k[2]) # {}}
<1>1. SignalStats(table, returns, quantile) = [key \in keys |-> SignalStat(Observed(table, returns, key[1], key[2]), returns[key[2]], quantile)]
  BY DEF SignalStats, Available, Observed
<1>2. <<f, n>> \in keys BY <1>1
<1>3. f \in DOMAIN table /\ n \in DOMAIN returns /\ Available(table, returns, f, n) # {} BY <1>2
<1>4. SignalStats(table, returns, quantile)[<<f, n>>] = SignalStat(values, returns[n], quantile) BY <1>1, <1>2
<1>5. DOMAIN values = Available(table, returns, f, n) /\ \A d \in DOMAIN values : values[d] = table[f][d] BY DEF Observed
<1> HIDE DEF values, keys
<1>6. \A d \in Available(table, returns, f, n) : d \in DOMAIN table[f] /\ table[f][d] # None /\ returns[n][d] # None BY DEF Available
<1>7. /\ DOMAIN table[f] \subseteq Int /\ IsFiniteSet(DOMAIN table[f]) /\ \A d \in DOMAIN table[f] : table[f][d] \in Int \cup {None}
      /\ \A d \in DOMAIN table[f] : returns[n][d] \in Int \cup {None}
  BY <1>3, SeriesShape
<1>8. DOMAIN values \in SUBSET DOMAIN table[f] BY <1>5, <1>6
<1>9. IsFiniteSet(DOMAIN values) BY <1>7, <1>8, FS_Subset
<1>10. Series(values) /\ \A d \in DOMAIN values : returns[n][d] \in Int BY <1>5, <1>6, <1>7, <1>8, <1>9 DEF Series
<1>11. DOMAIN values # {} BY <1>3, <1>5
<1>12. IsStat(SignalStat(values, returns[n], quantile)) BY <1>10, <1>11, StatShape
<1> QED BY <1>3, <1>4, <1>5, <1>10, <1>11, <1>12 DEF values

LEMMA SimilaritiesShape ==
  ASSUME NEW stats, NEW given, NEW k \in DOMAIN PairSimilarities(stats, given)
  PROVE  /\ <<k[1], k[3]>> \in DOMAIN stats /\ <<k[2], k[3]>> \in DOMAIN stats
         /\ PairSimilarities(stats, given)[k].type = RelationshipType(stats[<<k[1], k[3]>>], stats[<<k[2], k[3]>>], given)
<1> DEFINE Factors(n) == {f \in ToSet(AllFactors) : <<f, n>> \in DOMAIN stats}
           keys == UNION {{<<p[1], p[2], n>> : p \in Combinations(Factors(n))} : n \in {j[2] : j \in DOMAIN stats}}
           Entry(j) == LET a == stats[<<j[1], j[3]>>]
                           b == stats[<<j[2], j[3]>>]
                           overlap == BestTriggerOverlap(a, b)
                       IN [type |-> RelationshipType(a, b, given), both |-> overlap.both, either |-> overlap.either]
<1>1. PairSimilarities(stats, given) = [j \in keys |-> Entry(j)] BY Zenon DEF PairSimilarities
<1>2. k \in keys
  <2> HIDE DEF keys, Entry
  <2> QED BY <1>1
<1>3. \E n \in {j[2] : j \in DOMAIN stats} : \E p \in Combinations(Factors(n)) : k = <<p[1], p[2], n>> BY <1>2
<1>4. PICK n \in {j[2] : j \in DOMAIN stats} : \E p \in Combinations(Factors(n)) : k = <<p[1], p[2], n>> BY <1>3
<1>5. PICK p \in Combinations(Factors(n)) : k = <<p[1], p[2], n>> BY <1>4
<1>6. p[1] \in Factors(n) /\ p[2] \in Factors(n) BY DEF Combinations
<1>7. k[1] = p[1] /\ k[2] = p[2] /\ k[3] = n BY <1>5
<1>8. <<k[1], k[3]>> \in DOMAIN stats /\ <<k[2], k[3]>> \in DOMAIN stats BY <1>6, <1>7
<1>9. PairSimilarities(stats, given)[k] = Entry(k)
  <2> HIDE DEF keys, Entry
  <2> QED BY <1>1, <1>2
<1> QED BY <1>8, <1>9

-----------------------------------------------------------------------------
(* What most instruments say *)

\* Where most trigger alike and most behave alike, one does both.
LEMMA MostHaveAWitness ==
  ASSUME NEW rows, IsFiniteSet(DOMAIN rows), NEW similarity, GlobalSignalSimilarity(rows, similarity) = "trigger_and_behavior"
  PROVE  Cardinality(DOMAIN rows) >= 2 /\ \E i \in DOMAIN rows : rows[i].type = "trigger_and_behavior_similar"
<1> DEFINE n == Cardinality(DOMAIN rows)
           T == {i \in DOMAIN rows : rows[i].type \in TriggerTypes}
           B == {i \in DOMAIN rows : rows[i].type \in BehaviorTypes}
           mostT == 100 * Cardinality(T) >= 60 * n
           mostB == 100 * Cardinality(B) >= 60 * n
           several == n >= 2
           own == \E i \in DOMAIN rows : rows[i].both * similarity.den >= similarity.num * rows[i].either
<1>1. GlobalSignalSimilarity(rows, similarity) =
        CASE ~several -> "single_instrument_only"
          [] several /\ mostT /\ mostB -> "trigger_and_behavior"
          [] several /\ mostT /\ ~mostB -> "trigger"
          [] several /\ ~mostT /\ mostB -> "behavior"
          [] OTHER -> IF own THEN "instrument_specific" ELSE "none"
  BY Zenon DEF GlobalSignalSimilarity
<1> HIDE DEF mostT, mostB, several, own
<1>2. several /\ mostT /\ mostB BY <1>1
<1>3. T \in SUBSET DOMAIN rows /\ B \in SUBSET DOMAIN rows OBVIOUS
<1>4. n \in Nat /\ Cardinality(T) \in Nat /\ Cardinality(B) \in Nat BY <1>3, FS_Subset, FS_CardinalityType
<1>5. n >= 2 /\ 100 * Cardinality(T) >= 60 * n /\ 100 * Cardinality(B) >= 60 * n BY <1>2, Zenon DEF several, mostT, mostB
<1> HIDE DEF n, T, B
<1>6. Cardinality(T) + Cardinality(B) > n BY <1>4, <1>5
<1>7. T \cap B # {} BY <1>3, <1>6, FS_MajoritiesIntersect DEF n
<1>8. PICK i \in T : i \in B BY <1>7
<1>9. i \in DOMAIN rows /\ rows[i].type \in TriggerTypes /\ rows[i].type \in BehaviorTypes BY <1>8 DEF T, B
<1>10. rows[i].type = "trigger_and_behavior_similar" BY <1>9 DEF TriggerTypes, BehaviorTypes
<1> QED BY <1>5, <1>9, <1>10 DEF n

LEMMA SummaryHasWitness ==
  ASSUME NEW all, IsFiniteSet(DOMAIN all), NEW given, NEW k \in DOMAIN CrossObjectSignals(all, given),
         CrossObjectSignals(all, given)[k].similarity = "trigger_and_behavior"
  PROVE  /\ CrossObjectSignals(all, given)[k].eligible >= 2
         /\ \E i \in DOMAIN all : k \in DOMAIN all[i] /\ all[i][k].type = "trigger_and_behavior_similar"
<1> DEFINE Eligible(key) == {i \in DOMAIN all : key \in DOMAIN all[i] /\ all[i][key].type # "insufficient_trigger_count"}
           Similar(key, types) == {i \in Eligible(key) : all[i][key].type \in types}
           keys == {key \in UNION {DOMAIN s : s \in ToSet(all)} : Eligible(key) # {}}
           rows == [i \in Eligible(k) |-> all[i][k]]
           Entry(key) == [eligible |-> Cardinality(Eligible(key)),
                          trigger |-> Cardinality(Similar(key, TriggerTypes)),
                          behavior |-> Cardinality(Similar(key, BehaviorTypes)),
                          similarity |-> GlobalSignalSimilarity([i \in Eligible(key) |-> all[i][key]], given.similarity)]
<1>1. CrossObjectSignals(all, given) = [key \in keys |-> Entry(key)] BY Zenon DEF CrossObjectSignals
<1>2. CrossObjectSignals(all, given)[k] = Entry(k)
  <2> HIDE DEF keys, Entry
  <2> QED BY <1>1
<1>3. CrossObjectSignals(all, given)[k].eligible = Cardinality(Eligible(k))
      /\ GlobalSignalSimilarity(rows, given.similarity) = "trigger_and_behavior"
  BY <1>2
<1>4. DOMAIN rows = Eligible(k) /\ Eligible(k) \in SUBSET DOMAIN all OBVIOUS
<1>5. IsFiniteSet(DOMAIN rows) BY <1>4, FS_Subset
<1>6. \A i \in DOMAIN rows : i \in DOMAIN all /\ k \in DOMAIN all[i] /\ rows[i] = all[i][k] OBVIOUS
<1> HIDE DEF rows, Eligible
<1>7. Cardinality(DOMAIN rows) >= 2 /\ \E i \in DOMAIN rows : rows[i].type = "trigger_and_behavior_similar"
  BY <1>3, <1>5, MostHaveAWitness
<1> QED BY <1>3, <1>4, <1>6, <1>7

-----------------------------------------------------------------------------
(* What the files of the reviews hold *)

InputsGiven == \E case \in Cases : instruments = case.instruments /\ settings = case.settings

\* The decisions of an instrument are made of its own table, ...
DecidedOK ==
  \A i \in Decided :
    /\ Written(Of("redundancy", instruments[i].id, "factor-pair-relationships.json"))
    /\ Pairs(i) = Relationships(TableOf(i), settings)
    /\ Decisions(i) = RetentionDecisions(Columns(TableOf(i)), Relationships(TableOf(i), settings))

\* ... its similarities of its own table and returns, ...
ComparedOK ==
  \A i \in Compared :
    /\ Written(Of("signal", instruments[i].id, "factor-pair-signal-similarity.json"))
    /\ Stats(i) = SignalStats(instruments[i].table, instruments[i].returns, settings.quantile)
    /\ Similarities(i) = PairSimilarities(Stats(i), settings)

\* ... what a signal review remembers of the instruments behind it is in their files, ...
ResultsCompared ==
  pc \in {"instrument", "report"} /\ Kind = "signal" =>
    \A j \in DOMAIN results : j \in Compared /\ results[j] = Similarities(j)

\* ... and the summary is that of all of them.
SignalSummary == Top("signal", "cross-object-signal-similarity-summary.json")
SummaryOK ==
  Written(SignalSummary) =>
    /\ DOMAIN instruments \subseteq Compared
    /\ files[SignalSummary] = CrossObjectSignals([i \in DOMAIN instruments |-> Similarities(i)], settings)

ReviewInv == InputsGiven /\ DecidedOK /\ ComparedOK /\ ResultsCompared /\ SummaryOK

\* A file of an instrument stays what it is.
LEMMA FileStays ==
  ASSUME TreeKept, UNCHANGED Input, NEW kind, NEW i, NEW name, name # EventsName,
         Written(Of(kind, instruments[i].id, name))
  PROVE  /\ Written(Of(kind, instruments[i].id, name))'
         /\ files'[Of(kind, instruments[i].id, name)'] = files[Of(kind, instruments[i].id, name)]
<1>1. Of(kind, instruments[i].id, name)[3] = name BY Paths
<1>2. instruments' = instruments BY DEF Input
<1>3. Of(kind, instruments[i].id, name)' = Of(kind, instruments[i].id, name) BY <1>2
<1> QED BY <1>1, <1>3 DEF TreeKept, Written

LEMMA ReviewedStays ==
  ASSUME TreeKept, UNCHANGED Input, NEW kind, NEW name, name # EventsName
  PROVE  /\ Reviewed(kind, name) \subseteq Reviewed(kind, name)'
         /\ (\A p \in DOMAIN files' : p[1] = kind /\ p[3] = name => p \in DOMAIN files) =>
              Reviewed(kind, name)' = Reviewed(kind, name)
<1>1. instruments' = instruments BY DEF Input
<1>2. \A i : ListedBefore(i)' <=> ListedBefore(i) BY <1>1 DEF ListedBefore
<1>3. Reviewed(kind, name) \subseteq Reviewed(kind, name)' BY <1>1, <1>2, FileStays DEF Reviewed
<1>4. ASSUME \A p \in DOMAIN files' : p[1] = kind /\ p[3] = name => p \in DOMAIN files
      PROVE  Reviewed(kind, name)' \subseteq Reviewed(kind, name)
  BY <1>1, <1>2, <1>4, Paths DEF Reviewed, Written
<1> QED BY <1>3, <1>4

LEMMA DecidedStays ==
  ASSUME TreeKept, UNCHANGED Input, DecidedOK, NEW i \in Decided
  PROVE  /\ Written(Of("redundancy", instruments[i].id, "factor-pair-relationships.json"))'
         /\ Pairs(i)' = Relationships(TableOf(i), settings)'
         /\ Decisions(i)' = RetentionDecisions(Columns(TableOf(i)), Relationships(TableOf(i), settings))'
<1>1. instruments' = instruments /\ settings' = settings BY DEF Input
<1>2. /\ Written(Of("redundancy", instruments[i].id, "factor-pair-relationships.json"))
      /\ Pairs(i) = Relationships(TableOf(i), settings)
      /\ Decisions(i) = RetentionDecisions(Columns(TableOf(i)), Relationships(TableOf(i), settings))
      /\ Written(Of("redundancy", instruments[i].id, "factor-retention-decisions.json"))
  BY DEF DecidedOK, Decided, Reviewed
<1>3. Pairs(i)' = Pairs(i) /\ Written(Of("redundancy", instruments[i].id, "factor-pair-relationships.json"))'
  BY <1>2, FileStays DEF Pairs, EventsName
<1>4. Decisions(i)' = Decisions(i) BY <1>2, FileStays DEF Decisions, EventsName
<1>5. TableOf(i)' = TableOf(i) BY <1>1 DEF TableOf
<1> QED BY <1>1, <1>2, <1>3, <1>4, <1>5

LEMMA DecidedKept ==
  ASSUME TreeKept, UNCHANGED Input, DecidedOK,
         \A p \in DOMAIN files' : p[1] = "redundancy" /\ p[3] = "factor-retention-decisions.json" => p \in DOMAIN files
  PROVE  DecidedOK'
<1>1. Decided' = Decided BY ReviewedStays DEF Decided, EventsName
<1> QED BY <1>1, DecidedStays DEF DecidedOK

LEMMA ComparedStays ==
  ASSUME TreeKept, UNCHANGED Input, ComparedOK, NEW i \in Compared
  PROVE  /\ Written(Of("signal", instruments[i].id, "factor-pair-signal-similarity.json"))'
         /\ Stats(i)' = SignalStats(instruments[i].table, instruments[i].returns, settings.quantile)'
         /\ Similarities(i)' = Similarities(i) /\ Similarities(i)' = PairSimilarities(Stats(i), settings)'
         /\ i \in Compared'
<1>1. instruments' = instruments /\ settings' = settings BY DEF Input
<1>2. /\ Written(Of("signal", instruments[i].id, "factor-pair-signal-similarity.json"))
      /\ Stats(i) = SignalStats(instruments[i].table, instruments[i].returns, settings.quantile)
      /\ Similarities(i) = PairSimilarities(Stats(i), settings)
      /\ Written(Of("signal", instruments[i].id, "factor-signal-stats.json"))
  BY DEF ComparedOK, Compared, Reviewed
<1>3. Similarities(i)' = Similarities(i) /\ Written(Of("signal", instruments[i].id, "factor-pair-signal-similarity.json"))'
  BY <1>2, FileStays DEF Similarities, EventsName
<1>4. Stats(i)' = Stats(i)
  <2>1. "factor-signal-stats.json" # EventsName BY DEF EventsName
  <2> QED BY <1>2, <2>1, FileStays DEF Stats
<1>5. i \in Compared' BY ReviewedStays DEF Compared, EventsName
<1> QED BY <1>1, <1>2, <1>3, <1>4, <1>5

LEMMA ComparedKept ==
  ASSUME TreeKept, UNCHANGED Input, ComparedOK,
         \A p \in DOMAIN files' : p[1] = "signal" /\ p[3] = "factor-signal-stats.json" => p \in DOMAIN files
  PROVE  ComparedOK'
<1>1. Compared' = Compared BY ReviewedStays DEF Compared, EventsName
<1> QED BY <1>1, ComparedStays DEF ComparedOK

LEMMA SummaryKept ==
  ASSUME TreeKept, UNCHANGED Input, ComparedOK, SummaryOK, Written(SignalSummary)' => Written(SignalSummary)
  PROVE  SummaryOK'
<1> SUFFICES ASSUME Written(SignalSummary), Written(SignalSummary)' PROVE SummaryOK' BY DEF SummaryOK
<1>1. instruments' = instruments /\ settings' = settings BY DEF Input
<1>2. /\ DOMAIN instruments \subseteq Compared
      /\ files[SignalSummary] = CrossObjectSignals([i \in DOMAIN instruments |-> Similarities(i)], settings)
  BY DEF SummaryOK
<1>3. \A i \in DOMAIN instruments : Similarities(i)' = Similarities(i) /\ i \in Compared' BY <1>2, ComparedStays
<1>4. files'[SignalSummary] = files[SignalSummary]
  <2>1. SignalSummary[3] # EventsName BY DEF SignalSummary, Top, EventsName
  <2> QED BY <2>1 DEF TreeKept, Written
<1>5. [i \in DOMAIN instruments |-> Similarities(i)]' = [i \in DOMAIN instruments |-> Similarities(i)] BY <1>1, <1>3
<1>6. SignalSummary' = SignalSummary BY DEF SignalSummary, Top
<1> QED BY <1>1, <1>2, <1>3, <1>4, <1>5, <1>6 DEF SummaryOK

\* The names that the steps below are about.
Watched == {"factor-retention-decisions.json", "factor-signal-stats.json", "cross-object-signal-similarity-summary.json"}

LEMMA QuietKeeps ==
  ASSUME ReviewInv, TreeKept, UNCHANGED Input,
         \A p \in DOMAIN files' : p[3] \in Watched => p \in DOMAIN files,
         ResultsCompared'
  PROVE  ReviewInv'
<1>1. InputsGiven' BY DEF ReviewInv, InputsGiven, Input
<1>2. DecidedOK' /\ ComparedOK' BY DecidedKept, ComparedKept DEF ReviewInv, Watched
<1>3. SummaryOK'
  <2>1. SignalSummary[3] \in Watched BY DEF SignalSummary, Top, Watched
  <2>2. SignalSummary' = SignalSummary BY DEF SignalSummary, Top
  <2> QED BY <2>1, <2>2, SummaryKept DEF ReviewInv, Written
<1> QED BY <1>1, <1>2, <1>3 DEF ReviewInv

LEMMA OtherWrites ==
  ASSUME NEW contents, NEW events, Write(contents, events), \A p \in DOMAIN contents : p[3] \notin Watched
  PROVE  \A p \in DOMAIN files' : p[3] \in Watched => p \in DOMAIN files
<1>1. DOMAIN files' = DOMAIN files \cup DOMAIN contents \cup {Events(Kind)} BY WriteShape
<1>2. Events(Kind)[3] \notin Watched BY Paths DEF EventsName, Watched
<1> QED BY <1>1, <1>2

LEMMA QuietSteps ==
  ASSUME IInv, ReviewInv, TreeKept, Start \/ BuildSourceManifest \/ LoadRows \/ WriteReport \/ NoteArtifacts \/ CompleteReview
                                      \/ ReviewArtifacts \/ Crash
  PROVE  ReviewInv'
<1>1. UNCHANGED Input
  BY DEF Start, BuildSourceManifest, LoadRows, WriteReport, NoteArtifacts, CompleteReview, ReviewArtifacts, Crash
<1>2. \A p \in DOMAIN files' : p[3] \in Watched => p \in DOMAIN files
  <2>1. CASE UNCHANGED files BY <2>1
  <2>2. \A contents, event : (\A p \in DOMAIN contents : p[3] \notin Watched) /\ Write(contents, event)
          => \A p \in DOMAIN files' : p[3] \in Watched => p \in DOMAIN files
    BY OtherWrites
  <2>3. \A path, content : DOMAIN OneFile(path, content) = {path} BY FileShape
  <2>4. /\ Top(Kind, "review-config.json")[3] \notin Watched /\ Top(Kind, "source-data-manifest.json")[3] \notin Watched
        /\ Top(Kind, "report.md")[3] \notin Watched
    BY Paths DEF Watched
  <2> DEFINE NoneNew == \A p \in DOMAIN files' : p[3] \in Watched => p \in DOMAIN files
  <2>10. \A path, content, event : path[3] \notin Watched /\ Write(OneFile(path, content), event) => NoneNew
    <3> TAKE path, content, event
    <3> DEFINE contents == OneFile(path, content)
    <3>1. DOMAIN contents = {path} BY <2>3
    <3> HIDE DEF contents
    <3> SUFFICES ASSUME path[3] \notin Watched, Write(contents, event) PROVE NoneNew BY DEF contents
    <3>2. \A p \in DOMAIN contents : p[3] \notin Watched BY <3>1
    <3> QED BY <2>2, <3>2 DEF NoneNew
  <2> HIDE DEF NoneNew
  <2>5. CASE Start
    <3>1. \/ UNCHANGED files
          \/ Write(OneFile(Top(Kind, "review-config.json"), [id |-> turn, settings |-> settings]), <<"review_started">>)
      BY <2>5, Zenon DEF Start
    <3> QED BY <2>1, <2>4, <2>10, <3>1 DEF NoneNew
  <2>6. CASE BuildSourceManifest
    <3>1. \/ UNCHANGED files
          \/ Write(OneFile(Top(Kind, "source-data-manifest.json"), [i \in DOMAIN instruments |-> instruments[i].id]),
                   <<"source_manifest_completed">>)
      BY <2>6, Zenon DEF BuildSourceManifest
    <3> QED BY <2>1, <2>4, <2>10, <3>1 DEF NoneNew
  <2>7. CASE LoadRows
    <3>1. DOMAIN <<>> = {} OBVIOUS
    <3> QED BY <2>1, <2>2, <2>7, <3>1 DEF LoadRows
  <2>8. CASE WriteReport
    <3>1. Write(OneFile(Top(Kind, "report.md"), "isolated"), <<>>) BY <2>8, Zenon DEF WriteReport
    <3> QED BY <2>4, <2>10, <3>1 DEF NoneNew
  <2>9. CASE ReviewArtifacts \/ Crash BY <2>1, <2>9 DEF ReviewArtifacts, Crash
  <2>11. CASE NoteArtifacts \/ CompleteReview
    <3>1. DOMAIN <<>> = {} /\ \E events : Write(<<>>, events) BY <2>11 DEF NoteArtifacts, CompleteReview
    <3> QED BY <2>2, <3>1
  <2> QED BY <2>5, <2>6, <2>7, <2>8, <2>9, <2>11 DEF NoneNew
<1>3. ResultsCompared'
  <2>1. CASE pc' \notin {"instrument", "report"} BY <2>1 DEF ResultsCompared
  <2>2. CASE pc' \in {"instrument", "report"}
    <3>1. LoadRows /\ UNCHANGED results
      BY <2>2 DEF Start, BuildSourceManifest, LoadRows, WriteReport, NoteArtifacts, CompleteReview, ReviewArtifacts, Crash,
                  EndProcess
    <3>2. results \in Seq({results[i] : i \in DOMAIN results}) /\ Len(results) = 0
      <4>1. item = 1 /\ results \in Seq({results[i] : i \in DOMAIN results}) /\ Len(results) = item - 1
        BY <3>1 DEF LoadRows, IInv, ProcessOK
      <4> DEFINE R == {results[i] : i \in DOMAIN results}
      <4> HIDE DEF R
      <4> QED BY <4>1
    <3>3. DOMAIN results = {}
      <4> DEFINE R == {results[i] : i \in DOMAIN results}
      <4>1. results \in Seq(R) BY <3>2
      <4> HIDE DEF R
      <4> QED BY <3>2, <4>1
    <3> QED BY <3>1, <3>3 DEF ResultsCompared
  <2> QED BY <2>1, <2>2
<1> QED BY <1>1, <1>2, <1>3, QuietKeeps

LEMMA IdsAreApart ==
  ASSUME InputOK, NEW i \in DOMAIN instruments, NEW j \in DOMAIN instruments, ~ListedBefore(i), ~ListedBefore(j),
         instruments[i].id = instruments[j].id
  PROVE  i = j
<1>1. i \in Nat /\ j \in Nat /\ i >= 1 /\ j >= 1 BY DEF InputOK
<1>2. ~(i < j) BY <1>1 DEF ListedBefore
<1>3. ~(j < i) BY <1>1 DEF ListedBefore
<1> QED BY <1>1, <1>2, <1>3

LEMMA DecideStep == ASSUME IInv, ReviewInv, TreeKept, ReviewOneInstrument PROVE ReviewInv'
<1> DEFINE id == instruments[item].id
           relationships == Relationships(TableOf(item), settings)
           decisions == RetentionDecisions(Columns(TableOf(item)), relationships)
           matrixPath == Of(Kind, id, "factor-correlation-matrix.csv")
           pairsPath == Of(Kind, id, "factor-pair-relationships.json")
           decisionsPath == Of(Kind, id, "factor-retention-decisions.json")
           matrix == OneFile(matrixPath, Columns(TableOf(item)))
           pairs == OneFile(pairsPath, Scoped(id, relationships))
           decided == OneFile(decisionsPath, Scoped(id, decisions))
           contents == WrittenOver(matrix, WrittenOver(pairs, decided))
<1>0. pc = "instrument" /\ Kind = "redundancy" /\ item <= Len(instruments) /\ UNCHANGED Input BY DEF ReviewOneInstrument
<1>1. CASE ListedBefore(item)
  <2>1. EndProcess("error") /\ UNCHANGED files BY <1>1 DEF ReviewOneInstrument
  <2>2. ResultsCompared' BY <2>1 DEF EndProcess, ResultsCompared
  <2> QED BY <1>0, <2>1, <2>2, QuietKeeps
<1>2. CASE ~ListedBefore(item)
  <2>1. Write(contents, <<>>) /\ UNCHANGED <<Input, turn, pc>> BY <1>2 DEF ReviewOneInstrument
  <2> HIDE DEF relationships, decisions
  <2>2. /\ DOMAIN matrix = {matrixPath} /\ DOMAIN pairs = {pairsPath} /\ DOMAIN decided = {decisionsPath}
        /\ pairs[pairsPath] = Scoped(id, relationships) /\ decided[decisionsPath] = Scoped(id, decisions)
    BY FileShape
  <2>3. \A rows : Scoped(id, rows).rows = rows BY DEF Scoped
  <2> HIDE DEF matrix, pairs, decided
  <2>4. /\ DOMAIN contents = {matrixPath, pairsPath, decisionsPath}
        /\ pairsPath # matrixPath => contents[pairsPath] = pairs[pairsPath]
        /\ decisionsPath # matrixPath /\ decisionsPath # pairsPath => contents[decisionsPath] = decided[decisionsPath]
    BY <2>2 DEF WrittenOver
  <2>5. /\ matrixPath[1] = "redundancy" /\ pairsPath[1] = "redundancy" /\ decisionsPath[1] = "redundancy"
        /\ matrixPath[2] = id /\ pairsPath[2] = id /\ decisionsPath[2] = id
        /\ matrixPath[3] = "factor-correlation-matrix.csv" /\ pairsPath[3] = "factor-pair-relationships.json"
        /\ decisionsPath[3] = "factor-retention-decisions.json"
        /\ Events(Kind)[3] = EventsName /\ Events(Kind)[1] = "redundancy"
    BY <1>0, Paths
  <2>6. /\ DOMAIN files' = DOMAIN files \cup DOMAIN contents \cup {Events(Kind)}
        /\ \A p \in DOMAIN contents : p # Events(Kind) => files'[p] = contents[p]
    BY <2>1, WriteShape
  <2> HIDE DEF contents
  <2>7. /\ pairsPath \in DOMAIN files' /\ decisionsPath \in DOMAIN files'
        /\ files'[pairsPath] = Scoped(id, relationships) /\ files'[decisionsPath] = Scoped(id, decisions)
    <3>1. pairsPath # matrixPath /\ decisionsPath # matrixPath /\ decisionsPath # pairsPath BY <2>5
    <3>2. pairsPath # Events(Kind) /\ decisionsPath # Events(Kind) BY <2>5 DEF EventsName
    <3> HIDE DEF matrixPath, pairsPath, decisionsPath
    <3> QED BY <2>2, <2>4, <2>6, <3>1, <3>2
  <2> HIDE DEF matrixPath, pairsPath, decisionsPath
  <2>8. \A p \in DOMAIN files' \ DOMAIN files : p[1] = "redundancy" /\ p[3] \notin {"factor-signal-stats.json", SignalSummary[3]}
    <3>1. SignalSummary[3] = "cross-object-signal-similarity-summary.json" BY DEF SignalSummary, Top
    <3> QED BY <2>4, <2>5, <2>6, <3>1 DEF EventsName
  <2>9. ComparedOK' BY <1>0, <2>8, ComparedKept DEF ReviewInv
  <2>10. SummaryOK'
    <3>1. SignalSummary' = SignalSummary /\ SignalSummary[1] = "signal" BY DEF SignalSummary, Top
    <3>2. Written(SignalSummary)' => Written(SignalSummary) BY <2>8, <3>1 DEF Written
    <3> QED BY <1>0, <3>2, SummaryKept DEF ReviewInv
  <2>11. ResultsCompared' BY <1>0, <2>1 DEF ResultsCompared, Kind, Input
  <2>12. InputsGiven' BY <1>0 DEF ReviewInv, InputsGiven, Input
  <2>13. ASSUME NEW i \in Decided'
         PROVE  /\ Written(Of("redundancy", instruments[i].id, "factor-pair-relationships.json"))'
                /\ Pairs(i)' = Relationships(TableOf(i), settings)'
                /\ Decisions(i)' = RetentionDecisions(Columns(TableOf(i)), Relationships(TableOf(i), settings))'
    <3>1. instruments' = instruments /\ settings' = settings BY <1>0 DEF Input
    <3>2. CASE i \in Decided BY <1>0, <3>2, DecidedStays DEF ReviewInv
    <3>3. CASE i \notin Decided
      <4>1. i \in DOMAIN instruments /\ ~ListedBefore(i)
            /\ Of("redundancy", instruments[i].id, "factor-retention-decisions.json") \in DOMAIN files'
        BY <3>1 DEF Decided, Reviewed, ListedBefore, Written
      <4>2. Of("redundancy", instruments[i].id, "factor-retention-decisions.json") \notin DOMAIN files
        BY <3>3, <4>1 DEF Decided, Reviewed, Written
      <4>3. instruments[i].id = id
        <5> DEFINE own == Of("redundancy", instruments[i].id, "factor-retention-decisions.json")
        <5>1. own[2] = instruments[i].id /\ own[3] = "factor-retention-decisions.json" BY Paths
        <5> HIDE DEF own
        <5>2. own \in {matrixPath, pairsPath, decisionsPath} \/ own = Events(Kind) BY <2>4, <2>6, <4>1, <4>2 DEF own
        <5>3. own # Events(Kind) BY <2>5, <5>1 DEF EventsName
        <5> QED BY <2>5, <5>1, <5>2, <5>3
      <4>4. item \in DOMAIN instruments BY <1>0 DEF IInv, InputOK, ProcessOK
      <4>5. i = item BY <1>2, <4>1, <4>3, <4>4, IdsAreApart DEF IInv
      <4>6. pairsPath = Of("redundancy", instruments[i].id, "factor-pair-relationships.json")
            /\ decisionsPath = Of("redundancy", instruments[i].id, "factor-retention-decisions.json")
        BY <1>0, <4>5 DEF pairsPath, decisionsPath
      <4>7. Written(Of("redundancy", instruments[i].id, "factor-pair-relationships.json"))'
        BY <2>7, <3>1, <4>6 DEF Written
      <4>8. Pairs(i)' = relationships /\ Decisions(i)' = decisions
        BY <2>3, <2>7, <3>1, <4>6 DEF Pairs, Decisions
      <4>9. TableOf(i)' = TableOf(item) BY <3>1, <4>5 DEF TableOf
      <4> QED BY <3>1, <4>7, <4>8, <4>9 DEF relationships, decisions
    <3> QED BY <3>2, <3>3
  <2>14. DecidedOK' BY <2>13 DEF DecidedOK
  <2> QED BY <2>9, <2>10, <2>11, <2>12, <2>14 DEF ReviewInv
<1> QED BY <1>1, <1>2

LEMMA CompareStep == ASSUME IInv, ReviewInv, TreeKept, CompareSignals PROVE ReviewInv'
<1> DEFINE id == instruments[item].id
           stats == SignalStats(instruments[item].table, instruments[item].returns, settings.quantile)
           similarities == PairSimilarities(stats, settings)
           statsPath == Of(Kind, id, "factor-signal-stats.json")
           similarPath == Of(Kind, id, "factor-pair-signal-similarity.json")
           first == OneFile(statsPath, stats)
           second == OneFile(similarPath, similarities)
           contents == WrittenOver(first, second)
<1>0. pc = "instrument" /\ Kind = "signal" /\ item <= Len(instruments) /\ UNCHANGED Input BY DEF CompareSignals
<1>1. CASE ListedBefore(item)
  <2>1. EndProcess("error") /\ UNCHANGED files BY <1>1 DEF CompareSignals
  <2>2. ResultsCompared' BY <2>1 DEF EndProcess, ResultsCompared
  <2> QED BY <1>0, <2>1, <2>2, QuietKeeps
<1>2. CASE ~ListedBefore(item)
  <2>1. Write(contents, <<>>) /\ UNCHANGED <<Input, turn, pc>> /\ results' = Append(results, similarities)
    BY <1>2 DEF CompareSignals
  <2> HIDE DEF stats, similarities
  <2>2. /\ DOMAIN first = {statsPath} /\ DOMAIN second = {similarPath}
        /\ first[statsPath] = stats /\ second[similarPath] = similarities
    BY FileShape
  <2> HIDE DEF first, second
  <2>4. /\ DOMAIN contents = {statsPath, similarPath} /\ contents[statsPath] = first[statsPath]
        /\ similarPath # statsPath => contents[similarPath] = second[similarPath]
    BY <2>2 DEF WrittenOver
  <2>5. /\ statsPath[1] = "signal" /\ similarPath[1] = "signal" /\ statsPath[2] = id /\ similarPath[2] = id
        /\ statsPath[3] = "factor-signal-stats.json" /\ similarPath[3] = "factor-pair-signal-similarity.json"
        /\ Events(Kind)[3] = EventsName /\ Events(Kind)[1] = "signal"
    BY <1>0, Paths
  <2>6. /\ DOMAIN files' = DOMAIN files \cup DOMAIN contents \cup {Events(Kind)}
        /\ \A p \in DOMAIN contents : p # Events(Kind) => files'[p] = contents[p]
    BY <2>1, WriteShape
  <2> HIDE DEF contents
  <2>7. /\ statsPath \in DOMAIN files' /\ similarPath \in DOMAIN files'
        /\ files'[statsPath] = stats /\ files'[similarPath] = similarities
    <3>1. similarPath # statsPath BY <2>5
    <3>2. statsPath # Events(Kind) /\ similarPath # Events(Kind) BY <2>5 DEF EventsName
    <3> HIDE DEF statsPath, similarPath
    <3> QED BY <2>2, <2>4, <2>6, <3>1, <3>2
  <2> HIDE DEF statsPath, similarPath
  <2>8. \A p \in DOMAIN files' \ DOMAIN files : p[1] = "signal" /\ p[3] \notin {"factor-retention-decisions.json", SignalSummary[3]}
    <3>1. SignalSummary[3] = "cross-object-signal-similarity-summary.json" BY DEF SignalSummary, Top
    <3> QED BY <2>4, <2>5, <2>6, <3>1 DEF EventsName
  <2>9. DecidedOK' BY <1>0, <2>8, DecidedKept DEF ReviewInv
  <2>10. SummaryOK'
    <3>1. SignalSummary' = SignalSummary BY DEF SignalSummary, Top
    <3>2. Written(SignalSummary)' => Written(SignalSummary) BY <2>8, <3>1 DEF Written
    <3> QED BY <1>0, <3>2, SummaryKept DEF ReviewInv
  <2>11. InputsGiven' BY <1>0 DEF ReviewInv, InputsGiven, Input
  <2>12. instruments' = instruments /\ settings' = settings BY <1>0 DEF Input
  <2>13. item \in DOMAIN instruments BY <1>0 DEF IInv, InputOK, ProcessOK
  <2>14. PICK me \in DOMAIN instruments : me = item BY <2>13
  <2>15. /\ me \in Compared' /\ Stats(me)' = stats /\ Similarities(me)' = similarities
         /\ Written(Of("signal", instruments[me].id, "factor-pair-signal-similarity.json"))'
    <3>1. statsPath = Of("signal", instruments[me].id, "factor-signal-stats.json")
          /\ similarPath = Of("signal", instruments[me].id, "factor-pair-signal-similarity.json")
      BY <1>0, <2>14 DEF statsPath, similarPath
    <3>2. ~ListedBefore(me)' BY <1>2, <2>12, <2>14 DEF ListedBefore
    <3>3. Stats(me)' = stats /\ Similarities(me)' = similarities BY <2>7, <2>12, <3>1 DEF Stats, Similarities
    <3>4. me \in Compared' BY <2>7, <2>12, <3>1, <3>2 DEF Compared, Reviewed, Written
    <3>5. Written(Of("signal", instruments[me].id, "factor-pair-signal-similarity.json"))' BY <2>7, <2>12, <3>1 DEF Written
    <3> QED BY <3>3, <3>4, <3>5
  <2>16. ASSUME NEW i \in Compared', i \notin Compared PROVE i = me
    <3>1. i \in DOMAIN instruments /\ ~ListedBefore(i)
          /\ Of("signal", instruments[i].id, "factor-signal-stats.json") \in DOMAIN files'
      BY <2>12 DEF Compared, Reviewed, ListedBefore, Written
    <3>2. Of("signal", instruments[i].id, "factor-signal-stats.json") \notin DOMAIN files
      BY <2>16, <3>1 DEF Compared, Reviewed, Written
    <3>3. instruments[i].id = id
      <4> DEFINE own == Of("signal", instruments[i].id, "factor-signal-stats.json")
      <4>1. own[2] = instruments[i].id /\ own[3] = "factor-signal-stats.json" BY Paths
      <4> HIDE DEF own
      <4>2. own \in {statsPath, similarPath} \/ own = Events(Kind) BY <2>4, <2>6, <3>1, <3>2 DEF own
      <4>3. own # Events(Kind) BY <2>5, <4>1 DEF EventsName
      <4> QED BY <2>5, <4>1, <4>2, <4>3
    <3> QED BY <1>2, <2>14, <3>1, <3>3, IdsAreApart DEF IInv
  <2>17. ComparedOK'
    <3> SUFFICES ASSUME NEW i \in Compared'
                 PROVE  /\ Written(Of("signal", instruments[i].id, "factor-pair-signal-similarity.json"))'
                        /\ Stats(i)' = SignalStats(instruments[i].table, instruments[i].returns, settings.quantile)'
                        /\ Similarities(i)' = PairSimilarities(Stats(i), settings)'
      BY DEF ComparedOK
    <3>1. CASE i \in Compared BY <1>0, <3>1, ComparedStays DEF ReviewInv
    <3>2. CASE i = me
      <4>1. stats = SignalStats(instruments'[i].table, instruments'[i].returns, settings'.quantile)
            /\ similarities = PairSimilarities(stats, settings')
        BY <2>12, <2>14, <3>2 DEF stats, similarities
      <4> QED BY <2>15, <3>2, <4>1
    <3> QED BY <2>16, <3>1, <3>2
  <2>18. ResultsCompared'
    <3>1. results \in Seq({results[i] : i \in DOMAIN results}) /\ Len(results) = item - 1 /\ item \in Nat \ {0}
      BY DEF IInv, ProcessOK
    <3> SUFFICES ASSUME NEW j \in DOMAIN results' PROVE j \in Compared' /\ results'[j] = Similarities(j)'
      BY DEF ResultsCompared
    <3>2. \/ j \in DOMAIN results /\ results'[j] = results[j]
          \/ j = me /\ results'[j] = similarities
      <4> DEFINE R == {results[i] : i \in DOMAIN results}
      <4>1. results \in Seq(R) BY <3>1
      <4> HIDE DEF R
      <4> QED BY <2>1, <2>14, <3>1, <4>1
    <3>3. CASE j \in DOMAIN results /\ results'[j] = results[j]
      <4>1. j \in Compared /\ results[j] = Similarities(j) BY <1>0, <3>3 DEF ReviewInv, ResultsCompared
      <4> QED BY <1>0, <3>3, <4>1, ComparedStays DEF ReviewInv
    <3>4. CASE j = me /\ results'[j] = similarities BY <2>15, <3>4
    <3> QED BY <3>2, <3>3, <3>4
  <2> QED BY <2>9, <2>10, <2>11, <2>17, <2>18 DEF ReviewInv
<1> QED BY <1>1, <1>2

LEMMA SummaryStep == ASSUME IInv, ReviewInv, TreeKept, Summarize PROVE ReviewInv'
<1>0. pc = "instrument" /\ pc \in Phases /\ item > Len(instruments) /\ UNCHANGED <<Input, turn, item, results>> /\ pc' = "report"
  BY DEF Summarize, Phases
<1>1. Kind \in {"redundancy", "signal"} /\ Len(instruments) \in Nat BY <1>0, Running
<1>2. instruments' = instruments /\ settings' = settings /\ Kind' = Kind BY <1>0 DEF Input, Kind
<1>3. CASE Kind = "redundancy"
  <2> DEFINE summary == CrossObjectSummary(results, settings)
             pooled == PooledDiagnostics([i \in DOMAIN instruments |-> instruments[i].table], summary, settings)
             one == OneFile(Top(Kind, "cross-object-redundancy-summary.json"), summary)
             two == OneFile(Top(Kind, "pooled-diagnostics.json"), pooled)
             three == OneFile(Top(Kind, "factor-redundancy-groups.json"), Groups(summary))
             contents == WrittenOver(one, WrittenOver(two, three))
  <2>1. Write(contents, <<"per_instrument_completed", "cross_object_summary_completed">>) BY <1>3 DEF Summarize
  <2> HIDE DEF summary, pooled
  <2>2. /\ DOMAIN one = {Top(Kind, "cross-object-redundancy-summary.json")}
        /\ DOMAIN two = {Top(Kind, "pooled-diagnostics.json")}
        /\ DOMAIN three = {Top(Kind, "factor-redundancy-groups.json")}
    BY FileShape
  <2> HIDE DEF one, two, three
  <2>3. DOMAIN contents = DOMAIN one \cup (DOMAIN two \cup DOMAIN three) BY DEF WrittenOver
  <2>4. /\ Top(Kind, "cross-object-redundancy-summary.json")[3] \notin Watched
        /\ Top(Kind, "pooled-diagnostics.json")[3] \notin Watched /\ Top(Kind, "factor-redundancy-groups.json")[3] \notin Watched
    BY Paths DEF Watched
  <2>5. \A p \in DOMAIN contents : p[3] \notin Watched BY <2>2, <2>3, <2>4
  <2> HIDE DEF contents
  <2>6. \A p \in DOMAIN files' : p[3] \in Watched => p \in DOMAIN files BY <2>1, <2>5, OtherWrites
  <2>7. ResultsCompared' BY <1>2, <1>3 DEF ResultsCompared
  <2> QED BY <1>0, <2>6, <2>7, QuietKeeps
<1>4. CASE Kind = "signal"
  <2> DEFINE summary == CrossObjectSignals(results, settings)
             path == Top(Kind, "cross-object-signal-similarity-summary.json")
             contents == OneFile(path, summary)
             all == [i \in DOMAIN instruments |-> Similarities(i)]
  <2>1. Write(contents, <<"per_instrument_completed">>) BY <1>4 DEF Summarize
  <2>2. path = SignalSummary BY <1>4 DEF SignalSummary
  <2> HIDE DEF summary, path
  <2>3. DOMAIN contents = {path} /\ contents[path] = summary BY FileShape
  <2> HIDE DEF contents
  <2>4. SignalSummary[1] = "signal" /\ SignalSummary[3] = "cross-object-signal-similarity-summary.json" /\ SignalSummary' = SignalSummary
        /\ Events(Kind)[3] = EventsName
    BY DEF SignalSummary, Top, Events, EventsName
  <2>5. /\ DOMAIN files' = DOMAIN files \cup {SignalSummary} \cup {Events(Kind)} /\ files'[SignalSummary] = summary
    <3>1. SignalSummary # Events(Kind) BY <2>4 DEF EventsName
    <3>2. /\ DOMAIN files' = DOMAIN files \cup DOMAIN contents \cup {Events(Kind)}
          /\ \A p \in DOMAIN contents : p # Events(Kind) => files'[p] = contents[p]
      BY <2>1, WriteShape
    <3> QED BY <2>2, <2>3, <3>1, <3>2
  <2>6. \A p \in DOMAIN files' \ DOMAIN files : p[3] \notin {"factor-retention-decisions.json", "factor-signal-stats.json"}
    BY <2>4, <2>5 DEF EventsName
  <2>7. DecidedOK' /\ ComparedOK' BY <1>0, <2>6, DecidedKept, ComparedKept DEF ReviewInv
  <2>8. \A j \in DOMAIN results : j \in Compared /\ results[j] = Similarities(j)
    BY <1>0, <1>4 DEF ReviewInv, ResultsCompared
  <2>9. \A j \in Compared : Similarities(j)' = Similarities(j) /\ j \in Compared' BY <1>0, ComparedStays DEF ReviewInv
  <2>10. DOMAIN results = DOMAIN instruments /\ results = [j \in DOMAIN results |-> results[j]]
    <3> DEFINE R == {results[i] : i \in DOMAIN results}
    <3>1. results \in Seq(R) /\ Len(results) = item - 1 /\ item \in Nat \ {0} BY DEF IInv, ProcessOK
    <3>2. DOMAIN instruments = 1..Len(instruments) BY DEF IInv, InputOK
    <3>3. DOMAIN results \subseteq DOMAIN instruments BY <2>8 DEF Compared, Reviewed
    <3> HIDE DEF R
    <3>4. DOMAIN results = 1..(item - 1) BY <3>1
    <3>5. DOMAIN instruments \subseteq DOMAIN results BY <1>0, <1>1, <3>1, <3>2, <3>4
    <3>6. results = [j \in DOMAIN results |-> results[j]] BY <3>1
    <3> QED BY <3>3, <3>5, <3>6
  <2>11. results = all BY <2>8, <2>10
  <2>12. DOMAIN instruments \subseteq Compared BY <2>8, <2>10
  <2>13. ResultsCompared' BY <1>0, <2>8, <2>9 DEF ResultsCompared
  <2>14. SummaryOK'
    <3>1. [i \in DOMAIN instruments |-> Similarities(i)]' = all BY <1>2, <2>9, <2>12
    <3>2. files'[SignalSummary] = CrossObjectSignals(all, settings) BY <2>5, <2>11 DEF summary
    <3>3. (DOMAIN instruments)' \subseteq Compared' BY <1>2, <2>9, <2>12
    <3> HIDE DEF all
    <3>4. (files[SignalSummary] = CrossObjectSignals([i \in DOMAIN instruments |-> Similarities(i)], settings))'
      BY <1>2, <2>4, <3>1, <3>2
    <3> QED BY <3>3, <3>4 DEF SummaryOK
  <2>15. InputsGiven' BY <1>2 DEF ReviewInv, InputsGiven
  <2> QED BY <2>7, <2>13, <2>14, <2>15 DEF ReviewInv
<1> QED BY <1>1, <1>3, <1>4

LEMMA InitReviewInv == Init => ReviewInv
<1> SUFFICES ASSUME Init PROVE ReviewInv OBVIOUS
<1>1. DOMAIN files = {}
  <2>1. DOMAIN <<>> = {} OBVIOUS
  <2> QED BY <2>1 DEF Init
<1>2. Decided = {} /\ Compared = {} /\ ~Written(SignalSummary) BY <1>1 DEF Decided, Compared, Reviewed, Written
<1>3. InputsGiven BY DEF Init, InputsGiven
<1>4. ResultsCompared BY DEF Init, ResultsCompared
<1> QED BY <1>2, <1>3, <1>4 DEF ReviewInv, DecidedOK, ComparedOK, SummaryOK

LEMMA StepReviewInv == ASSUME IInv, ReviewInv, [Next]_vars PROVE ReviewInv'
<1>1. TreeKept BY StepKeeps
<1>2. ASSUME UNCHANGED vars PROVE ReviewInv'
  <2>1. UNCHANGED <<Input, files>> /\ ResultsCompared'
    BY <1>2 DEF vars, Input, ReviewInv, ResultsCompared, Kind, Compared, Reviewed, ListedBefore, Written, Similarities
  <2> QED BY <1>1, <2>1, QuietKeeps
<1> QED BY <1>1, <1>2, QuietSteps, DecideStep, CompareStep, SummaryStep DEF Next, Done

LEMMA ReviewInvariance == Spec => []ReviewInv
BY InitReviewInv, StepReviewInv, Invariant, PTL DEF Spec

-----------------------------------------------------------------------------
(* What the files say *)

\* The arguments and the files a review is given.
LEMMA Given ==
  ASSUME InputsGiven
  PROVE  /\ {settings.observations, settings.triggers, settings.spread} \subseteq Nat
         /\ settings.similarity.den \in Nat /\ settings.similarity.num \in 1..settings.similarity.den
         /\ settings.quantile.den \in Nat /\ settings.quantile.num \in 1..settings.quantile.den
         /\ \A i \in DOMAIN instruments :
              /\ DOMAIN instruments[i].table \subseteq ToSet(AllFactors)
              /\ IsData(instruments[i].table, instruments[i].returns)
<1>1. PICK case \in Cases : instruments = case.instruments /\ settings = case.settings BY DEF InputsGiven
<1>2. /\ {settings.observations, settings.triggers, settings.spread} \subseteq Nat
      /\ settings.similarity.den \in Nat /\ settings.similarity.num \in 1..settings.similarity.den
      /\ settings.quantile.den \in Nat /\ settings.quantile.num \in 1..settings.quantile.den
  BY <1>1, ReviewsAssumption DEF ReviewsAssumption
<1>3. ASSUME NEW i \in DOMAIN instruments
      PROVE  /\ DOMAIN instruments[i].table \subseteq ToSet(AllFactors)
             /\ IsData(instruments[i].table, instruments[i].returns)
  <2> DEFINE own == instruments[i]
             series == {own.table[f] : f \in DOMAIN own.table} \cup {own.returns[n] : n \in DOMAIN own.returns}
  <2>1. own = case.instruments[i] /\ i \in DOMAIN case.instruments BY <1>1
  <2>2. /\ DOMAIN own.table \subseteq ToSet(AllFactors)
        /\ series \subseteq Seq(Int \cup {None}) /\ \A s, t \in series : Len(s) = Len(t)
    <3>1. LET mine == case.instruments[i]
              rows == {mine.table[f] : f \in DOMAIN mine.table} \cup {mine.returns[n] : n \in DOMAIN mine.returns}
          IN /\ DOMAIN mine.table \subseteq ToSet(AllFactors)
             /\ rows \subseteq Seq(Int \cup {None}) /\ \A s, t \in rows : Len(s) = Len(t)
      BY <2>1, ReviewsAssumption, Zenon DEF ReviewsAssumption
    <3>2. case.instruments[i] = own BY <2>1
    <3> HIDE DEF own
    <3> QED BY <3>1, <3>2
  <2> QED BY <2>2 DEF IsData
<1> QED BY <1>2, <1>3

\* The decisions of an instrument are sound.
LEMMA SoundDecisions ==
  ASSUME InputsGiven, DecidedOK, NEW i \in Decided
  PROVE  /\ i \in DOMAIN instruments /\ Columns(TableOf(i)) \subseteq ToSet(AllFactors)
         /\ Sound(Decisions(i), Columns(TableOf(i)), StrongPairs(i), 56) /\ DOMAIN Decisions(i) = Columns(TableOf(i))
         /\ \A r \in StrongPairs(i) : IsStrong(r, Columns(TableOf(i))) /\ Turn(r) <= 56
         /\ StrongPairs(i) = StrongOf(Relationships(TableOf(i), settings))
<1>1. i \in DOMAIN instruments BY DEF Decided, Reviewed
<1>2. DOMAIN TableOf(i) \subseteq ToSet(AllFactors) BY <1>1, Given DEF TableOf
<1>3. /\ Decisions(i) = RetentionDecisions(Columns(TableOf(i)), Relationships(TableOf(i), settings))
      /\ StrongPairs(i) = StrongOf(Relationships(TableOf(i), settings))
  BY DEF DecidedOK, StrongPairs, StrongOf
<1>4. /\ Sound(Decisions(i), Columns(TableOf(i)), StrongPairs(i), 56)
      /\ \A r \in StrongPairs(i) : IsStrong(r, Columns(TableOf(i))) /\ Turn(r) <= 56
  BY <1>2, <1>3, DecisionsAreSound
<1>5. Columns(TableOf(i)) \subseteq ToSet(AllFactors) BY <1>2 DEF Columns
<1> QED BY <1>1, <1>3, <1>4, <1>5 DEF Sound

\* Formulas decide first and no story is left without a factor, for every table, whatever the order
\* of the pairs and wherever a process ends.
THEOREM DecisionsHold == Spec => []DecisionsStand
<1>1. ReviewInv => DecisionsStand
  <2> SUFFICES ASSUME ReviewInv PROVE DecisionsStand OBVIOUS
  <2>1. \A i \in Decided :
          /\ Columns(TableOf(i)) \subseteq ToSet(AllFactors) /\ DOMAIN Decisions(i) = Columns(TableOf(i))
          /\ Sound(Decisions(i), Columns(TableOf(i)), StrongPairs(i), 56)
          /\ \A r \in StrongPairs(i) : IsStrong(r, Columns(TableOf(i))) /\ Turn(r) <= 56
    BY SoundDecisions DEF ReviewInv
  <2>2. FormulaPairsDecide
    <3> SUFFICES ASSUME NEW i \in Decided
                 PROVE  LET formula == {r \in StrongPairs(i) : r.hinted}
                        IN /\ \A r \in formula : \A f \in ToSet(r.pair) :
                                Decisions(i)[f] = IF f = r.primary THEN [decision |-> "keep", replacement |-> None]
                                                  ELSE [decision |-> "exclude", replacement |-> r.primary]
                           /\ \A f \in DOMAIN Decisions(i) :
                                /\ Decisions(i)[f].replacement # f
                                /\ Decisions(i)[f].decision = "exclude" => \E r \in formula : f \in ToSet(r.pair)
      BY DEF FormulaPairsDecide
    <3> DEFINE columns == Columns(TableOf(i))
               strong == StrongPairs(i)
               decisions == Decisions(i)
    <3>1. /\ columns \subseteq ToSet(AllFactors) /\ DOMAIN decisions = columns /\ Sound(decisions, columns, strong, 56)
          /\ \A r \in strong : IsStrong(r, columns) /\ Turn(r) <= 56
      BY <2>1
    <3> HIDE DEF columns, strong, decisions
    <3>2. /\ \A r \in strong : r.hinted => \A f \in ToSet(r.pair) :
               decisions[f] = IF f = r.primary THEN [decision |-> "keep", replacement |-> None]
                              ELSE [decision |-> "exclude", replacement |-> r.primary]
          /\ \A f \in columns :
               /\ decisions[f].replacement # f
               /\ decisions[f].decision = "exclude" => \E r \in strong : r.hinted /\ f \in ToSet(r.pair)
      <4>1. columns \subseteq ToSet(AllFactors) BY <3>1
      <4>2. \A r \in strong : IsStrong(r, columns) /\ Turn(r) <= 56 BY <3>1
      <4>3. Sound(decisions, columns, strong, 56) BY <3>1
      <4> QED BY <4>1, <4>2, <4>3, SoundDecidesFormulas, Zenon
    <3> QED BY <3>1, <3>2 DEF strong, decisions
  <2>3. StoriesKeepAFactor
    <3> SUFFICES ASSUME NEW i \in Decided, NEW story \in (SUBSET DOMAIN Decisions(i)) \ {{}},
                        \A r \in StrongPairs(i) : ToSet(r.pair) \cap story # {} => ToSet(r.pair) \subseteq story
                 PROVE  \E f \in story : Decisions(i)[f].decision = "keep"
      BY DEF StoriesKeepAFactor
    <3> DEFINE columns == Columns(TableOf(i))
               strong == StrongPairs(i)
               decisions == Decisions(i)
    <3>1. /\ columns \subseteq ToSet(AllFactors) /\ DOMAIN decisions = columns /\ Sound(decisions, columns, strong, 56)
          /\ \A r \in strong : IsStrong(r, columns)
      BY <2>1
    <3>2. story \in SUBSET columns /\ story # {} BY <3>1
    <3>3. \A r \in strong : ToSet(r.pair) \cap story # {} => ToSet(r.pair) \subseteq story OBVIOUS
    <3> HIDE DEF columns, strong, decisions
    <3>4. \E f \in story : decisions[f].decision = "keep" BY <3>1, <3>2, <3>3, SoundKeepsStories
    <3> QED BY <3>4 DEF decisions
  <2> QED BY <2>2, <2>3 DEF DecisionsStand
<1> QED BY <1>1, ReviewInvariance, PTL

\* Factors lose their places by days of their own instrument, and what is said over all
\* instruments has one that shows it, for every batch and every sequence of reviews.
THEOREM EvidenceIsOwn == Spec => []EvidenceIsPerInstrument
<1>1. ReviewInv => EvidenceIsPerInstrument
  <2> SUFFICES ASSUME ReviewInv PROVE EvidenceIsPerInstrument OBVIOUS
  <2>1. InputsGiven /\ DecidedOK /\ ComparedOK /\ SummaryOK BY DEF ReviewInv
  <2>2. DecisionsRestOnOwnDays
    <3> SUFFICES ASSUME NEW i \in Decided, NEW f \in DOMAIN Decisions(i), Decisions(i)[f].decision # "keep"
                 PROVE  LET g == Decisions(i)[f].replacement
                            days == {d \in DOMAIN instruments[i].table[f] :
                                       instruments[i].table[f][d] # None /\ instruments[i].table[g][d] # None}
                        IN /\ g \in DOMAIN instruments[i].table
                           /\ Cardinality(days) >= settings.observations
                           /\ \E d, e \in days : instruments[i].table[f][d] # instruments[i].table[f][e]
      BY DEF DecisionsRestOnOwnDays
    <3> DEFINE table == instruments[i].table
               g == Decisions(i)[f].replacement
               strong == StrongOf(Relationships(table, settings))
    <3>1. table = TableOf(i) BY DEF TableOf
    <3>2. /\ i \in DOMAIN instruments /\ DOMAIN Decisions(i) = Columns(table)
          /\ Sound(Decisions(i), Columns(table), strong, 56) /\ \A r \in strong : IsStrong(r, Columns(table))
      BY <2>1, <3>1, SoundDecisions
    <3>3. IsData(table, instruments[i].returns) /\ settings.observations \in Nat BY <2>1, <3>2, Given
    <3> HIDE DEF table, strong
    <3>4. PICK r \in strong : {f, g} \subseteq ToSet(r.pair) /\ f # g BY <3>2, SoundReplaces
    <3>5. f \in DOMAIN table BY <3>2 DEF Columns
    <3>6. IsFiniteSet(DOMAIN table[f]) /\ \A h \in DOMAIN table : DOMAIN table[h] = DOMAIN table[f]
      BY <3>3, <3>5, SeriesShape
    <3> HIDE DEF g
    <3>7. /\ g \in DOMAIN table
          /\ Cardinality({d \in DOMAIN table[f] : table[f][d] # None /\ table[g][d] # None}) >= settings.observations
          /\ \E d, e \in {d \in DOMAIN table[f] : table[f][d] # None /\ table[g][d] # None} : table[f][d] # table[f][e]
      <4>1. r \in StrongOf(Relationships(table, settings)) BY <3>4 DEF strong
      <4>2. f \in ToSet(r.pair) /\ g \in ToSet(r.pair) /\ f # g BY <3>4
      <4>3. settings.observations \in Nat BY <3>3
      <4> QED BY <3>6, <4>1, <4>2, <4>3, StrongByDays
    <3> QED BY <3>7 DEF table, g
  <2>3. SummariesHaveWitnesses
    <3> DEFINE summary == IF Written(SignalSummary) THEN files[SignalSummary] ELSE <<>>
               all == [i \in DOMAIN instruments |-> Similarities(i)]
    <3> SUFFICES ASSUME NEW k \in DOMAIN summary, summary[k].similarity = "trigger_and_behavior"
                 PROVE  /\ summary[k].eligible >= 2
                        /\ \E i \in Compared : k \in DOMAIN Similarities(i) /\ Similarities(i)[k].type = "trigger_and_behavior_similar"
      BY DEF SummariesHaveWitnesses, SignalSummary
    <3>1. Written(SignalSummary)
      <4>1. DOMAIN <<>> = {} OBVIOUS
      <4> QED BY <4>1
    <3>2. DOMAIN instruments \subseteq Compared /\ summary = CrossObjectSignals(all, settings) BY <2>1, <3>1 DEF SummaryOK
    <3> HIDE DEF summary
    <3>3. DOMAIN all = DOMAIN instruments /\ \A i \in DOMAIN instruments : all[i] = Similarities(i) OBVIOUS
    <3>4. IsFiniteSet(DOMAIN instruments)
      <4>1. PICK case \in Cases : instruments = case.instruments BY <2>1 DEF InputsGiven
      <4>2. instruments \in Seq(ToSet(instruments)) BY <4>1, ReviewsAssumption DEF ReviewsAssumption
      <4>3. Len(instruments) \in Nat /\ DOMAIN instruments = 1..Len(instruments) BY <4>2
      <4> QED BY <4>3, FS_Interval
    <3> HIDE DEF all
    <3>5. /\ CrossObjectSignals(all, settings)[k].eligible >= 2
          /\ \E i \in DOMAIN all : k \in DOMAIN all[i] /\ all[i][k].type = "trigger_and_behavior_similar"
      BY <3>2, <3>3, <3>4, SummaryHasWitness
    <3> QED BY <3>2, <3>3, <3>5
  <2> QED BY <2>2, <2>3 DEF EvidenceIsPerInstrument
<1> QED BY <1>1, ReviewInvariance, PTL

\* What a signal review says of two factors of an instrument.
LEMMA ComparedFactors ==
  ASSUME InputsGiven, ComparedOK, NEW i \in Compared, NEW k \in DOMAIN Similarities(i)
  PROVE  LET stats == Stats(i)
         IN /\ i \in DOMAIN instruments
            /\ stats = SignalStats(instruments[i].table, instruments[i].returns, settings.quantile)
            /\ <<k[1], k[3]>> \in DOMAIN stats /\ <<k[2], k[3]>> \in DOMAIN stats
            /\ IsStat(stats[<<k[1], k[3]>>]) /\ IsStat(stats[<<k[2], k[3]>>])
            /\ Similarities(i)[k].type = RelationshipType(stats[<<k[1], k[3]>>], stats[<<k[2], k[3]>>], settings)
<1> DEFINE stats == Stats(i)
           table == instruments[i].table
           returns == instruments[i].returns
<1>1. i \in DOMAIN instruments BY DEF Compared, Reviewed
<1>2. stats = SignalStats(table, returns, settings.quantile) /\ Similarities(i) = PairSimilarities(stats, settings)
  BY DEF ComparedOK
<1> HIDE DEF stats
<1>3. /\ <<k[1], k[3]>> \in DOMAIN stats /\ <<k[2], k[3]>> \in DOMAIN stats
      /\ Similarities(i)[k].type = RelationshipType(stats[<<k[1], k[3]>>], stats[<<k[2], k[3]>>], settings)
  BY <1>2, SimilaritiesShape
<1>4. IsData(table, returns) /\ settings.quantile.den \in Nat /\ settings.quantile.num \in 1..settings.quantile.den
  BY <1>1, Given
<1> HIDE DEF table, returns
<1>5. \A f : <<f, k[3]>> \in DOMAIN stats => IsStat(stats[<<f, k[3]>>]) BY <1>2, <1>4, StatsShape
<1> QED BY <1>1, <1>2, <1>3, <1>5 DEF stats, table, returns

\* The stats of a factor and of its mirror image.
LEMMA MirroredStats ==
  ASSUME NEW table, NEW returns, IsData(table, returns), NEW quantile, quantile.den \in Nat, quantile.num \in 1..quantile.den,
         NEW f, NEW g, NEW n, NEW stats, stats = SignalStats(table, returns, quantile),
         <<f, n>> \in DOMAIN stats, <<g, n>> \in DOMAIN stats,
         None \notin ToSet(table[f]) \cup ToSet(table[g]), IsInjective(table[f]),
         \A d, e \in DOMAIN table[f] : table[f][d] + table[g][d] = table[f][e] + table[g][e]
  PROVE  LET a == stats[<<f, n>>]
             b == stats[<<g, n>>]
         IN /\ b.low = a.high /\ b.high = a.low /\ b.lowMean = a.highMean /\ b.highMean = a.lowMean
            /\ a.low = a.high => a.lowMean = a.highMean
<1> DEFINE va == Observed(table, returns, f, n)
           vb == Observed(table, returns, g, n)
           days == DOMAIN va
<1>1. /\ f \in DOMAIN table /\ n \in DOMAIN returns /\ days = Available(table, returns, f, n)
      /\ Series(va) /\ days # {} /\ \A d \in days : returns[n][d] \in Int
      /\ stats[<<f, n>>] = SignalStat(va, returns[n], quantile)
  BY StatsShape
<1>2. /\ g \in DOMAIN table /\ DOMAIN vb = Available(table, returns, g, n) /\ Series(vb)
      /\ stats[<<g, n>>] = SignalStat(vb, returns[n], quantile)
  BY StatsShape
<1>3. DOMAIN table[g] = DOMAIN table[f] BY <1>1, <1>2, SeriesShape
<1>4. \A d \in DOMAIN table[f] : table[f][d] # None /\ table[g][d] # None BY <1>3 DEF ToSet
<1>5. Available(table, returns, f, n) = Available(table, returns, g, n) BY <1>3, <1>4 DEF Available
<1>6. DOMAIN vb = days BY <1>1, <1>2, <1>5
<1>7. \A d \in days : d \in DOMAIN table[f] /\ va[d] = table[f][d] /\ vb[d] = table[g][d]
  <2>1. \A d \in Available(table, returns, f, n) : va[d] = table[f][d] /\ d \in DOMAIN table[f] BY DEF Observed, Available
  <2>2. \A d \in Available(table, returns, g, n) : vb[d] = table[g][d] BY DEF Observed
  <2> QED BY <1>1, <1>5, <2>1, <2>2
<1> HIDE DEF va, vb, days
<1>8. \A d, e \in days : (va[d] = va[e] => d = e) /\ va[d] + vb[d] = va[e] + vb[e]
  <2>1. \A d, e \in DOMAIN table[f] : table[f][d] = table[f][e] => d = e BY DEF IsInjective
  <2> QED BY <1>7, <2>1
<1>9. Mirror(va, vb) BY <1>1, <1>2, <1>6, <1>8 DEF Mirror, days
<1>10. DOMAIN va # {} /\ \A d \in DOMAIN va : returns[n][d] \in Int BY <1>1 DEF days
<1> QED BY <1>1, <1>2, <1>9, <1>10, SidesAreSwapped

\* Returns that spread have different means.
LEMMA SpreadTakesTwoMeans ==
  ASSUME NEW a, IsStat(a), Directed(a), None \notin [num : Int, den : Int]
  PROVE  a.lowMean # a.highMean
<1> SUFFICES ASSUME a.lowMean = a.highMean PROVE FALSE OBVIOUS
<1>1. /\ IsFraction(a.highMean) /\ IsFraction(a.spread) /\ a.spread = Minus(a.highMean, a.highMean)
      /\ a.direction = DirectionHint(a.spread)
  BY DEF IsStat
<1>2. a.spread.num = a.highMean.num * a.highMean.den - a.highMean.num * a.highMean.den BY <1>1, MinusFraction
<1>3. a.spread.num = 0
  <2>1. a.highMean.num * a.highMean.den \in Int BY <1>1, Arithmetic DEF IsFraction
  <2> QED BY <1>2, <2>1
<1>4. a.spread = Fraction(a.spread.num, a.spread.den) BY <1>1 DEF Minus, Fraction
<1>5. a.direction = "NO_SPREAD" BY <1>1, <1>3, <1>4, Hints
<1> QED BY <1>5 DEF Directed

\* What is found of two factors depends on neither their order nor the sign of one of them, for
\* every table and all returns.
THEOREM RelationsHold == Spec => []RelationsAreSymmetric
<1>1. ReviewInv => RelationsAreSymmetric
  <2> SUFFICES ASSUME ReviewInv PROVE RelationsAreSymmetric OBVIOUS
  <2>1. InputsGiven /\ ComparedOK BY DEF ReviewInv
  <2>2. SimilarityIsSymmetric
    <3> SUFFICES ASSUME NEW i \in Compared, NEW k \in DOMAIN Similarities(i)
                 PROVE  Similarities(i)[k].type = RelationshipType(Stats(i)[<<k[2], k[3]>>], Stats(i)[<<k[1], k[3]>>], settings)
      BY DEF SimilarityIsSymmetric
    <3> DEFINE a == Stats(i)[<<k[1], k[3]>>]
               b == Stats(i)[<<k[2], k[3]>>]
    <3>1. IsStat(a) /\ IsStat(b) /\ Similarities(i)[k].type = RelationshipType(a, b, settings) BY <2>1, ComparedFactors
    <3>2. settings.spread \in Nat BY <2>1, Given
    <3> HIDE DEF a, b
    <3>3. RelationshipType(a, b, settings) = RelationshipType(b, a, settings) BY <3>1, <3>2, TypeIsSymmetric
    <3> QED BY <3>1, <3>3 DEF a, b
  <2>3. MirrorsAreFound
    <3> SUFFICES ASSUME NEW i \in Compared, NEW k \in DOMAIN Similarities(i),
                        None \notin ToSet(instruments[i].table[k[1]]) \cup ToSet(instruments[i].table[k[2]]),
                        \A d, e \in DOMAIN instruments[i].table[k[1]] :
                          instruments[i].table[k[1]][d] + instruments[i].table[k[2]][d]
                            = instruments[i].table[k[1]][e] + instruments[i].table[k[2]][e],
                        IsInjective(instruments[i].table[k[1]]), Directed(Stats(i)[<<k[1], k[3]>>]),
                        Cardinality(Stats(i)[<<k[1], k[3]>>].low) >= settings.triggers
                 PROVE  Similarities(i)[k].type = "trigger_and_behavior_similar"
      BY DEF MirrorsAreFound
    <3> DEFINE table == instruments[i].table
               returns == instruments[i].returns
               stats == Stats(i)
               a == stats[<<k[1], k[3]>>]
               b == stats[<<k[2], k[3]>>]
    <3>1. /\ i \in DOMAIN instruments /\ stats = SignalStats(table, returns, settings.quantile)
          /\ <<k[1], k[3]>> \in DOMAIN stats /\ <<k[2], k[3]>> \in DOMAIN stats
          /\ IsStat(a) /\ IsStat(b) /\ Similarities(i)[k].type = RelationshipType(a, b, settings)
      BY <2>1, ComparedFactors
    <3>2. /\ IsData(table, returns) /\ settings.quantile.den \in Nat /\ settings.quantile.num \in 1..settings.quantile.den
          /\ settings.similarity.den \in Nat /\ settings.similarity.num \in 1..settings.similarity.den
          /\ settings.spread \in Nat /\ settings.triggers \in Nat
      BY <2>1, <3>1, Given
    <3>3. /\ None \notin ToSet(table[k[1]]) \cup ToSet(table[k[2]]) /\ IsInjective(table[k[1]])
          /\ \A d, e \in DOMAIN table[k[1]] : table[k[1]][d] + table[k[2]][d] = table[k[1]][e] + table[k[2]][e]
      OBVIOUS
    <3> HIDE DEF table, returns, stats
    <3>4. /\ b.low = a.high /\ b.high = a.low /\ b.lowMean = a.highMean /\ b.highMean = a.lowMean
          /\ a.low = a.high => a.lowMean = a.highMean
      BY <3>1, <3>2, <3>3, MirroredStats
    <3>5. Directed(a) /\ Cardinality(a.low) >= settings.triggers BY DEF stats
    <3>6. None \notin [num : Int, den : Int] BY ReviewsAssumption DEF ReviewsAssumption
    <3> HIDE DEF a, b
    <3>7. a.lowMean # a.highMean BY <3>1, <3>5, <3>6, SpreadTakesTwoMeans
    <3>8. a.low # a.high BY <3>4, <3>7
    <3>9. RelationshipType(a, b, settings) = "trigger_and_behavior_similar"
      BY <3>1, <3>2, <3>4, <3>5, <3>6, <3>8, MirrorsAreSimilar
    <3> QED BY <3>1, <3>9
  <2> QED BY <2>2, <2>3 DEF RelationsAreSymmetric
<1> QED BY <1>1, ReviewInvariance, PTL
=============================================================================
