---------------------------- MODULE FactorReviews ----------------------------
(***************************************************************************)
(* The reviews of what a factor batch results:                               *)
(* scripts/factor_redundancy_review.py and                                 *)
(* scripts/factor_signal_similarity_review.py over its completed stocks,   *)
(* and the review of a redundancy review by scripts/ecc_artifact_reviewer. *)
(*                                                                         *)
(* One command is given after the other; each review has one output        *)
(* directory, so a second one meets what the first left.  A step writes    *)
(* the files of one stage; the process can end between two stages, and     *)
(* between the report and the events that close the log.                   *)
(***************************************************************************)
EXTENDS SignalSimilarity, FileTree

CONSTANTS
  Cases,        \* batches of instruments, each with the arguments of the reviews and commands
  MaxCrashes    \* bound on the processes that end

ASSUME ReviewsAssumption ==
  /\ \A case \in Cases :
       LET given == case.settings
       IN /\ given.method \in {"pearson", "spearman"}
          /\ {given.observations, given.instruments, given.triggers, given.spread} \subseteq Nat
          /\ given.observations >= 2 /\ given.triggers >= 1
          /\ \A ratio \in {given.threshold, given.similarity, given.quantile} :
               ratio.den \in Nat /\ ratio.num \in 1..ratio.den
          /\ 2 * given.quantile.num <= given.quantile.den
          /\ case.instruments \in Seq(ToSet(case.instruments))
          /\ \A i \in DOMAIN case.instruments :
               LET own == case.instruments[i]
                   series == {own.table[f] : f \in DOMAIN own.table} \cup {own.returns[n] : n \in DOMAIN own.returns}
               IN /\ own.id # 0   \* 0 is for the review itself
                  /\ DOMAIN own.table \subseteq ToSet(AllFactors)
                  /\ series \subseteq Seq(Int \cup {None}) /\ \A s, t \in series : Len(s) = Len(t)
          /\ case.commands \in Seq({"redundancy", "signal", "artifact"})
  /\ MaxCrashes \in Nat /\ None \notin ToSet(AllFactors) /\ None \notin [num : Int, den : Int]

VARIABLES
  instruments,  \* of each: id, present (its file exists), malformed (a row of it), table, returns
  settings,     \* the arguments of both reviews
  commands, turn, pc,
  item,         \* the instrument under review
  results,      \* all_relationships or all_pair_similarities
  files,        \* a function from <<directory, instrument, name>> to contents
  dirs,
  crashes,
  endings       \* history: how each command ended; "unclosed": cut short after its report

vars == <<instruments, settings, commands, turn, pc, item, results, files, dirs, crashes, endings>>

Input == <<instruments, settings, commands>>
Kind == commands[turn]   \* "redundancy", "signal" or "artifact"
Top(kind, name) == <<kind, 0, name>>
Of(kind, id, name) == <<kind, id, name>>
Events(kind) == Top(kind, "review-events.jsonl")
Written(path) == path \in DOMAIN files

Init ==
  /\ \E case \in Cases : instruments = case.instruments /\ settings = case.settings /\ commands = case.commands
  /\ turn = 1 /\ pc = "command" /\ item = 1 /\ results = <<>>
  /\ files = <<>> /\ dirs = {} /\ crashes = 0 /\ endings = <<>>

EndProcess(how) ==
  /\ endings' = Append(endings, how)
  /\ turn' = turn + 1 /\ pc' = "command" /\ item' = 1 /\ results' = <<>>

\* Where a review is that has written its report.
Closing == {"closing", "completing"}

\* The files of a stage and the events that follow them in the log, if any do.
Write(contents, events) ==
  LET log == IF Written(Events(Kind)) THEN files[Events(Kind)] ELSE <<>>
  IN files' = WrittenOver(OneFile(Events(Kind), log \o events), WrittenOver(contents, files))

StartOverExisting ==
  /\ pc = "command" /\ turn <= Len(commands) /\ Kind # "artifact"
  /\ dirs' = dirs \cup {Kind}
  /\ Write(OneFile(Top(Kind, "review-config.json"), [id |-> turn, settings |-> settings]), <<"review_started">>)
  /\ pc' = "manifest" /\ UNCHANGED <<turn, item, results, endings>>
  /\ UNCHANGED <<Input, crashes>>

\* _validate_config: an output directory is used once.
Start ==
  /\ pc = "command" /\ turn <= Len(commands) /\ Kind # "artifact"
  /\ IF Kind \in dirs THEN EndProcess("SystemExit") /\ UNCHANGED <<files, dirs>>
     ELSE /\ dirs' = dirs \cup {Kind}
          /\ Write(OneFile(Top(Kind, "review-config.json"), [id |-> turn, settings |-> settings]), <<"review_started">>)
          /\ pc' = "manifest" /\ UNCHANGED <<turn, item, results, endings>>
  /\ UNCHANGED <<Input, crashes>>

\* _build_source_manifest of the stocks a batch completed, one after the other.
BuildSourceManifest ==
  /\ pc = "manifest"
  /\ IF instruments = <<>> \/ \E i \in DOMAIN instruments : ~instruments[i].present
     THEN EndProcess("SystemExit") /\ UNCHANGED files
     ELSE /\ Write(OneFile(Top(Kind, "source-data-manifest.json"), [i \in DOMAIN instruments |-> instruments[i].id]),
                   <<"source_manifest_completed">>)
          /\ pc' = "load" /\ UNCHANGED <<turn, item, results, endings>>
  /\ UNCHANGED <<Input, dirs, crashes>>

\* _load_instrument_factor_rows, _load_instrument_observations.
LoadRows ==
  /\ pc = "load"
  /\ IF \E i \in DOMAIN instruments : instruments[i].malformed
     THEN EndProcess("SystemExit") /\ UNCHANGED files
     ELSE /\ Write(<<>>, <<"load_completed">>)
          /\ pc' = "instrument" /\ UNCHANGED <<turn, item, results, endings>>
  /\ UNCHANGED <<Input, dirs, crashes>>

Scoped(id, rows) == [instrument |-> id, rows |-> rows]

TableOfInstrumentsSoFar(i) == PooledTable(SubSeq([j \in DOMAIN instruments |-> instruments[j].table], 1, i))

\* The rows an instrument is reviewed by: its own.
TableOf(i) == instruments[i].table

\* mkdir of an instrument's directory: it raises for one that is listed twice.
ListedBefore(n) == \E i \in 1..(n - 1) : instruments[i].id = instruments[n].id

\* _review_one_instrument.
ReviewOneInstrument ==
  /\ pc = "instrument" /\ Kind = "redundancy" /\ item <= Len(instruments)
  /\ LET id == instruments[item].id
         relationships == Relationships(TableOf(item), settings)
         decisions == RetentionDecisions(Columns(TableOf(item)), relationships)
     IN IF ListedBefore(item) THEN EndProcess("error") /\ UNCHANGED files
        ELSE /\ Write(WrittenOver(OneFile(Of(Kind, id, "factor-correlation-matrix.csv"), Columns(TableOf(item))),
                      WrittenOver(OneFile(Of(Kind, id, "factor-pair-relationships.json"), Scoped(id, relationships)),
                        OneFile(Of(Kind, id, "factor-retention-decisions.json"), Scoped(id, decisions)))), <<>>)
             /\ results' = Append(results, relationships)
             /\ item' = item + 1
             /\ UNCHANGED <<turn, pc, endings>>
  /\ UNCHANGED <<Input, dirs, crashes>>

\* The same for signals: _build_signal_stats and _build_pair_similarities.
CompareSignals ==
  /\ pc = "instrument" /\ Kind = "signal" /\ item <= Len(instruments)
  /\ LET id == instruments[item].id
         stats == SignalStats(instruments[item].table, instruments[item].returns, settings.quantile)
         similarities == PairSimilarities(stats, settings)
     IN IF ListedBefore(item) THEN EndProcess("error") /\ UNCHANGED files
        ELSE /\ Write(WrittenOver(OneFile(Of(Kind, id, "factor-signal-stats.json"), stats),
                        OneFile(Of(Kind, id, "factor-pair-signal-similarity.json"), similarities)), <<>>)
             /\ results' = Append(results, similarities)
             /\ item' = item + 1
             /\ UNCHANGED <<turn, pc, endings>>
  /\ UNCHANGED <<Input, dirs, crashes>>

\* Over all instruments: the summary, the pooled diagnostics and the groups.
Summarize ==
  /\ pc = "instrument" /\ item > Len(instruments)
  /\ IF Kind = "redundancy"
     THEN LET summary == CrossObjectSummary(results, settings)
              pooled == PooledDiagnostics([i \in DOMAIN instruments |-> instruments[i].table], summary, settings)
          IN Write(WrittenOver(OneFile(Top(Kind, "cross-object-redundancy-summary.json"), summary),
                   WrittenOver(OneFile(Top(Kind, "pooled-diagnostics.json"), pooled),
                        OneFile(Top(Kind, "factor-redundancy-groups.json"), Groups(summary)))),
                   <<"per_instrument_completed", "cross_object_summary_completed">>)
     ELSE Write(OneFile(Top(Kind, "cross-object-signal-similarity-summary.json"), CrossObjectSignals(results, settings)),
                <<"per_instrument_completed">>)
  /\ pc' = "report"
  /\ UNCHANGED <<Input, turn, item, results, dirs, crashes, endings>>

WriteReport ==
  /\ pc = "report"
  /\ Write(OneFile(Top(Kind, "report.md"), "isolated"), <<>>)
  /\ pc' = "closing"
  /\ UNCHANGED <<Input, turn, item, results, dirs, crashes, endings>>

\* The event of the last files; a signal review notes its summary only now.
NoteArtifacts ==
  /\ pc = "closing"
  /\ Write(<<>>, IF Kind = "redundancy" THEN <<"write_artifacts_completed">> ELSE <<"cross_object_summary_completed">>)
  /\ pc' = "completing"
  /\ UNCHANGED <<Input, turn, item, results, dirs, crashes, endings>>

CompleteReview ==
  /\ pc = "completing"
  /\ Write(<<>>, <<"review_completed">>)
  /\ EndProcess("completed")
  /\ UNCHANGED <<Input, dirs, crashes>>

----------------------------------------------------------------------------
(* The artifact review of a redundancy review.                             *)

RequiredFilesBeforeReport ==
  {Top("redundancy", n) : n \in {"review-config.json", "source-data-manifest.json", "review-events.jsonl",
     "cross-object-redundancy-summary.json", "pooled-diagnostics.json", "factor-redundancy-groups.json"}}

RequiredFiles ==
  {Top("redundancy", n) : n \in {"review-config.json", "source-data-manifest.json", "review-events.jsonl",
     "cross-object-redundancy-summary.json", "pooled-diagnostics.json", "factor-redundancy-groups.json", "report.md"}}

Found(title, found) == IF found THEN {title} ELSE {}
InstrumentFiles == {"factor-correlation-matrix.csv", "factor-pair-relationships.json", "factor-retention-decisions.json"}

RedundancyFindingsOfFirst(manifest, content) ==
  Found("no instruments", manifest = <<>>)
  \cup Found("artifact missing", ~(ToSet(manifest) \X InstrumentFiles \subseteq DOMAIN content))
  \cup Found("wrong scope", \E f \in DOMAIN content : f[2] # "factor-correlation-matrix.csv" /\ content[f].instrument # manifest[1])

\* The findings of _build_factor_redundancy_review_deterministic_findings that the contents of the
\* files can cause; content is a function from <<instrument, name>>.
RedundancyFindings(manifest, content) ==
  Found("no instruments", manifest = <<>>)
  \cup Found("artifact missing", ~(ToSet(manifest) \X InstrumentFiles \subseteq DOMAIN content))
  \cup Found("wrong scope", \E f \in DOMAIN content : f[2] # "factor-correlation-matrix.csv" /\ content[f].instrument # f[1])

\* What is missing is found out after the directory of the artifact review is made.
ReviewArtifacts ==
  /\ pc = "command" /\ turn <= Len(commands) /\ Kind = "artifact"
  /\ LET own == {p \in DOMAIN files : p[1] = "redundancy" /\ p[2] # 0}
         content == [q \in {<<p[2], p[3]>> : p \in own} |-> files[Of("redundancy", q[1], q[2])]]
     IN IF "redundancy" \notin dirs \/ ~(RequiredFiles \subseteq DOMAIN files)
        THEN EndProcess("error") /\ UNCHANGED dirs
        ELSE /\ EndProcess(IF RedundancyFindings(files[Top("redundancy", "source-data-manifest.json")], content) = {}
                           THEN "passed" ELSE "needs_fix")
             /\ dirs' = dirs \cup {"artifact"}
  /\ UNCHANGED <<Input, files, crashes>>

Crash ==
  /\ pc # "command" /\ crashes < MaxCrashes
  /\ crashes' = crashes + 1
  /\ EndProcess(IF pc \in Closing THEN "unclosed" ELSE "crash")
  /\ UNCHANGED <<Input, files, dirs>>

Done == turn > Len(commands) /\ UNCHANGED vars

Next ==
  \/ Start \/ BuildSourceManifest \/ LoadRows \/ ReviewOneInstrument \/ CompareSignals
  \/ Summarize \/ WriteReport \/ NoteArtifacts \/ CompleteReview \/ ReviewArtifacts \/ Crash \/ Done

Spec == Init /\ [][Next]_vars
----------------------------------------------------------------------------
(* Properties.                                                             *)

\* Between commands nothing is left of the last one; a process ends in a known way.
TypeOK ==
  /\ pc \in {"command", "manifest", "load", "instrument", "report"} \cup Closing
  /\ turn \in 1..(Len(commands) + 1) /\ Len(endings) = turn - 1
  /\ ToSet(endings) \subseteq {"SystemExit", "error", "crash", "unclosed", "completed", "passed", "needs_fix"}
  /\ dirs \subseteq {"redundancy", "signal", "artifact"} /\ {p[1] : p \in DOMAIN files} \subseteq dirs
  /\ crashes \in 0..MaxCrashes
  /\ pc = "command" => results = <<>> /\ item = 1
  /\ Len(results) = item - 1

A == INSTANCE Artifacts WITH
       content <- [path \in {p \in DOMAIN files : p[3] # "review-events.jsonl"} |-> files[path]],
       sealed <- {d \in dirs : Written(Top(d, "report.md"))}

\* The files of a review are written once, and none after its report, also when the same output
\* directory is asked for again (docs/design/factor-redundancy-review-skill.md, artifact layout).
ImplementsArtifacts == A!Spec

\* The instruments with a directory of their own in a review.
Reviewed(kind, name) == {i \in DOMAIN instruments : ~ListedBefore(i) /\ Written(Of(kind, instruments[i].id, name))}

Decided == Reviewed("redundancy", "factor-retention-decisions.json")
Decisions(i) == files[Of("redundancy", instruments[i].id, "factor-retention-decisions.json")].rows
Pairs(i) == files[Of("redundancy", instruments[i].id, "factor-pair-relationships.json")].rows
StrongPairs(i) == {r \in Range(Pairs(i)) : r.type \in StrongTypes}

\* In every strong pair with a formula the primary is kept and the other is excluded in its favour,
\* whatever other pairs come before or after (factor-redundancy-review-skill.md:387); nothing else
\* is excluded, and no factor is replaced by itself.
FormulaPairsDecide ==
  \A i \in Decided :
    LET formula == {r \in StrongPairs(i) : r.hinted}
    IN /\ \A r \in formula : \A f \in ToSet(r.pair) :
            Decisions(i)[f] = IF f = r.primary THEN [decision |-> "keep", replacement |-> None]
                              ELSE [decision |-> "exclude", replacement |-> r.primary]
       /\ \A f \in DOMAIN Decisions(i) :
            /\ Decisions(i)[f].replacement # f
            /\ Decisions(i)[f].decision = "exclude" => \E r \in formula : f \in ToSet(r.pair)

\* Factors that tell the same story, directly or through others, never all lose their place: of
\* some factors and all that any of them is strongly related to, one is kept.
StoriesKeepAFactor ==
  \A i \in Decided : \A story \in (SUBSET DOMAIN Decisions(i)) \ {{}} :
    (\A r \in StrongPairs(i) : ToSet(r.pair) \cap story # {} => ToSet(r.pair) \subseteq story)
      => \E f \in story : Decisions(i)[f].decision = "keep"

\* Whatever the order of the pairs, formulas decide first and no story is left without a factor.
DecisionsStand == FormulaPairsDecide /\ StoriesKeepAFactor

\* A factor loses its place only to one it is related to by days of that instrument alone, never
\* because of the rows of another (factor-redundancy-review-skill.md:21).
DecisionsRestOnOwnDays ==
  \A i \in Decided : \A f \in DOMAIN Decisions(i) :
    LET g == Decisions(i)[f].replacement
        days == {d \in DOMAIN instruments[i].table[f] : instruments[i].table[f][d] # None /\ instruments[i].table[g][d] # None}
    IN Decisions(i)[f].decision # "keep" =>
         /\ g \in DOMAIN instruments[i].table
         /\ Cardinality(days) >= settings.observations
         /\ \E d, e \in days : instruments[i].table[f][d] # instruments[i].table[f][e]

Compared == Reviewed("signal", "factor-signal-stats.json")
Stats(i) == files[Of("signal", instruments[i].id, "factor-signal-stats.json")]
Similarities(i) == files[Of("signal", instruments[i].id, "factor-pair-signal-similarity.json")]

\* How similar two factors are does not depend on which of them comes first, also where two sides
\* overlap equally well.
SimilarityIsSymmetric ==
  \A i \in Compared : \A k \in DOMAIN Similarities(i) :
    Similarities(i)[k].type = RelationshipType(Stats(i)[<<k[2], k[3]>>], Stats(i)[<<k[1], k[3]>>], settings)

\* A factor and its mirror image tell the same story: wherever its values differ from day to day,
\* its triggers are enough and its returns spread, the two are found similar in every way.
MirrorsAreFound ==
  \A i \in Compared : \A k \in DOMAIN Similarities(i) :
    LET a == instruments[i].table[k[1]]
        b == instruments[i].table[k[2]]
        stat == Stats(i)[<<k[1], k[3]>>]
        mirrored == None \notin ToSet(a) \cup ToSet(b) /\ \A d, e \in DOMAIN a : a[d] + b[d] = a[e] + b[e]
    IN mirrored /\ IsInjective(a) /\ Directed(stat) /\ Cardinality(stat.low) >= settings.triggers
         => Similarities(i)[k].type = "trigger_and_behavior_similar"

\* A relation depends on neither the order nor the sign of its two factors.
RelationsAreSymmetric == SimilarityIsSymmetric /\ MirrorsAreFound

\* What is said of a pair over all instruments has a witness: where most trigger alike and most
\* behave alike, at least one instrument does both, and nothing is said of one instrument alone.
SummariesHaveWitnesses ==
  LET summary == IF Written(Top("signal", "cross-object-signal-similarity-summary.json"))
                 THEN files[Top("signal", "cross-object-signal-similarity-summary.json")] ELSE <<>>
  IN \A k \in DOMAIN summary : summary[k].similarity = "trigger_and_behavior" =>
       /\ summary[k].eligible >= 2
       /\ \E i \in Compared : k \in DOMAIN Similarities(i) /\ Similarities(i)[k].type = "trigger_and_behavior_similar"

\* Evidence is counted per instrument, and never put together from two.
EvidenceIsPerInstrument == DecisionsRestOnOwnDays /\ SummariesHaveWitnesses

\* All the files of a review of every instrument.
RedundancyWhole ==
  /\ RequiredFiles \subseteq DOMAIN files
  /\ \A i \in DOMAIN instruments : \A name \in InstrumentFiles : Written(Of("redundancy", instruments[i].id, name))

\* An artifact review passes a redundancy review exactly when an earlier command wrote it to its
\* report, the last of its files: one that was refused or cut short before is never passed, and what
\* is passed has the files of every instrument.  The events that close its log may be missing.
PassedMeansWhole ==
  \A t \in DOMAIN endings : commands[t] = "artifact" =>
    /\ endings[t] = "passed" <=>
         \E u \in 1..(t - 1) : commands[u] = "redundancy" /\ endings[u] \in {"completed", "unclosed"}
    /\ endings[t] = "passed" => RedundancyWhole
    /\ endings[t] # "needs_fix"

\* The same, with the steps of every process and the tree it leaves well formed.
ReviewsPassWhole == TypeOK /\ PassedMeansWhole
=============================================================================
