------------------------------- MODULE Stats -------------------------------
(***************************************************************************)
(* The statistics of the pages /user/<name> and /stats (app/main.py):      *)
(* streaks over the numbers of a user's clues, streaks over the days the   *)
(* user was active, and how many author sequences ran at once.  They are   *)
(* computed from the archive as requests have left it: with gaps where a   *)
(* clue was deleted, with numbers shifted by an insert, with dates that    *)
(* were edited, that are missing or that lie in the future.                *)
(*                                                                         *)
(* The table is a function from the numbers in use to the clues (that      *)
(* numbers are unique is a theorem about Archive).  Of the people only the *)
(* user whose profile is shown matters.                                    *)
(***************************************************************************)
EXTENDS Integers, FiniteSets, FiniteSetsExt

CONSTANTS
  AuthorSequence, \* the sequences of type "author"
  MaxNumber,      \* bound: highest legacy_number
  MaxChain,       \* bound: the same, in behaviours of a single day
  LastDay,        \* bound: days are 1 .. LastDay
  Null            \* NULL; in no sequence

ASSUME StatsAssumption == /\ MaxNumber \in Nat /\ MaxChain \in Nat /\ LastDay \in Nat \ {0}
                          /\ Null \notin Int \cup AuthorSequence

VARIABLES
  clues,          \* legacy_number -> [part, date, sequence]
  today,
  singleDay       \* bound: only numbers change, but in a longer chain

statsVars == <<clues, today, singleDay>>

Highest == IF singleDay THEN MaxChain ELSE MaxNumber

Day  == 1 .. LastDay
Part == {"author", "solver", "other"}           \* the user's part in a clue

-----------------------------------------------------------------------------
(* What the statistics are computed from *)

(* profile: legacy_number of the clues the user authored *)
AuthoredNumbers == {n \in DOMAIN clues : clues[n].part = "author"}

(* profile: the days with a clue the user authored or solved *)
ActiveDates ==
  {clues[n].date : n \in {k \in DOMAIN clues : clues[k].part # "other"}} \ {Null}

Members(s) == {n \in DOMAIN clues : clues[n].sequence = s}
Dated(s)   == {clues[n].date : n \in Members(s)} \ {Null}

(* author_seq_rows: one row per sequence with a clue; min and max ignore   *)
(* NULL, so a row may come without its dates                               *)
SequenceRows ==
  {[id |-> s, start |-> IF Dated(s) = {} THEN Null ELSE Min(Dated(s)),
              end   |-> IF Dated(s) = {} THEN Null ELSE Max(Dated(s))] :
     s \in {t \in AuthorSequence : Members(t) # {}}}

-----------------------------------------------------------------------------
(* _streak_from_numbers and _day_streak.  Both walk the sorted set of their *)
(* values; the run that ends at x is one longer than the run that ends at   *)
(* the value before x, if that is x - gap.                                  *)

Before(S, x) == {y \in S : y < x}

RunsOf(S, gap) ==
  LET run[x \in S] ==
        IF Before(S, x) # {} /\ x - Max(Before(S, x)) = gap
        THEN run[x - gap] + 1 ELSE 1
  IN  run

Longest(S, gap) == IF S = {} THEN 0 ELSE Max({RunsOf(S, gap)[x] : x \in S})

(* Mutant: a gap of one continues a streak as well *)
MaxStreakLoose(numbers) ==
  LET run[x \in numbers] ==
        IF Before(numbers, x) # {} /\ x - Max(Before(numbers, x)) <= 2
        THEN run[Max(Before(numbers, x))] + 1 ELSE 1
  IN  IF numbers = {} THEN 0 ELSE Max({run[x] : x \in numbers})

MaxStreak(numbers)     == Longest(numbers, 2)
CurrentStreak(numbers) == IF numbers = {} THEN 0 ELSE RunsOf(numbers, 2)[Max(numbers)]

MaxDays(dates) == Longest(dates, 1)

(* counts back from today; days in the future match nothing and are passed *)
CurrentDays(dates, now) ==
  LET back[k \in Nat] == IF now - k \in dates THEN back[k + 1] ELSE k
  IN  back[0]

-----------------------------------------------------------------------------
(* _author_sequence_stats: a sweep over the intervals' boundaries.  A      *)
(* sequence opens on its first day and closes on the day after its last;   *)
(* on one day the closes come first.                                       *)

Intervals(rows) == {r \in rows : r.start # Null /\ r.end # Null}

(* Mutant: a sequence closes on its last day                               *)
CloseDayLast(i) == i.end

CloseDay(i) == i.end + 1

Opens(rows, d)  == Cardinality({i \in Intervals(rows) : i.start = d})
Closes(rows, d) == Cardinality({i \in Intervals(rows) : CloseDay(i) = d})

EventDays(rows) == UNION {{i.start, CloseDay(i)} : i \in Intervals(rows)}

(* the count of open sequences before the events of day d *)
RunningBefore(rows, d) ==
  Cardinality({i \in Intervals(rows) : i.start < d})
    - Cardinality({i \in Intervals(rows) : CloseDay(i) < d})

(* Mutant: opens before closes                                             *)
MomentsOpensFirst(rows, d) ==
  LET running == RunningBefore(rows, d)
      opened  == running + Opens(rows, d)
  IN  {running + k : k \in 1 .. Opens(rows, d)} \cup {opened - k : k \in 1 .. Closes(rows, d)}

(* crowded_moments of one day: the count after each of its events          *)
Moments(rows, d) ==
  LET running == RunningBefore(rows, d)
      closed  == running - Closes(rows, d)
  IN  {running - k : k \in 1 .. Closes(rows, d)} \cup {closed + k : k \in 1 .. Opens(rows, d)}

MaxConcurrent(rows) == Max({0} \cup UNION {Moments(rows, d) : d \in EventDays(rows)})

(* series: the highest of the counts of each day with an event             *)
Series(rows) == [d \in EventDays(rows) |-> Max(Moments(rows, d))]

(* the first of top_dates: the highest count, and of its days the earliest *)
TopDate(rows) ==
  LET series == Series(rows)
  IN  Min({d \in EventDays(rows) : \A e \in EventDays(rows) : series[e] <= series[d]})

-----------------------------------------------------------------------------
(* The requests that change what the pages show *)

Numbers == DOMAIN clues

(* The next clue of the chain, or one inserted at a number in use; its day *)
(* is today, it is in no sequence yet.                                     *)
Place(n, part) ==
  LET new == [part |-> part, date |-> today, sequence |-> Null]
  IN  clues' = [k \in {m \in Numbers : m < n} \cup {n} \cup {m + 1 : m \in {j \in Numbers : n <= j}} |->
                  CASE k < n -> clues[k] [] k = n -> new [] OTHER -> clues[k - 1]]

Post(part) == /\ LET n == Max({0} \cup Numbers) + 1
                 IN  n <= Highest /\ Place(n, part)
              /\ UNCHANGED <<today, singleDay>>

Insert(n, part) == /\ Highest \notin Numbers
                   /\ Place(n, part)
                   /\ UNCHANGED <<today, singleDay>>

(* an edit of the date: any day, or none *)
Redate(n, d) == /\ ~singleDay
                /\ clues' = [clues EXCEPT ![n].date = d]
                /\ UNCHANGED <<today, singleDay>>

(* a clue is put into an author sequence, or out of it (bound: only clues *)
(* of the user are)                                                        *)
Group(n, s) == /\ ~singleDay
               /\ clues[n].part = "author"
               /\ clues' = [clues EXCEPT ![n].sequence = s]
               /\ UNCHANGED <<today, singleDay>>

Remove(n) == /\ clues' = [k \in Numbers \ {n} |-> clues[k]]
             /\ UNCHANGED <<today, singleDay>>

Midnight == /\ ~singleDay /\ today < LastDay
            /\ today' = today + 1
            /\ UNCHANGED <<clues, singleDay>>

StatsInit == clues = [n \in {} |-> Null] /\ today = 1 /\ singleDay \in BOOLEAN

StatsNext == \/ \E part \in Part : Post(part)
             \/ \E n \in Numbers, part \in Part : Insert(n, part)
             \/ \E n \in Numbers, d \in Day \cup {Null} : Redate(n, d)
             \/ \E n \in Numbers, s \in AuthorSequence \cup {Null} : Group(n, s)
             \/ \E n \in Numbers : Remove(n)
             \/ Midnight

StatsSpec == StatsInit /\ [][StatsNext]_statsVars

-----------------------------------------------------------------------------
(* Reference definitions and properties *)

(* the members of S from x on are x, x + gap, ..., k of them, up to their last *)
IsRun(S, x, k, gap) ==
  S \cap (x .. x + gap * (k - 1)) = {x + gap * i : i \in 0 .. k - 1}

LongestRun(S, gap) ==
  Max({0} \cup {k \in 1 .. Cardinality(S) : \E x \in S : IsRun(S, x, k, gap)})

(* The streaks a profile shows are what main.py:1001-1003 defines them to  *)
(* be: the longest row of clues n, n+2, n+4, ... with none of the user's   *)
(* in between, and the row of that kind which ends at the user's latest    *)
(* clue, whatever inserts and deletes have made of the numbers.  The day   *)
(* streaks are the longest row of consecutive active days, and the row of  *)
(* active days that ends today (none if today is not active yet): days in  *)
(* the future count for the first and must not touch the second.           *)
StreaksAreRuns ==
  LET N == AuthoredNumbers
      D == ActiveDates
  IN  /\ MaxStreak(N) = LongestRun(N, 2)
      /\ CurrentStreak(N) =
           Max({0} \cup {k \in 1 .. Cardinality(N) : IsRun(N, Max(N) - 2 * (k - 1), k, 2)})
      /\ MaxDays(D) = LongestRun(D, 1)
      /\ CurrentDays(D, today) =
           Max({0} \cup {k \in 1 .. Cardinality(D) : (today - k + 1) .. today \subseteq D})

Overlap(rows, d) == Cardinality({i \in Intervals(rows) : i.start <= d /\ d <= i.end})

(* max_concurrent is the greatest number of sequences that share a day, in *)
(* particular two do not overlap when one starts on the day after the      *)
(* other's last; and the first of the top dates is the first such day (of  *)
(* a series that is short enough to be shown whole).                       *)
MostConcurrent ==
  LET rows == SequenceRows
      most == Max({0} \cup {Overlap(rows, d) : d \in Day})
  IN  /\ MaxConcurrent(rows) = most
      /\ Intervals(rows) # {} =>
           TopDate(rows) = Min({d \in Day : Overlap(rows, d) = most})

(* The series never shows too few, and shows the truth on every day before *)
(* which at most one sequence ended.                                       *)
SeriesCoversOverlap ==
  LET rows == SequenceRows
      series == Series(rows)
  IN  \A d \in EventDays(rows) :
        /\ Overlap(rows, d) <= series[d]
        /\ Closes(rows, d) <= 1 => Overlap(rows, d) = series[d]

(* The series as it is documented: how many sequences ran on each day.     *)
SeriesIsOverlap ==
  LET rows == SequenceRows
  IN  \A d \in EventDays(rows) : Series(rows)[d] = Overlap(rows, d)
=============================================================================
