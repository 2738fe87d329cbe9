------------------------------- MODULE Detect -------------------------------
(***************************************************************************)
(* What the daemon finds in a closed window (app/services/ingest/          *)
(* solutions.py): candidate solutions with a confidence, and the messages  *)
(* an LLM is to read.  The window fills message by message, the next clue  *)
(* closes it, and process_window runs detect over it.                      *)
(*                                                                         *)
(* A text is the sequence of its words, a word the numbers of its upper-   *)
(* and lower-case letters; two texts of the same shape are the same text.  *)
(* Texts without a letter, other than the empty one, and the enumeration   *)
(* a message may end with (it is cut off first thing) are left out.  The   *)
(* list NOISE_USER_IDS is empty, as it is in the program.                  *)
(***************************************************************************)
EXTENDS Integers, Sequences, SequencesExt

CONSTANTS
  User,          \* chat users
  ClueAuthor,    \* the author of the window's clue
  Content,       \* what a message may say: [words, confirms, digest]
  Enumeration,   \* enumerations of clues: [parts, hyphen]
  MaxMessages,   \* bound: messages in the window
  ShortMessage,  \* words a message for the LLM has at most: 25
  None           \* no solver known; no reply

Word == [up : Nat, low : Nat]

(* accept.py takes a clue only with an enumeration of one number or more   *)
ASSUME DetectAssumption ==
  /\ ClueAuthor \in User /\ None \notin User \cup Int
  /\ MaxMessages \in Nat /\ ShortMessage \in Nat
  /\ Content \subseteq [words : Seq(Word), confirms : {"no", "in", "whole"}, digest : Nat]
  /\ Enumeration \subseteq [parts : Seq(Nat) \ {<<>>}, hyphen : BOOLEAN]

VARIABLES
  window,        \* its messages in the order of their ids: content, user, parent
  enumeration,   \* of its clue
  solver,        \* the author of the next clue
  phase,         \* "open", "closed" or "processed"
  candidates,    \* the clue_candidates persisted
  llmWork        \* the positions of the messages enqueued for the LLM

detectVars == <<window, enumeration, solver, phase, candidates, llmWork>>

Clue == 0   \* the message_id of the clue; the window's messages are 1, 2, ...

Total(lengths) == FoldLeft(LAMBDA n, l : n + l, 0, lengths)

(* the elements of a sequence at some of its positions *)
Picked(s, positions) ==
  LET upTo[i \in 0 .. Len(s)] ==
        IF i = 0 THEN <<>>
        ELSE IF i \in positions THEN Append(upTo[i - 1], s[i]) ELSE upTo[i - 1]
  IN  upTo[Len(s)]

-----------------------------------------------------------------------------
(* Scores, in units of 1/120 (so that averages of up to four are integers) *)

DeltaScore(delta) == CASE delta = 0 -> 120 [] delta = 1 -> 72 [] delta = 2 -> 36 [] OTHER -> 12

Abs(n) == IF n < 0 THEN -n ELSE n

(* _enumeration_lengths: commas and blanks only; <<>> when it finds none *)
Parts(e) == IF e.hyphen THEN <<>> ELSE e.parts

(* Mutant: one number, too, is compared with the parts in turn *)
EnumFitByPart(lengths, e) ==
  LET parts == Parts(e)
      part(i) == DeltaScore(Abs((IF i <= Len(lengths) THEN lengths[i] ELSE 0) - parts[i]))
  IN  IF parts = <<>> THEN 0 ELSE Total([i \in DOMAIN parts |-> part(i)]) \div Len(parts)

(* _enum_fit_score *)
EnumFit(lengths, e) ==
  LET parts == Parts(e)
      part(i) == DeltaScore(Abs((IF i <= Len(lengths) THEN lengths[i] ELSE 0) - parts[i]))
  IN  IF parts = <<>> THEN 0
      ELSE IF Len(parts) = 1 \/ Len(lengths) = 1
           THEN DeltaScore(Abs(Total(lengths) - Total(parts)))
      ELSE Total([i \in DOMAIN parts |-> part(i)]) \div Len(parts)

Exact     == 120
Plausible == 72    \* 0.6

(* base weights, in tenths, and confidences, in units of 1/1200 *)
ExtractWeight     == 10
FullMessageWeight == 6
Sure              == 1200
AuthorReply       == 1080
ReplyToClue       == 720

-----------------------------------------------------------------------------
(* Reading a message *)

Size(w) == w.up + w.low

Lengths(words) == [i \in DOMAIN words |-> Size(words[i])]

Capitals(words) == Total([i \in DOMAIN words |-> words[i].up])
Letters(words)  == Total(Lengths(words))

(* a word of n capitals, as the extractions spell their answers *)
Spelt(n) == <<[up |-> n, low |-> 0]>>

CapsWords(words) ==
  Picked(words, {i \in DOMAIN words : words[i].low = 0 /\ words[i].up >= 2})

MixedCase(words) == /\ \E i \in DOMAIN words : words[i].up > 0
                    /\ \E i \in DOMAIN words : words[i].low > 0

(* Mutant: as many words as parts *)
MatchesLoosely(words, e) == Parts(e) # <<>> /\ Len(words) = Len(Parts(e))

(* _matches_enumeration *)
Matches(words, e) == Parts(e) # <<>> /\ Lengths(words) = Parts(e)

(* _extract_answer: all of it, unless it is nothing but a confirmation *)
ExtractAnswer(m) == IF m.confirms = "whole" THEN <<>> ELSE m.words

(* _verify_md5: the answer is normalised to its letters *)
Verifies(words, digest) == digest # 0 /\ Letters(words) = digest

Found(i, solution, confidence) ==
  [solution |-> solution, solver |-> window[i].user, confidence |-> confidence, source |-> i]

-----------------------------------------------------------------------------
(* detect *)

All == [i \in DOMAIN window |-> i]

(* the messages of the solver, or all when there are none *)
Searched ==
  LET theirs == Picked(All, {i \in DOMAIN window : window[i].user = solver})
  IN  IF theirs = <<>> THEN All ELSE theirs

ConcatFit(i)  == EnumFit(<<Capitals(window[i].words)>>, enumeration)
CapsFit(i)    == EnumFit(Lengths(CapsWords(window[i].words)), enumeration)
LettersFit(i) == EnumFit(<<Letters(window[i].words)>>, enumeration)
FullFit(i)    == EnumFit(Lengths(ExtractAnswer(window[i])), enumeration)

TakesConcat(i)  == Capitals(window[i].words) >= 2
TakesCaps(i)    == CapsWords(window[i].words) # <<>>
TakesLetters(i) == /\ MixedCase(window[i].words) /\ ~Matches(window[i].words, enumeration)
                   /\ Letters(window[i].words) >= 2 /\ LettersFit(i) >= Plausible
TakesFull(i)    == ExtractAnswer(window[i]) # <<>> /\ FullFit(i) >= Plausible

When(condition, c) == IF condition THEN <<c>> ELSE <<>>

(* Tier 1: what can be read off a message without the LLM *)
Extractions(i) ==
  LET words == window[i].words
  IN     When(TakesConcat(i), Found(i, Spelt(Capitals(words)), ExtractWeight * ConcatFit(i)))
      \o When(TakesCaps(i), Found(i, CapsWords(words), ExtractWeight * CapsFit(i)))
      \o When(TakesLetters(i), Found(i, Spelt(Letters(words)), ExtractWeight * LettersFit(i)))
      \o When(TakesFull(i), Found(i, ExtractAnswer(window[i]), FullMessageWeight * FullFit(i)))

(* whether one of the free classifiers hit the enumeration *)
Trusted(i) == \/ TakesConcat(i) /\ ConcatFit(i) = Exact
              \/ TakesCaps(i) /\ CapsFit(i) = Exact
              \/ TakesLetters(i) /\ LettersFit(i) = Exact

(* Tier 2: the messages whose answer the digest of message h proves *)
Proven(h) ==
  LET proves(i) == ExtractAnswer(window[i]) # <<>> /\ Verifies(ExtractAnswer(window[i]), window[h].digest)
      answers == Picked(All, {i \in DOMAIN window : proves(i)})
  IN  [k \in DOMAIN answers |-> Found(answers[k], ExtractAnswer(window[answers[k]]), Sure)]

(* Tier 3: message i confirms another one of the window for the author *)
Confirms(i) == /\ window[i].user = ClueAuthor /\ window[i].confirms # "no"
               /\ window[i].parent \in DOMAIN window

Confirmed(i) ==
  LET target == window[i].parent
  IN  When(Confirms(i), Found(target, ExtractAnswer(window[target]), AuthorReply))

(* Tier 4: the replies to the clue *)
Replied(i) == When(window[i].parent = Clue, Found(i, ExtractAnswer(window[i]), ReplyToClue))

Each(tier(_), positions) == FlattenSeq([k \in DOMAIN positions |-> tier(positions[k])])

Tiers == Each(Extractions, Searched) \o Each(Proven, All)
         \o Each(Confirmed, All) \o Each(Replied, All)

SameAnswer(c, d) == c.solution = d.solution /\ c.solver = d.solver

(* Mutant: the first one stays, whatever its confidence *)
DedupeFirst(found) ==
  {found[k] : k \in {j \in DOMAIN found : \A i \in 1..(j - 1) : ~SameAnswer(found[i], found[j])}}

(* _dedupe: of the candidates for one answer the first of the best stays *)
Dedupe(found) ==
  LET beats(j, k) == /\ SameAnswer(found[j], found[k])
                     /\ \/ found[j].confidence > found[k].confidence
                        \/ found[j].confidence = found[k].confidence /\ j < k
  IN  {found[k] : k \in {i \in DOMAIN found : \A j \in DOMAIN found : ~beats(j, i)}}

(* Tier 5: _looks_like_wordplay *)
Wordplay(i) == /\ window[i].words # <<>> /\ ~Matches(window[i].words, enumeration)
               /\ Len(window[i].words) <= ShortMessage

-----------------------------------------------------------------------------

DetectInit ==
  /\ window = <<>> /\ candidates = {} /\ llmWork = {}
  /\ enumeration \in Enumeration
  /\ solver = None /\ phase = "open"

(* a message of the chat, which may reply to the clue or to an earlier one *)
Post(content, user, parent) ==
  /\ phase = "open" /\ Len(window) < MaxMessages
  /\ window' = Append(window, [words |-> content.words, confirms |-> content.confirms,
                               digest |-> content.digest, user |-> user, parent |-> parent])
  /\ UNCHANGED <<enumeration, solver, phase, candidates, llmWork>>

(* on_clue: the author of the next clue, when the event names one *)
Close(user) ==
  /\ phase = "open"
  /\ phase' = "closed" /\ solver' = user
  /\ UNCHANGED <<window, enumeration, candidates, llmWork>>

(* process_window, for the first time of this clue: no message has a       *)
(* candidate or a task yet that would make it skip the message             *)
Process ==
  /\ phase = "closed"
  /\ phase' = "processed"
  /\ candidates' = Dedupe(Tiers)
  /\ llmWork' = {i \in ToSet(Searched) : ~Trusted(i) /\ Wordplay(i)}
  /\ UNCHANGED <<window, enumeration, solver>>

DetectNext == \/ \E content \in Content, user \in User, parent \in {None, Clue} \cup DOMAIN window :
                   Post(content, user, parent)
              \/ \E user \in User \cup {None} : Close(user)
              \/ Process

DetectSpec == DetectInit /\ [][DetectNext]_detectVars

-----------------------------------------------------------------------------
(* Correctness *)

Listed(i, solution, confidence) ==
  \E c \in candidates : /\ c.solver = window[i].user /\ c.solution = solution
                        /\ c.confidence >= confidence

(* An answer is listed once per solver, and evidence is never lost to a    *)
(* weaker reading of it: what a digest proves is listed with full          *)
(* confidence, what the author confirms with 0.9 and what replies to the   *)
(* clue with 0.6 at least, whatever the deterministic extractions made of  *)
(* the same messages before.                                               *)
EvidenceCounts ==
  phase = "processed" =>
    /\ \A c, d \in candidates : SameAnswer(c, d) => c = d
    /\ \A i \in DOMAIN window : ExtractAnswer(window[i]) # <<>> =>
         /\ (\E h \in DOMAIN window : Verifies(window[i].words, window[h].digest)) =>
              Listed(i, window[i].words, Sure)
         /\ (\E h \in DOMAIN window : Confirms(h) /\ window[h].parent = i) =>
              Listed(i, window[i].words, AuthorReply)
         /\ window[i].parent = Clue => Listed(i, window[i].words, ReplyToClue)

Readings(i) == {Spelt(Capitals(window[i].words)), CapsWords(window[i].words),
                Spelt(Letters(window[i].words)), window[i].words}

(* No message of the solver falls through between the free extractions and *)
(* the LLM: it is enqueued, or one of its readings is listed at 0.6 or     *)
(* more.  Bare confirmations are excepted: an answer that reads like one   *)
(* ("nice", where the enumeration is four) is neither listed nor enqueued. *)
NothingOverlooked ==
  phase = "processed" => \A i \in DOMAIN window :
    /\ window[i].user = solver
    /\ window[i].confirms # "whole"
    /\ Len(window[i].words) \in 1..ShortMessage
    => i \in llmWork \/ \E r \in Readings(i) : Listed(i, r, FullMessageWeight * Exact)

(* Two or more capitals that fit the enumeration exactly are listed with   *)
(* full confidence, as solutions.py:17-19 has it, unless the enumeration   *)
(* has a hyphen: accept.py takes such clues, _enumeration_lengths does not *)
(* read their enumeration, and then no extraction is worth anything.  (One *)
(* capital is never read as the answer, not even to a clue of one letter.) *)
ExactCapitalsAreSure ==
  phase = "processed" => \A i \in DOMAIN window :
    /\ window[i].user = solver
    /\ Capitals(window[i].words) >= 2
    /\ Capitals(window[i].words) = Total(enumeration.parts)
    => enumeration.hyphen \/ Listed(i, Spelt(Capitals(window[i].words)), Sure)

=============================================================================
