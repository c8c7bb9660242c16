---------------------------- MODULE Download_proofs ----------------------------
(***************************************************************************)
(* For any commands, titles, sizes and retries: a document has its pages   *)
(* in order and all of them, and a file that ends in .pdf is the whole     *)
(* document last reported as saved, or not there, unless two commands have *)
(* had its temporary file at a time.                                       *)
(***************************************************************************)
EXTENDS Download, SequenceTheorems, TLAPS

\* What a command has collected are the covers of the chunks that are done; the
\* tasks of later chunks have not been asked for.
CollectInv ==
    /\ at \in [Requests -> Steps]
    /\ deck \in [Requests -> Seq(Nat)]
    /\ next \in [Requests -> Nat]
    /\ pages \in [Requests -> Seq(Nat)]
    /\ slide \in [Requests -> Seq(Tasks)]
    /\ \A r \in Requests :
          /\ Len(slide[r]) = Len(deck[r])
          /\ next[r] <= Len(deck[r])
          /\ Len(pages[r]) = next[r]
          /\ \A i \in 1 .. next[r] : pages[r][i] = deck[r][i]
          /\ at[r] \in {"idle", "asking"} => next[r] = 0
          /\ at[r] \in {"building", "creating", "writing", "renaming", "saved"} =>
                next[r] = Len(deck[r])

\* A task that will ask again has a retry left.
RetryInv ==
    \A r \in Requests : \A i \in 1 .. Len(slide[r]) :
        /\ slide[r][i].state = "unasked" => slide[r][i].attempt = 0
        /\ slide[r][i].state = "pausing" => slide[r][i].attempt <= MaxRetries

FilesType ==
    /\ title \in [Requests -> Titles]
    /\ handle \in [Requests -> {"none", "tmp", "pdf", "unlinked"}]
    /\ tmp \in [Titles -> Contents] /\ pdf \in [Titles -> Contents]
    /\ last \in [Titles -> Requests \cup {"absent"}]
    /\ crossed \subseteq Titles

\* Until two commands cross, one that has created the temporary file has it to itself.
OwnInv ==
    \A r \in Requests : Name(r) \notin crossed =>
        /\ at[r] \in {"writing", "renaming"} => ~InUse(r)
        /\ at[r] = "writing" => handle[r] = "tmp" /\ tmp[Name(r)] = "empty"
        /\ at[r] = "renaming" => tmp[Name(r)] = r

\* Only a command that writes has a file open.
HandleInv == \A r \in Requests : at[r] \notin {"writing", "renaming"} => handle[r] = "none"

\* The histories: a name's last report is that of one of its saved commands, if it has
\* one; only a name of two commands is ever crossed.
HistoryInv ==
    /\ \A f \in Titles : last[f] # "absent" => Name(last[f]) = f /\ at[last[f]] = "saved"
    /\ \A r \in Requests : at[r] = "saved" => last[Name(r)] # "absent"
    /\ \A r \in Requests : Name(r) \in crossed => ~Alone(r)

FilesInv == FilesType /\ OwnInv /\ HandleInv /\ HistoryInv /\ SavedIsThere

DownloadInv == CollectInv /\ RetryInv /\ FilesInv

LEMMA DownloadInit == Init => DownloadInv
<1> SUFFICES ASSUME Init PROVE DownloadInv
  OBVIOUS
<1>1. CollectInv /\ RetryInv
  BY DEF Init, CollectInv, RetryInv, Steps
<1>2. FilesType
  BY DEF Init, FilesType, Contents
<1>3. OwnInv /\ HandleInv /\ HistoryInv /\ SavedIsThere
  BY <1>2 DEF Init, OwnInv, HandleInv, HistoryInv, SavedIsThere, Name, FilesType
<1>. QED  BY <1>1, <1>2, <1>3 DEF DownloadInv, FilesInv

-----------------------------------------------------------------------------
(* Collecting the pages.                                                   *)

LEMMA ChunkEnds ==
    ASSUME CollectInv, NEW r \in Requests
    PROVE  /\ ChunkEnd(r) \in Nat
           /\ next[r] <= ChunkEnd(r) /\ ChunkEnd(r) <= Len(deck[r])
           /\ Chunk(r) \subseteq 1 .. Len(slide[r])
<1>1. next[r] \in Nat /\ Len(deck[r]) \in Nat /\ next[r] <= Len(deck[r])
  BY DEF CollectInv
<1>. QED  BY <1>1, DownloadAssumption DEF ChunkEnd, Chunk, CollectInv

\* A step that leaves the pages and the tasks alone, and moves no command to a
\* place it should not come to.
LEMMA CollectKept ==
    ASSUME CollectInv, RetryInv, UNCHANGED <<deck, next, slide, pages>>,
           at' \in [Requests -> Steps],
           \A r \in Requests :
              at'[r] # at[r] =>
                /\ at'[r] \notin {"idle", "building"}
                /\ at'[r] = "asking" => at[r] = "idle"
                /\ at'[r] \in {"creating", "writing", "renaming", "saved"} =>
                      at[r] \in {"building", "creating", "writing", "renaming"}
    PROVE  CollectInv' /\ RetryInv'
BY DEF CollectInv, RetryInv

LEMMA AnsweredCollects ==
    ASSUME CollectInv, RetryInv, NEW r \in Requests, Answered(r)
    PROVE  CollectInv' /\ RetryInv'
<1>0. PICK n \in 1 .. MaxSlides[r] : \E covers \in [1 .. n -> 1 .. MaxSlides[r]] :
         /\ deck' = [deck EXCEPT ![r] = covers]
         /\ slide' = [slide EXCEPT ![r] =
               [i \in 1 .. n |-> [state |-> "unasked", attempt |-> 0]]]
  BY DEF Answered
<1>1. PICK covers \in [1 .. n -> 1 .. MaxSlides[r]] :
         /\ deck' = [deck EXCEPT ![r] = covers]
         /\ slide' = [slide EXCEPT ![r] =
               [i \in 1 .. n |-> [state |-> "unasked", attempt |-> 0]]]
  BY <1>0
<1>2. MaxSlides[r] \in Nat /\ n \in Nat
  BY DownloadAssumption
<1>3. covers \in Seq(Nat) /\ Len(covers) = n
  BY <1>2
<1> DEFINE fresh == [i \in 1 .. n |-> [state |-> "unasked", attempt |-> 0]]
<1>4. [state |-> "unasked", attempt |-> 0] \in Tasks
  BY DownloadAssumption DEF Tasks
<1>5. fresh \in Seq(Tasks) /\ Len(fresh) = n
  BY <1>2, <1>4
<1>6. /\ deck' \in [Requests -> Seq(Nat)] /\ slide' \in [Requests -> Seq(Tasks)]
      /\ deck'[r] = covers /\ slide'[r] = fresh
      /\ \A q \in Requests \ {r} : deck'[q] = deck[q] /\ slide'[q] = slide[q]
  BY <1>1, <1>3, <1>5 DEF CollectInv
<1>7. /\ at[r] = "asking" /\ at' = [at EXCEPT ![r] = "fetching"]
      /\ UNCHANGED <<next, pages>>
  BY DEF Answered, Goes
<1>8. \A i \in 1 .. n : fresh[i] = [state |-> "unasked", attempt |-> 0]
  OBVIOUS
<1> HIDE DEF fresh
<1>9. next[r] = 0 /\ Len(pages[r]) = 0
  BY <1>7 DEF CollectInv
<1>10. at' \in [Requests -> Steps]
  BY <1>7 DEF CollectInv, Steps
<1>11. CollectInv'
  <2> SUFFICES ASSUME NEW q \in Requests
        PROVE  /\ Len(slide'[q]) = Len(deck'[q])
               /\ next'[q] <= Len(deck'[q])
               /\ Len(pages'[q]) = next'[q]
               /\ \A i \in 1 .. next'[q] : pages'[q][i] = deck'[q][i]
               /\ at'[q] \in {"idle", "asking"} => next'[q] = 0
               /\ at'[q] \in {"building", "creating", "writing", "renaming", "saved"} =>
                     next'[q] = Len(deck'[q])
    BY <1>6, <1>7, <1>10 DEF CollectInv
  <2>1. CASE q = r
    BY <2>1, <1>2, <1>3, <1>5, <1>6, <1>7, <1>9 DEF CollectInv
  <2>2. CASE q # r
    BY <2>2, <1>6, <1>7 DEF CollectInv
  <2>. QED  BY <2>1, <2>2
<1>12. RetryInv'
  <2> SUFFICES ASSUME NEW q \in Requests, NEW i \in 1 .. Len(slide'[q])
        PROVE  /\ slide'[q][i].state = "unasked" => slide'[q][i].attempt = 0
               /\ slide'[q][i].state = "pausing" => slide'[q][i].attempt <= MaxRetries
    BY DEF RetryInv
  <2>1. CASE q = r
    <3>1. i \in 1 .. n /\ slide'[q][i] = fresh[i]
      BY <2>1, <1>5, <1>6
    <3>2. slide'[q][i].state = "unasked" /\ slide'[q][i].attempt = 0
      BY <3>1, <1>8
    <3>. QED  BY <3>2
  <2>2. CASE q # r
    BY <2>2, <1>6 DEF RetryInv
  <2>. QED  BY <2>1, <2>2
<1>. QED  BY <1>11, <1>12

LEMMA SlideCollects ==
    ASSUME CollectInv, RetryInv, NEW r \in Requests, NEW i, SlideStep(r, i)
    PROVE  CollectInv' /\ RetryInv'
<1>1. /\ i \in Chunk(r) /\ i \in 1 .. Len(slide[r])
      /\ UNCHANGED <<at, deck, next, pages>>
  BY ChunkEnds DEF SlideStep, AskSlide, SlideArrives, SlideFails
<1>2. slide[r][i] \in Tasks /\ slide[r] \in Seq(Tasks)
  BY <1>1 DEF CollectInv
<1>3. PICK task \in Tasks :
         /\ slide' = [slide EXCEPT ![r][i] = task]
         /\ task.state # "unasked"
         /\ task.state = "pausing" => task.attempt <= MaxRetries
  <2>1. CASE AskSlide(r, i)
    <3>1. slide[r][i].attempt + 1 \in 0 .. MaxRetries + 1
      BY <1>1, <1>2, <2>1, DownloadAssumption DEF AskSlide, RetryInv, Tasks
    <3>2. [state |-> "asking", attempt |-> slide[r][i].attempt + 1] \in Tasks
      BY <3>1 DEF Tasks
    <3>. QED  BY <2>1, <3>2 DEF AskSlide
  <2>2. CASE SlideArrives(r, i)
    <3>1. [slide[r][i] EXCEPT !.state = "fetched"] \in Tasks
      BY <1>2 DEF Tasks
    <3>. QED  BY <2>2, <3>1, <1>2 DEF SlideArrives, Tasks
  <2>3. CASE SlideFails(r, i)
    <3> DEFINE s == IF slide[r][i].attempt > MaxRetries THEN "failed" ELSE "pausing"
    <3>1. [slide[r][i] EXCEPT !.state = s] \in Tasks
      BY <1>2 DEF Tasks
    <3>2. s = "pausing" => slide[r][i].attempt <= MaxRetries
      BY <1>2, DownloadAssumption DEF Tasks
    <3>. QED  BY <2>3, <3>1, <3>2, <1>2 DEF SlideFails, Tasks
  <2>. QED  BY <2>1, <2>2, <2>3 DEF SlideStep
<1>4. /\ slide' \in [Requests -> Seq(Tasks)]
      /\ slide'[r] = [slide[r] EXCEPT ![i] = task]
      /\ Len(slide'[r]) = Len(slide[r])
      /\ \A q \in Requests \ {r} : slide'[q] = slide[q]
  BY <1>1, <1>2, <1>3 DEF CollectInv
<1>5. CollectInv'
  BY <1>1, <1>4 DEF CollectInv
<1>6. RetryInv'
  BY <1>2, <1>3, <1>4 DEF RetryInv
<1>. QED  BY <1>5, <1>6

\* What is collected, with the next covers of the deck behind it, is again the
\* start of the deck.
LEMMA NextPages ==
    ASSUME NEW d \in Seq(Nat), NEW p \in Seq(Nat), NEW m \in Nat,
           Len(p) <= m, m <= Len(d), \A i \in 1 .. Len(p) : p[i] = d[i]
    PROVE  LET longer == p \o SubSeq(d, Len(p) + 1, m)
           IN  /\ longer \in Seq(Nat) /\ Len(longer) = m
               /\ \A i \in 1 .. m : longer[i] = d[i]
<1> DEFINE more == SubSeq(d, Len(p) + 1, m)
<1>1. Len(p) \in Nat /\ Len(d) \in Nat
  OBVIOUS
<1>2. /\ more \in Seq(Nat) /\ Len(more) = m - Len(p)
      /\ \A i \in 1 .. m - Len(p) : more[i] = d[Len(p) + i]
  BY <1>1
<1> HIDE DEF more
<1>3. /\ p \o more \in Seq(Nat) /\ Len(p \o more) = Len(p) + Len(more)
      /\ \A i \in 1 .. Len(p) + Len(more) :
            (p \o more)[i] = IF i <= Len(p) THEN p[i] ELSE more[i - Len(p)]
  BY <1>2, ConcatProperties
<1>4. Len(p) + Len(more) = m
  BY <1>1, <1>2
<1>5. ASSUME NEW i \in 1 .. m
      PROVE  (p \o more)[i] = d[i]
  <2>1. CASE i <= Len(p)
    BY <1>1, <1>3, <1>4, <2>1
  <2>2. CASE ~(i <= Len(p))
    <3>1. i - Len(p) \in 1 .. m - Len(p) /\ Len(p) + (i - Len(p)) = i
      BY <1>1, <2>2
    <3>2. more[i - Len(p)] = d[i]
      BY <1>2, <3>1
    <3>. QED  BY <1>3, <1>4, <2>2, <3>2
  <2>. QED  BY <2>1, <2>2
<1>. QED  BY <1>3, <1>4, <1>5 DEF more

LEMMA ChunkCollects ==
    ASSUME CollectInv, RetryInv, NEW r \in Requests, CollectChunk(r)
    PROVE  CollectInv' /\ RetryInv'
<1> DEFINE d == deck[r]  n == next[r]  m == ChunkEnd(r)
           more == SubSeq(d, n + 1, m)
<1>1. d \in Seq(Nat) /\ n \in Nat /\ m \in Nat /\ n <= m /\ m <= Len(d)
  BY ChunkEnds DEF CollectInv
<1>2. /\ pages[r] \in Seq(Nat) /\ Len(pages[r]) = n
      /\ \A i \in 1 .. n : pages[r][i] = d[i]
  BY DEF CollectInv
<1> HIDE DEF d, n, m
<1>4. /\ pages[r] \o more \in Seq(Nat) /\ Len(pages[r] \o more) = m
      /\ \A i \in 1 .. m : (pages[r] \o more)[i] = d[i]
  BY <1>1, <1>2, NextPages
<1> HIDE DEF more
<1>6. /\ pages' = [pages EXCEPT ![r] = pages[r] \o more]
      /\ next' = [next EXCEPT ![r] = m]
      /\ at' = [at EXCEPT ![r] = IF next'[r] = Len(d) THEN "building" ELSE "fetching"]
      /\ UNCHANGED <<deck, slide>>
  BY DEF CollectChunk, Goes, more, m, n, d
<1>7. /\ pages' \in [Requests -> Seq(Nat)] /\ next' \in [Requests -> Nat]
      /\ at' \in [Requests -> Steps]
      /\ pages'[r] = pages[r] \o more /\ next'[r] = m
      /\ at'[r] \in {"building", "fetching"} /\ at'[r] = "building" => m = Len(d)
      /\ \A q \in Requests \ {r} :
            pages'[q] = pages[q] /\ next'[q] = next[q] /\ at'[q] = at[q]
  BY <1>1, <1>4, <1>6 DEF CollectInv, Steps
<1>8. CollectInv'
  <2> SUFFICES ASSUME NEW q \in Requests
        PROVE  /\ Len(slide'[q]) = Len(deck'[q])
               /\ next'[q] <= Len(deck'[q])
               /\ Len(pages'[q]) = next'[q]
               /\ \A i \in 1 .. next'[q] : pages'[q][i] = deck'[q][i]
               /\ at'[q] \in {"idle", "asking"} => next'[q] = 0
               /\ at'[q] \in {"building", "creating", "writing", "renaming", "saved"} =>
                     next'[q] = Len(deck'[q])
    BY <1>6, <1>7 DEF CollectInv
  <2>1. CASE q = r
    BY <2>1, <1>1, <1>4, <1>6, <1>7 DEF CollectInv, d
  <2>2. CASE q # r
    BY <2>2, <1>6, <1>7 DEF CollectInv
  <2>. QED  BY <2>1, <2>2
<1>. QED  BY <1>6, <1>8 DEF RetryInv

-----------------------------------------------------------------------------
(* The files.                                                              *)

\* A step of r leaves the files of other names alone.  Unless it crosses another
\* command, it finds nobody else with the temporary file, or leaves that as it is.
LEMMA FilesStep ==
    ASSUME FilesInv, at \in [Requests -> Steps], NEW r \in Requests, NEW s \in Steps,
           at[r] # "saved", at' = [at EXCEPT ![r] = s], title' = title,
           handle' \in [Requests -> {"none", "tmp", "pdf", "unlinked"}],
           tmp' \in [Titles -> Contents], pdf' \in [Titles -> Contents],
           \A f \in Titles \ {Name(r)} : tmp'[f] = tmp[f] /\ pdf'[f] = pdf[f],
           \A q \in Requests : Name(q) # Name(r) => handle'[q] = handle[q],
           \A q \in Requests \ {r} : handle[q] = "none" => handle'[q] = "none",
           s \notin {"writing", "renaming"} => handle'[r] = "none",
           last' = IF s = "saved" THEN [last EXCEPT ![Name(r)] = r] ELSE last,
           crossed' = crossed \/ (InUse(r) /\ crossed' = crossed \cup {Name(r)}),
           Name(r) \notin crossed' =>
              /\ pdf'[Name(r)] = IF s = "saved" THEN r ELSE pdf[Name(r)]
              /\ s = "writing" => handle'[r] = "tmp" /\ tmp'[Name(r)] = "empty"
              /\ s = "renaming" => tmp'[Name(r)] = r
              /\ \/ ~InUse(r)
                 \/ s \notin {"writing", "renaming"} /\ UNCHANGED <<handle, tmp>>
    PROVE  FilesInv'
<1>1. /\ at'[r] = s
      /\ \A q \in Requests \ {r} : at'[q] = at[q]
      /\ \A q \in Requests : Name(q)' = Name(q) /\ Name(q) \in Titles
      /\ \A q \in Requests : Alone(q)' <=> Alone(q)
  BY DEF FilesInv, FilesType, Name, Alone
<1>2. FilesType'
  <2>1. last' \in [Titles -> Requests \cup {"absent"}]
    BY DEF FilesInv, FilesType
  <2>2. crossed' \subseteq Titles
    BY <1>1 DEF FilesInv, FilesType
  <2>3. title' \in [Requests -> Titles]
    BY DEF FilesInv, FilesType
  <2>. QED  BY <2>1, <2>2, <2>3 DEF FilesType
<1>3. crossed \subseteq crossed' /\ \A f \in Titles \ {Name(r)} : f \in crossed' => f \in crossed
  OBVIOUS
<1>4. OwnInv'
  <2> SUFFICES ASSUME NEW q \in Requests, Name(q) \notin crossed'
        PROVE  /\ at'[q] \in {"writing", "renaming"} => ~InUse(q)'
               /\ at'[q] = "writing" => handle'[q] = "tmp" /\ tmp'[Name(q)] = "empty"
               /\ at'[q] = "renaming" => tmp'[Name(q)] = q
    BY <1>1 DEF OwnInv
  <2>1. Name(q) \notin crossed
    BY <1>3
  <2>2. CASE q = r
    <3>1. s \in {"writing", "renaming"} => ~InUse(r)'
      BY <2>2, <1>1 DEF InUse
    <3>. QED  BY <2>2, <3>1, <1>1
  <2>3. CASE q # r /\ Name(q) # Name(r)
    <3>1. InUse(q)' => InUse(q)
      BY <2>3, <1>1 DEF InUse
    <3>. QED  BY <2>1, <2>3, <3>1, <1>1 DEF FilesInv, OwnInv
  <2>4. CASE q # r /\ Name(q) = Name(r) /\ ~InUse(r)
    BY <2>4, <1>1 DEF InUse
  <2>5. CASE q # r /\ Name(q) = Name(r) /\ InUse(r)
    <3>1. s \notin {"writing", "renaming"} /\ UNCHANGED <<handle, tmp>>
      BY <2>5
    <3>2. InUse(q)' => InUse(q)
      BY <3>1, <1>1 DEF InUse
    <3>. QED  BY <2>1, <2>5, <3>1, <3>2, <1>1 DEF FilesInv, OwnInv
  <2>. QED  BY <2>2, <2>3, <2>4, <2>5
<1>5. HandleInv'
  BY <1>1 DEF FilesInv, HandleInv
<1>6. HistoryInv'
  <2>1. r # "absent"
    BY DownloadAssumption
  <2>2. ASSUME NEW f \in Titles, last'[f] # "absent"
        PROVE  (Name(last[f]) = f)' /\ (at[last[f]])' = "saved"
    <3>1. CASE last'[f] = r
      <4>1. s = "saved" /\ f = Name(r)
        BY <3>1, <2>1 DEF FilesInv, FilesType, HistoryInv
      <4>. QED  BY <3>1, <4>1, <1>1
    <3>2. CASE last'[f] # r
      <4>1. last'[f] = last[f] /\ last[f] \in Requests \ {r}
        BY <2>2, <3>2 DEF FilesInv, FilesType
      <4>. QED  BY <4>1, <2>2, <1>1 DEF FilesInv, HistoryInv
    <3>. QED  BY <3>1, <3>2
  <2>3. ASSUME NEW q \in Requests, at'[q] = "saved" PROVE last'[Name(q)] # "absent"
    BY <2>1, <2>3, <1>1 DEF FilesInv, FilesType, HistoryInv
  <2>4. ASSUME NEW q \in Requests, Name(q) \in crossed' PROVE ~Alone(q)
    <3>1. CASE Name(q) \in crossed
      BY <3>1 DEF FilesInv, HistoryInv
    <3>2. CASE Name(q) = Name(r) /\ InUse(r)
      BY <3>2 DEF InUse, Alone, Name
    <3>. QED  BY <2>4, <3>1, <3>2
  <2>. QED  BY <1>1, <2>2, <2>3, <2>4 DEF HistoryInv
<1>7. SavedIsThere'
  <2> SUFFICES ASSUME NEW f \in Titles, f \notin crossed' PROVE pdf'[f] = last'[f]
    BY DEF SavedIsThere
  <2>1. pdf[f] = last[f]
    BY <1>3 DEF FilesInv, SavedIsThere
  <2>. QED  BY <2>1, <1>1 DEF FilesInv, FilesType
<1>. QED  BY <1>2, <1>4, <1>5, <1>6, <1>7 DEF FilesInv

\* A step that goes on without touching a file.
LEMMA FilesKept ==
    ASSUME FilesInv, at \in [Requests -> Steps], NEW r \in Requests,
           NEW s \in Steps \ {"writing", "renaming", "saved"},
           at[r] \notin {"writing", "renaming", "saved"},
           at' = [at EXCEPT ![r] = s],
           UNCHANGED <<title, files>>
    PROVE  FilesInv'
<1>1. Name(r) \in Titles /\ UNCHANGED <<handle, tmp, pdf, last, crossed>>
  BY DEF FilesInv, FilesType, Name, files
<1>2. /\ handle' \in [Requests -> {"none", "tmp", "pdf", "unlinked"}]
      /\ tmp' \in [Titles -> Contents] /\ pdf' \in [Titles -> Contents]
  BY <1>1 DEF FilesInv, FilesType
<1>3. handle[r] = "none"
  BY DEF FilesInv, HandleInv
<1>. QED  BY <1>1, <1>2, <1>3, FilesStep

\* No content of a file is mistaken for its absence.
LEMMA ContentsDiffer ==
    ASSUME NEW r \in Requests, NEW c \in Contents
    PROVE  /\ r \notin {"absent", "empty", "torn"}
           /\ Put(c, r) \in Contents /\ Put(c, r) # "absent"
           /\ Put("empty", r) = r
BY DownloadAssumption DEF Put, Contents

LEMMA CreateFiles ==
    ASSUME DownloadInv, NEW r \in Requests, Create(r)
    PROVE  FilesInv'
<1>1. FilesInv /\ at \in [Requests -> Steps] /\ FilesType /\ OwnInv /\ Name(r) \in Titles
  BY DEF DownloadInv, FilesInv, CollectInv, FilesType, Name
<1>2. /\ at[r] = "creating" /\ at' = [at EXCEPT ![r] = "writing"]
      /\ tmp' = [tmp EXCEPT ![Name(r)] = "empty"]
      /\ handle' = [handle EXCEPT ![r] = "tmp"]
      /\ crossed' = IF InUse(r) THEN crossed \cup {Name(r)} ELSE crossed
      /\ UNCHANGED <<title, pdf, last>>
  BY DEF Create, Goes, Crosses
<1>3. /\ handle' \in [Requests -> {"none", "tmp", "pdf", "unlinked"}]
      /\ tmp' \in [Titles -> Contents] /\ pdf' \in [Titles -> Contents]
      /\ handle'[r] = "tmp" /\ tmp'[Name(r)] = "empty"
      /\ \A f \in Titles \ {Name(r)} : tmp'[f] = tmp[f] /\ pdf'[f] = pdf[f]
      /\ \A q \in Requests : Name(q) # Name(r) => handle'[q] = handle[q]
      /\ \A q \in Requests \ {r} : handle'[q] = handle[q]
  BY <1>1, <1>2 DEF FilesType, Contents
<1>4. Name(r) \notin crossed' => ~InUse(r)
  BY <1>2
<1>5. "writing" \in Steps
  BY DEF Steps
<1>. QED  BY <1>1, <1>2, <1>3, <1>4, <1>5, FilesStep

LEMMA WriteFiles ==
    ASSUME DownloadInv, NEW r \in Requests, Write(r)
    PROVE  FilesInv'
<1>1. FilesInv /\ at \in [Requests -> Steps] /\ FilesType /\ OwnInv /\ Name(r) \in Titles
  BY DEF DownloadInv, FilesInv, CollectInv, FilesType, Name
<1>2. /\ at[r] = "writing" /\ at' = [at EXCEPT ![r] = "renaming"]
      /\ tmp' = IF handle[r] = "tmp" THEN [tmp EXCEPT ![Name(r)] = Put(@, r)] ELSE tmp
      /\ pdf' = IF handle[r] = "pdf" THEN [pdf EXCEPT ![Name(r)] = Put(@, r)] ELSE pdf
      /\ UNCHANGED <<title, handle, last, crossed>>
  BY DEF Write, Goes
<1>3. /\ tmp[Name(r)] \in Contents /\ pdf[Name(r)] \in Contents
      /\ Put(tmp[Name(r)], r) \in Contents
      /\ Put(pdf[Name(r)], r) \in Contents /\ Put(pdf[Name(r)], r) # "absent"
  BY <1>1, ContentsDiffer DEF FilesType
<1>4. /\ handle' \in [Requests -> {"none", "tmp", "pdf", "unlinked"}]
      /\ tmp' \in [Titles -> Contents] /\ pdf' \in [Titles -> Contents]
      /\ \A f \in Titles \ {Name(r)} : tmp'[f] = tmp[f] /\ pdf'[f] = pdf[f]
  BY <1>1, <1>2, <1>3 DEF FilesType
<1>5. Name(r) \notin crossed => tmp'[Name(r)] = r /\ pdf' = pdf /\ ~InUse(r)
  <2> SUFFICES ASSUME Name(r) \notin crossed
               PROVE  tmp'[Name(r)] = r /\ pdf' = pdf /\ ~InUse(r)
    OBVIOUS
  <2>1. handle[r] = "tmp" /\ tmp[Name(r)] = "empty" /\ ~InUse(r)
    BY <1>1, <1>2 DEF OwnInv
  <2>2. Put(tmp[Name(r)], r) = r
    BY <2>1 DEF Put
  <2>. QED  BY <1>1, <1>2, <2>1, <2>2 DEF FilesType
<1>6. "renaming" \in Steps
  BY DEF Steps
<1>. QED  BY <1>1, <1>2, <1>4, <1>5, <1>6, FilesStep

LEMMA WriteFailsFiles ==
    ASSUME DownloadInv, NEW r \in Requests, WriteFails(r)
    PROVE  FilesInv'
<1>1. FilesInv /\ at \in [Requests -> Steps] /\ FilesType /\ OwnInv /\ Name(r) \in Titles
  BY DEF DownloadInv, FilesInv, CollectInv, FilesType, Name
<1>2. /\ at[r] \in {"creating", "writing"} /\ at' = [at EXCEPT ![r] = "failed"]
      /\ tmp' = [tmp EXCEPT ![Name(r)] = "absent"]
      /\ pdf' = IF handle[r] = "pdf" THEN [pdf EXCEPT ![Name(r)] = "torn"] ELSE pdf
      /\ handle' = [q \in Requests |->
            IF q = r THEN "none"
            ELSE IF Name(q) = Name(r) /\ handle[q] = "tmp" THEN "unlinked" ELSE handle[q]]
      /\ crossed' = IF InUse(r) THEN crossed \cup {Name(r)} ELSE crossed
      /\ UNCHANGED <<title, last>>
  BY DEF WriteFails, Goes, Crosses
<1>3. /\ handle' \in [Requests -> {"none", "tmp", "pdf", "unlinked"}]
      /\ \A q \in Requests : Name(q) # Name(r) => handle'[q] = handle[q]
      /\ \A q \in Requests \ {r} : handle[q] = "none" => handle'[q] = "none"
      /\ handle'[r] = "none"
  BY <1>1, <1>2 DEF FilesType
<1>4. /\ tmp' \in [Titles -> Contents] /\ pdf' \in [Titles -> Contents]
      /\ \A f \in Titles \ {Name(r)} : tmp'[f] = tmp[f] /\ pdf'[f] = pdf[f]
  BY <1>1, <1>2 DEF FilesType, Contents
<1>5. Name(r) \notin crossed' => pdf' = pdf /\ ~InUse(r)
  BY <1>1, <1>2 DEF OwnInv, HandleInv, FilesInv
<1>6. "failed" \in Steps
  BY DEF Steps
<1>. QED  BY <1>1, <1>2, <1>3, <1>4, <1>5, <1>6, FilesStep

LEMMA RenameFiles ==
    ASSUME DownloadInv, NEW r \in Requests, Rename(r)
    PROVE  FilesInv'
<1>1. FilesInv /\ at \in [Requests -> Steps] /\ FilesType /\ OwnInv /\ Name(r) \in Titles
  BY DEF DownloadInv, FilesInv, CollectInv, FilesType, Name
<1>2. /\ at[r] = "renaming" /\ at' = [at EXCEPT ![r] = "saved"]
      /\ tmp[Name(r)] # "absent"
      /\ pdf' = [pdf EXCEPT ![Name(r)] = tmp[Name(r)]]
      /\ tmp' = [tmp EXCEPT ![Name(r)] = "absent"]
      /\ handle' = [q \in Requests |->
            IF q = r THEN "none"
            ELSE IF Name(q) # Name(r) \/ handle[q] = "none" THEN handle[q]
            ELSE IF handle[q] = "tmp" THEN "pdf" ELSE "unlinked"]
      /\ last' = [last EXCEPT ![Name(r)] = r]
      /\ UNCHANGED <<title, crossed>>
  BY DEF Rename, Goes
<1>3. /\ handle' \in [Requests -> {"none", "tmp", "pdf", "unlinked"}]
      /\ \A q \in Requests : Name(q) # Name(r) => handle'[q] = handle[q]
      /\ \A q \in Requests \ {r} : handle[q] = "none" => handle'[q] = "none"
      /\ handle'[r] = "none"
  BY <1>1, <1>2 DEF FilesType
<1>4. /\ tmp' \in [Titles -> Contents] /\ pdf' \in [Titles -> Contents]
      /\ \A f \in Titles \ {Name(r)} : tmp'[f] = tmp[f] /\ pdf'[f] = pdf[f]
      /\ pdf'[Name(r)] = tmp[Name(r)]
  BY <1>1, <1>2 DEF FilesType, Contents
<1>5. Name(r) \notin crossed => pdf'[Name(r)] = r /\ ~InUse(r)
  BY <1>1, <1>2, <1>4 DEF OwnInv
<1>6. "saved" \in Steps
  BY DEF Steps
<1>. QED  BY <1>1, <1>2, <1>3, <1>4, <1>5, <1>6, FilesStep

LEMMA RenameFailsFiles ==
    ASSUME DownloadInv, NEW r \in Requests, RenameFails(r)
    PROVE  FilesInv'
<1>1. FilesInv /\ at \in [Requests -> Steps] /\ FilesType /\ OwnInv /\ Name(r) \in Titles
  BY DEF DownloadInv, FilesInv, CollectInv, FilesType, Name
<1>2. /\ at[r] = "renaming" /\ at' = [at EXCEPT ![r] = "failed"]
      /\ handle' = [handle EXCEPT ![r] = "none"]
      /\ UNCHANGED <<title, tmp, pdf, last, crossed>>
  BY DEF RenameFails, Goes
<1>3. /\ handle' \in [Requests -> {"none", "tmp", "pdf", "unlinked"}]
      /\ tmp' \in [Titles -> Contents] /\ pdf' \in [Titles -> Contents]
      /\ handle'[r] = "none"
      /\ \A q \in Requests \ {r} : handle'[q] = handle[q]
  BY <1>1, <1>2 DEF FilesType
<1>4. Name(r) \notin crossed => ~InUse(r)
  BY <1>1, <1>2 DEF OwnInv
<1>5. "failed" \in Steps
  BY DEF Steps
<1>. QED  BY <1>1, <1>2, <1>3, <1>4, <1>5, FilesStep

LEMMA ExitFiles ==
    ASSUME DownloadInv, Exit
    PROVE  FilesInv'
<1>1. /\ FilesType /\ HistoryInv /\ SavedIsThere
      /\ \A r \in Requests : at'[r] = IF at[r] \in Over THEN at[r] ELSE "killed"
      /\ UNCHANGED <<title, pdf, last, crossed>>
      /\ handle' = [r \in Requests |-> "none"]
  BY DEF DownloadInv, FilesInv, Exit
<1>2. \A r \in Requests :
         /\ (at'[r] = "saved" <=> at[r] = "saved")
         /\ at'[r] \notin {"writing", "renaming"}
         /\ Name(r)' = Name(r) /\ (Alone(r)' <=> Alone(r))
  BY <1>1 DEF Over, Name, Alone
<1>3. FilesType'
  BY <1>1 DEF Exit, FilesType, Contents
<1>4. OwnInv' /\ HandleInv' /\ SavedIsThere'
  BY <1>1, <1>2 DEF OwnInv, HandleInv, SavedIsThere
<1>5. HistoryInv'
  BY <1>1, <1>2 DEF HistoryInv, FilesType, Name, Alone
<1>. QED  BY <1>3, <1>4, <1>5 DEF FilesInv

-----------------------------------------------------------------------------

LEMMA DownloadStep == DownloadInv /\ [Next]_vars => DownloadInv'
<1> SUFFICES ASSUME DownloadInv, [Next]_vars PROVE DownloadInv'
  OBVIOUS
<1>1. /\ CollectInv /\ RetryInv /\ FilesInv
      /\ at \in [Requests -> Steps]
  BY DEF DownloadInv, CollectInv
<1>2. ASSUME NEW r \in Requests, Begin(r) \/ AskFails(r) \/ ChunkFails(r) \/ Build(r) \/ BuildFails(r)
      PROVE  DownloadInv'
  <2>1. PICK s \in {"asking", "failed", "creating"} :
           /\ at' = [at EXCEPT ![r] = s] /\ UNCHANGED <<title, deck, next, slide, pages, files>>
           /\ s = "asking" => at[r] = "idle"
           /\ s = "creating" => at[r] = "building"
           /\ at[r] \notin {"writing", "renaming", "saved"}
    BY <1>2 DEF Begin, AskFails, ChunkFails, Build, BuildFails, Goes
  <2>2. s \in Steps \ {"writing", "renaming", "saved"}
    BY DEF Steps
  <2>3. FilesInv'
    BY <1>1, <2>1, <2>2, FilesKept
  <2>4. at' \in [Requests -> Steps] /\ at'[r] = s /\ \A q \in Requests \ {r} : at'[q] = at[q]
    BY <1>1, <2>1, <2>2
  <2>5. CollectInv' /\ RetryInv'
    BY <1>1, <2>1, <2>4, CollectKept
  <2>. QED  BY <2>3, <2>5 DEF DownloadInv
<1>3. ASSUME NEW r \in Requests, Answered(r) \/ CollectChunk(r)
      PROVE  DownloadInv'
  <2>1. CollectInv' /\ RetryInv'
    BY <1>1, <1>3, AnsweredCollects, ChunkCollects
  <2>2. PICK s \in {"fetching", "building"} :
           /\ at' = [at EXCEPT ![r] = s] /\ UNCHANGED <<title, files>>
           /\ at[r] \notin {"writing", "renaming", "saved"}
    BY <1>3 DEF Answered, CollectChunk, Goes
  <2>3. s \in Steps \ {"writing", "renaming", "saved"}
    BY DEF Steps
  <2>4. FilesInv'
    BY <1>1, <2>2, <2>3, FilesKept
  <2>. QED  BY <2>1, <2>4 DEF DownloadInv
<1>4. ASSUME NEW r \in Requests,
             Create(r) \/ Write(r) \/ WriteFails(r) \/ Rename(r) \/ RenameFails(r)
      PROVE  DownloadInv'
  <2>1. FilesInv'
    BY <1>4, CreateFiles, WriteFiles, WriteFailsFiles, RenameFiles, RenameFailsFiles
  <2>2. PICK s \in {"writing", "renaming", "saved", "failed"} :
           /\ at' = [at EXCEPT ![r] = s] /\ UNCHANGED <<deck, next, slide, pages>>
           /\ at[r] \in {"creating", "writing", "renaming"}
    BY <1>4 DEF Create, Write, WriteFails, Rename, RenameFails, Goes
  <2>3. s \in Steps
    BY DEF Steps
  <2>4. at' \in [Requests -> Steps] /\ at'[r] = s /\ \A q \in Requests \ {r} : at'[q] = at[q]
    BY <1>1, <2>2, <2>3
  <2>5. CollectInv' /\ RetryInv'
    BY <1>1, <2>2, <2>4, CollectKept
  <2>. QED  BY <2>1, <2>5 DEF DownloadInv
<1>5. ASSUME NEW r \in Requests, NEW i \in 1 .. MaxSlides[r], SlideStep(r, i)
      PROVE  DownloadInv'
  <2>1. CollectInv' /\ RetryInv'
    BY <1>1, <1>5, SlideCollects
  <2>2. UNCHANGED <<title, at, files>>
    BY <1>5 DEF SlideStep, AskSlide, SlideArrives, SlideFails
  <2>3. FilesInv'
    BY <1>1, <2>2 DEF FilesInv, FilesType, OwnInv, HandleInv, HistoryInv, SavedIsThere,
                            InUse, Name, Alone, files
  <2>. QED  BY <2>1, <2>3 DEF DownloadInv
<1>6. CASE Exit
  <2>1. FilesInv'
    BY <1>6, ExitFiles
  <2>2. /\ at' = [r \in Requests |-> IF at[r] \in Over THEN at[r] ELSE "killed"]
        /\ UNCHANGED <<deck, next, slide, pages>>
    BY <1>6 DEF Exit
  <2>3. at' \in [Requests -> Steps]
    BY <1>1, <2>2 DEF Over, Steps
  <2>4. \A r \in Requests : at'[r] # at[r] => at'[r] = "killed"
    BY <2>2
  <2>5. CollectInv' /\ RetryInv'
    BY <1>1, <2>2, <2>3, <2>4, CollectKept
  <2>. QED  BY <2>1, <2>5 DEF DownloadInv
<1>7. CASE UNCHANGED vars
  BY <1>7 DEF vars, requests, files, DownloadInv, CollectInv, RetryInv, FilesInv, FilesType,
              OwnInv, HandleInv, HistoryInv, SavedIsThere, InUse, Name, Alone
<1>. QED  BY <1>2, <1>3, <1>4, <1>5, <1>6, <1>7 DEF Next, RequestStep, Finished

(***************************************************************************)
(* DownloadInv holds in every behaviour.                                   *)
(***************************************************************************)
THEOREM DownloadIsSafe == Spec => []DownloadInv
<1>. QED  BY DownloadInit, DownloadStep, PTL DEF Spec

(***************************************************************************)
(* The types of the commands, their tasks and the files.                   *)
(***************************************************************************)
THEOREM DownloadTypesHold == Spec => []TypeOK
<1>1. DownloadInv => TypeOK
  BY DEF DownloadInv, CollectInv, FilesInv, FilesType, TypeOK
<1>. QED  BY <1>1, DownloadIsSafe, PTL

(***************************************************************************)
(* join_all and the chunks keep the order: a document has the page of      *)
(* every cover, in the order of the slides.                                *)
(***************************************************************************)
THEOREM PagesAreInOrder == Spec => []PagesInOrder
<1>1. DownloadInv => PagesInOrder
  <2> SUFFICES ASSUME DownloadInv, NEW r \in Requests,
                      at[r] \in {"creating", "writing", "renaming", "saved"}
               PROVE  pages[r] = deck[r]
    BY DEF PagesInOrder
  <2>1. /\ pages[r] \in Seq(Nat) /\ deck[r] \in Seq(Nat)
        /\ Len(pages[r]) = Len(deck[r])
        /\ \A i \in 1 .. Len(pages[r]) : pages[r][i] = deck[r][i]
    BY DEF DownloadInv, CollectInv
  <2>. QED  BY <2>1, SeqEqual
<1>. QED  BY <1>1, DownloadIsSafe, PTL

(***************************************************************************)
(* A file that ends in .pdf and is one command's own is the whole document *)
(* or not there, at every moment, through failures and the end of the      *)
(* process.                                                                *)
(***************************************************************************)
THEOREM DocumentsAreWhole == Spec => []PdfWhole
<1>1. DownloadInv => PdfWhole
  <2> SUFFICES ASSUME DownloadInv, NEW r \in Requests, Alone(r)
               PROVE  pdf[Name(r)] \in (IF at[r] = "saved" THEN {r} ELSE {"absent", r})
    BY DEF PdfWhole
  <2>1. Name(r) \in Titles /\ Name(r) \notin crossed /\ last[Name(r)] \in Requests \cup {"absent"}
    BY DEF DownloadInv, FilesInv, FilesType, HistoryInv, Name
  <2>2. pdf[Name(r)] = last[Name(r)]
    BY <2>1 DEF DownloadInv, FilesInv, SavedIsThere
  <2>3. last[Name(r)] # "absent" => last[Name(r)] = r
    BY <2>1 DEF DownloadInv, FilesInv, HistoryInv, Alone, Name
  <2>4. at[r] = "saved" => last[Name(r)] # "absent"
    BY DEF DownloadInv, FilesInv, HistoryInv
  <2>. QED  BY <2>2, <2>3, <2>4
<1>. QED  BY <1>1, DownloadIsSafe, PTL

(***************************************************************************)
(* A name holds the whole document of the command that last reported it as *)
(* saved, through the failures of others that use it before and after,     *)
(* until two commands have its temporary file at a time.                   *)
(***************************************************************************)
THEOREM SavedFilesAreThere == Spec => []SavedIsThere
<1>1. DownloadInv => SavedIsThere
  BY DEF DownloadInv, FilesInv
<1>. QED  BY <1>1, DownloadIsSafe, PTL
=============================================================================
