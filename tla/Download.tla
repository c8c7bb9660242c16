------------------------------- MODULE Download -------------------------------
(***************************************************************************)
(* Saving a presentation as a PDF: the command DownloadPresentation        *)
(* (app/service/api.rs), download_presentation and its tasks, one per      *)
(* slide (api/core_port/download.rs), and the building of the document     *)
(* (pdf.rs).  The command line issues one such command per presentation it *)
(* discovers, each in a task of its own.                                   *)
(*                                                                         *)
(* The images of the slides are fetched chunk by chunk, those of a chunk   *)
(* at the same time, each with retries.  The document is written to a      *)
(* temporary file and renamed.  A file name is made of the title and the   *)
(* time in seconds.                                                        *)
(***************************************************************************)
EXTENDS Naturals, Sequences

CONSTANTS
    Requests,       \* commands
    Titles,         \* a title together with the second of saving
    MaxSlides,      \* MaxSlides[r]: slides of the presentation of r (a bound)
    ChunkSize,      \* chunk_size
    MaxRetries,     \* MAX_RETRIES
    DiskMayFail     \* creating, writing and renaming the temporary file may fail

ASSUME DownloadAssumption ==
    /\ MaxSlides \in [Requests -> Nat \ {0}]
    /\ ChunkSize \in Nat \ {0}
    /\ MaxRetries \in Nat
    /\ Requests \cap {"absent", "empty", "torn"} = {}     \* a content is a request's or none
    /\ DiskMayFail \in BOOLEAN

VARIABLES
    title,          \* title[r]: of the presentation, and the second r saves it in
    at,             \* at[r]: how far the command has come
    deck,           \* deck[r]: the slides that have a cover, in order
    next,           \* next[r]: covers in the chunks that are done
    slide,          \* slide[r][i]: the task that fetches cover i
    pages,          \* pages[r]: image_bytes_results
    handle,         \* handle[r]: what the file it has open is called by now
    tmp,            \* tmp[f]: content of f.pdf.tmp
    pdf,            \* pdf[f]: content of f.pdf
    last,           \* last[f]: the command that last reported f as saved (history)
    crossed         \* names whose temporary file two commands have had at a time
                    \* (history)

requests == <<title, at, deck, next, slide, pages>>
files == <<handle, tmp, pdf, last, crossed>>
vars == <<requests, files>>

Steps == {"idle", "asking", "fetching", "building", "creating", "writing", "renaming",
          "saved", "failed", "killed"}
Over == {"saved", "failed", "killed"}
Tasks == [state: {"unasked", "asking", "pausing", "fetched", "failed"},
          attempt: 0 .. MaxRetries + 1]

\* <title>_<seconds>; the extension and the directory are the same for all.
Name(r) == title[r]

Init ==
    /\ title \in [Requests -> Titles]
    /\ at = [r \in Requests |-> "idle"]
    /\ deck = [r \in Requests |-> <<>>]
    /\ next = [r \in Requests |-> 0]
    /\ slide = [r \in Requests |-> <<>>]
    /\ pages = [r \in Requests |-> <<>>]
    /\ handle = [r \in Requests |-> "none"]
    /\ tmp = [f \in Titles |-> "absent"]
    /\ pdf = [f \in Titles |-> "absent"]
    /\ last = [f \in Titles |-> "absent"]
    /\ crossed = {}

Goes(r, step) == at' = [at EXCEPT ![r] = step]

\* The last cover of the chunk under way; slide_urls.chunks leaves a shorter rest.
ChunkEnd(r) ==
    IF next[r] + ChunkSize <= Len(deck[r]) THEN next[r] + ChunkSize ELSE Len(deck[r])

Chunk(r) == next[r] + 1 .. ChunkEnd(r)

-----------------------------------------------------------------------------
(* Asking for the presentation.                                            *)

Begin(r) ==
    /\ at[r] = "idle"
    /\ Goes(r, "asking")
    /\ UNCHANGED <<title, deck, next, slide, pages, files>>

\* No session, the check-in or the fetch fails, or no slide has a cover.
AskFails(r) ==
    /\ at[r] = "asking"
    /\ Goes(r, "failed")
    /\ UNCHANGED <<title, deck, next, slide, pages, files>>

\* Slides without a cover are left out.
Answered(r) ==
    /\ at[r] = "asking"
    /\ \E n \in 1 .. MaxSlides[r] : \E covers \in [1 .. n -> 1 .. MaxSlides[r]] :
          /\ \A i, j \in 1 .. n : i < j => covers[i] < covers[j]
          /\ deck' = [deck EXCEPT ![r] = covers]
          /\ slide' = [slide EXCEPT ![r] =
                [i \in 1 .. n |-> [state |-> "unasked", attempt |-> 0]]]
    /\ Goes(r, "fetching")
    /\ UNCHANGED <<title, next, pages, files>>

-----------------------------------------------------------------------------
(* download_slide_bytes.                                                   *)

\* Mutant: an attempt after a pause is not counted.
AskSlide_NotCounted(r, i) ==
    /\ at[r] = "fetching" /\ i \in Chunk(r)
    /\ slide[r][i].state \in {"unasked", "pausing"}
    /\ slide' = [slide EXCEPT ![r][i] = [state |-> "asking", attempt |-> 1]]
    /\ UNCHANGED <<title, at, deck, next, pages, files>>

AskSlide(r, i) ==
    /\ at[r] = "fetching" /\ i \in Chunk(r)
    /\ slide[r][i].state \in {"unasked", "pausing"}
    /\ slide' = [slide EXCEPT ![r][i] = [state |-> "asking", attempt |-> @.attempt + 1]]
    /\ UNCHANGED <<title, at, deck, next, pages, files>>

SlideArrives(r, i) ==
    /\ at[r] = "fetching" /\ i \in Chunk(r)
    /\ slide[r][i].state = "asking"
    /\ slide' = [slide EXCEPT ![r][i].state = "fetched"]
    /\ UNCHANGED <<title, at, deck, next, pages, files>>

\* An error, or nothing for 30 seconds.
SlideFails(r, i) ==
    /\ at[r] = "fetching" /\ i \in Chunk(r)
    /\ slide[r][i].state = "asking"
    /\ slide' = [slide EXCEPT ![r][i].state =
                    IF slide[r][i].attempt > MaxRetries THEN "failed" ELSE "pausing"]
    /\ UNCHANGED <<title, at, deck, next, pages, files>>

\* Mutant: a slide that cannot be fetched is left out.
CollectChunk_SkipsFailed(r) ==
    /\ at[r] = "fetching" /\ Chunk(r) # {}
    /\ \A i \in Chunk(r) : slide[r][i].state \in {"fetched", "failed"}
    /\ pages' = [pages EXCEPT ![r] = @ \o
          SelectSeq(SubSeq(deck[r], next[r] + 1, ChunkEnd(r)), LAMBDA cover :
              \E i \in Chunk(r) : deck[r][i] = cover /\ slide[r][i].state = "fetched")]
    /\ next' = [next EXCEPT ![r] = ChunkEnd(r)]
    /\ Goes(r, IF next'[r] = Len(deck[r]) THEN "building" ELSE "fetching")
    /\ UNCHANGED <<title, deck, slide, files>>

\* join_all returns when every task of the chunk has, with their results in
\* the order of the covers, whatever the order they came in.
CollectChunk(r) ==
    /\ at[r] = "fetching" /\ Chunk(r) # {}
    /\ \A i \in Chunk(r) : slide[r][i].state = "fetched"
    /\ pages' = [pages EXCEPT ![r] = @ \o SubSeq(deck[r], next[r] + 1, ChunkEnd(r))]
    /\ next' = [next EXCEPT ![r] = ChunkEnd(r)]
    /\ Goes(r, IF next'[r] = Len(deck[r]) THEN "building" ELSE "fetching")
    /\ UNCHANGED <<title, deck, slide, files>>

ChunkFails(r) ==
    /\ at[r] = "fetching"
    /\ \A i \in Chunk(r) : slide[r][i].state \in {"fetched", "failed"}
    /\ \E i \in Chunk(r) : slide[r][i].state = "failed"
    /\ Goes(r, "failed")
    /\ UNCHANGED <<title, deck, next, slide, pages, files>>

-----------------------------------------------------------------------------
(* Building and saving the document.                                       *)

\* The directory and the name are made out, and the pages put together.
Build(r) ==
    /\ at[r] = "building"
    /\ Goes(r, "creating")
    /\ UNCHANGED <<title, deck, next, slide, pages, files>>

\* An image does not decode, or there is no directory to save to.
BuildFails(r) ==
    /\ at[r] = "building"
    /\ Goes(r, "failed")
    /\ UNCHANGED <<title, deck, next, slide, pages, files>>

\* Another command of the same name has the temporary file in use.
InUse(r) ==
    \E q \in Requests \ {r} : Name(q) = Name(r) /\ at[q] \in {"writing", "renaming"}

Crosses(r) == crossed' = IF InUse(r) THEN crossed \cup {Name(r)} ELSE crossed

\* Mutant: there is no temporary file.
Create_InPlace(r) ==
    /\ at[r] = "creating"
    /\ pdf' = [pdf EXCEPT ![Name(r)] = "empty"]
    /\ handle' = [handle EXCEPT ![r] = "pdf"]
    /\ Goes(r, "writing")
    /\ UNCHANGED <<title, deck, next, slide, pages, tmp, last, crossed>>

\* Mutant: the file is opened as it is if there is one.
Create_KeepsOld(r) ==
    /\ at[r] = "creating"
    /\ tmp' = [tmp EXCEPT ![Name(r)] = IF @ = "absent" THEN "empty" ELSE @]
    /\ handle' = [handle EXCEPT ![r] = "tmp"]
    /\ Crosses(r)
    /\ Goes(r, "writing")
    /\ UNCHANGED <<title, deck, next, slide, pages, pdf, last>>

\* File::create: the file of that name is truncated if there is one.
Create(r) ==
    /\ at[r] = "creating"
    /\ tmp' = [tmp EXCEPT ![Name(r)] = "empty"]
    /\ handle' = [handle EXCEPT ![r] = "tmp"]
    /\ Crosses(r)
    /\ Goes(r, "writing")
    /\ UNCHANGED <<title, deck, next, slide, pages, pdf, last>>

Put(content, r) == IF content \in {"empty", r} THEN r ELSE "torn"

\* write_all writes to the open file, from its start, whatever it is called.
Write(r) ==
    /\ at[r] = "writing"
    /\ tmp' = IF handle[r] = "tmp" THEN [tmp EXCEPT ![Name(r)] = Put(@, r)] ELSE tmp
    /\ pdf' = IF handle[r] = "pdf" THEN [pdf EXCEPT ![Name(r)] = Put(@, r)] ELSE pdf
    /\ Goes(r, "renaming")
    /\ UNCHANGED <<title, deck, next, slide, pages, handle, last, crossed>>

\* The temporary file is removed; a part of it may be in a file renamed meanwhile.
WriteFails(r) ==
    /\ DiskMayFail
    /\ at[r] \in {"creating", "writing"}
    /\ tmp' = [tmp EXCEPT ![Name(r)] = "absent"]
    /\ pdf' = IF handle[r] = "pdf" THEN [pdf EXCEPT ![Name(r)] = "torn"] ELSE pdf
    /\ Goes(r, "failed")
    /\ handle' = [q \in Requests |->
          IF q = r THEN "none"
          ELSE IF Name(q) = Name(r) /\ handle[q] = "tmp" THEN "unlinked" ELSE handle[q]]
    /\ Crosses(r)
    /\ UNCHANGED <<title, deck, next, slide, pages, last>>

\* What has the temporary name moves, with the handles others have on it.
Rename(r) ==
    /\ at[r] = "renaming"
    /\ tmp[Name(r)] # "absent"
    /\ pdf' = [pdf EXCEPT ![Name(r)] = tmp[Name(r)]]
    /\ tmp' = [tmp EXCEPT ![Name(r)] = "absent"]
    /\ Goes(r, "saved")
    /\ handle' = [q \in Requests |->
          IF q = r THEN "none"
          ELSE IF Name(q) # Name(r) \/ handle[q] = "none" THEN handle[q]
          ELSE IF handle[q] = "tmp" THEN "pdf" ELSE "unlinked"]
    /\ last' = [last EXCEPT ![Name(r)] = r]
    /\ UNCHANGED <<title, deck, next, slide, pages, crossed>>

\* Another command has renamed or removed it, or the disk fails; a file that is there
\* is left.
RenameFails(r) ==
    /\ at[r] = "renaming"
    /\ DiskMayFail \/ tmp[Name(r)] = "absent"
    /\ Goes(r, "failed")
    /\ handle' = [handle EXCEPT ![r] = "none"]
    /\ UNCHANGED <<title, deck, next, slide, pages, tmp, pdf, last, crossed>>

\* The process ends: the command line when monitoring stops.
Exit ==
    /\ \E r \in Requests : at[r] \notin Over
    /\ at' = [r \in Requests |-> IF at[r] \in Over THEN at[r] ELSE "killed"]
    /\ handle' = [r \in Requests |-> "none"]
    /\ tmp' = [f \in Titles |->
          IF \E r \in Requests : Name(r) = f /\ at[r] = "writing" /\ tmp[f] # "absent"
          THEN "torn" ELSE tmp[f]]
    /\ UNCHANGED <<title, deck, next, slide, pages, pdf, last, crossed>>

SlideStep(r, i) == AskSlide(r, i) \/ SlideArrives(r, i) \/ SlideFails(r, i)

RequestStep(r) ==
    \/ Answered(r) \/ AskFails(r)
    \/ CollectChunk(r) \/ ChunkFails(r)
    \/ Build(r) \/ BuildFails(r)
    \/ Create(r) \/ Write(r) \/ WriteFails(r) \/ Rename(r) \/ RenameFails(r)

Finished == (\A r \in Requests : at[r] \in Over) /\ UNCHANGED vars

Next ==
    \/ \E r \in Requests : Begin(r) \/ RequestStep(r)
    \/ \E r \in Requests : \E i \in 1 .. MaxSlides[r] : SlideStep(r, i)
    \/ Exit
    \/ Finished

\* Requests to the server end: the client has a timeout, a slide one of its own.
Fairness ==
    /\ \A r \in Requests : WF_vars(RequestStep(r))
    /\ \A r \in Requests : \A i \in 1 .. MaxSlides[r] : WF_vars(SlideStep(r, i))

Spec == Init /\ [][Next]_vars /\ Fairness

-----------------------------------------------------------------------------
(* Properties.                                                             *)

Contents == Requests \cup {"absent", "empty", "torn"}

\* Types; a file has the content of one of the requests that use its name.
TypeOK ==
    /\ at \in [Requests -> Steps]
    /\ \A r \in Requests :
          /\ slide[r] \in Seq(Tasks) /\ Len(slide[r]) = Len(deck[r])
          /\ next[r] \in 0 .. Len(deck[r])
    /\ handle \in [Requests -> {"none", "tmp", "pdf", "unlinked"}]
    /\ tmp \in [Titles -> Contents] /\ pdf \in [Titles -> Contents]

\* A document that is written has a page for every slide with a cover, in
\* order, whatever the order the images came in and however often each was
\* asked for.
PagesInOrder ==
    \A r \in Requests :
        at[r] \in {"creating", "writing", "renaming", "saved"} => pages[r] = deck[r]

\* No other command has the same title and saves in the same second.
Alone(r) == \A q \in Requests : title[q] = title[r] => q = r

\* A name that ends in .pdf is the document of the one command that uses it, or
\* nothing, even if the process ends in the middle or the disk is full; and it
\* is the document once the command has reported it as saved.
PdfWhole ==
    \A r \in Requests : Alone(r) =>
        pdf[Name(r)] \in (IF at[r] = "saved" THEN {r} ELSE {"absent", r})

\* A name that several commands use holds the whole document of the one that last
\* reported it as saved, whatever others before and after it left behind by failing;
\* unless two have had the temporary file at a time, in which case it may be empty,
\* torn or the document of the other.
SavedIsThere == \A f \in Titles \ crossed : pdf[f] = last[f]

\* Every command returns: no slide is asked for again and again.
Returns == \A r \in Requests : at[r] # "idle" ~> at[r] \in Over
=============================================================================
