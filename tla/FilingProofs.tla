--------------------------- MODULE FilingProofs ---------------------------
(***************************************************************************)
(* What clients were told is stored stays stored, claims resolve, what is  *)
(* published was approved, and links and manifests lead to pages: for any  *)
(* contents, sources, revisions, requests, reviews and accidents.  Each    *)
(* rests on what an ingest or a filing under way has in hand, and on the   *)
(* order in which recovery may read beside them.                           *)
(***************************************************************************)
EXTENDS Filing, TLAPS

First == att.pc \in NewSteps \cup CleanSteps

\* A first ingest is of a source nobody else knows: no row, no note, nothing
\* read by a recovery, nothing acknowledged; its bytes are in place in order.
Pristine ==
  First => /\ att.r = 1 /\ row[att.s] = None /\ note[att.s] = NoNote
           /\ rec # Idle => rec[att.s] = None
           /\ \A a \in acks : a.s # att.s
           /\ att.pc \in NewSteps \ {"note"} => man[att.s] = None
           /\ att.pc \in {"page", "manifest", "note"} => dirs[att.s][1] = att.c

\* From the manifest on, the revision in hand is the current one, with its bytes.
Shown ==
  att.pc \in {"note", "look", "place", "swap", "record", "commit"} =>
     /\ Whole(att.s) /\ man[att.s].cur = att.r /\ man[att.s].ids[att.r] = att.c
     /\ dirs[att.s][att.r] = att.c

\* Before it, a new revision is the one after the current one.
Coming ==
  /\ att.pc \in {"mkdir", "fill", "supersede"} => Whole(att.s) /\ att.r = man[att.s].cur + 1
  /\ At("supersede") => dirs[att.s][att.r] = att.c

Asked ==
  /\ ~At(Idle) => att.c \in Contents
  /\ At("resolve") => claim # None
  /\ att.pc \in {"dir", "page", "manifest", "note", "place", "swap", "record", "supersede"}
       => att.at \in Paths

\* Rows, notes and a recovery under way speak of sources with a manifest.
Known ==
  \A s \in Sids :
    /\ row[s] # None => Whole(s) /\ row[s].cur <= man[s].cur
    /\ note[s] # NoNote => Whole(s)
    /\ rec # Idle /\ rec[s] # None => Whole(s) /\ rec[s].cur <= man[s].cur

\* A filing is of a source with a row, and carries a page it has read.
Carrying ==
  /\ ~Filed(Idle) => row[fil.s] # None /\ review[fil.s] # None
  /\ HoldsSource => fil.text \in Pages
  /\ ~Filed(Idle) /\ fil.pc \in {"open", "lock", "copy", "name", "drop"} => plan.from \in Paths

Hand == Pristine /\ Shown /\ Coming /\ Asked /\ Known /\ Carrying

-----------------------------------------------------------------------------
LEMMA Ranges ==
  /\ 1 \in Sids /\ 1 \in Revs /\ Sids \subseteq Nat /\ Revs \subseteq Nat /\ Sids \subseteq Paths
  /\ None \notin Sids /\ Torn \notin Sids /\ None # Torn /\ None \notin Paths
  /\ None \notin Revs /\ None \notin Contents /\ Torn \notin Contents
  /\ \A r \in Revs : r + 1 <= MaxRevisions => r + 1 \in Revs
BY IngestAssumption, ValuesAssumption DEF Sids, Revs, Paths

\* The steps' names differ from Idle and from each other.
LEMMA Steps ==
  /\ Idle \notin NewSteps /\ Idle \notin CleanSteps /\ Idle \notin OldSteps
  /\ Idle \notin FilingPhases
BY ValuesAssumption, FilingAssumption

LEMMA InitTyped == FInit => TypeOK /\ Hand
<1> SUFFICES ASSUME FInit PROVE TypeOK /\ Hand
  OBVIOUS
<1>1. TypeOK
  BY Ranges DEF FInit, Init, TypeOK, NoPlan, Plans, NoFiling, Filings, NoAttempt, Attempts,
     NoNote, Notes
<1>2. att.pc = Idle /\ fil.pc = Idle /\ rec = Idle
  BY DEF FInit, Init, NoAttempt, NoFiling
<1>3. Pristine /\ Shown /\ Coming /\ Asked /\ Carrying
  BY <1>2, Steps DEF Pristine, First, Shown, Coming, Asked, Carrying, HoldsSource, Filed, At,
     NewSteps, CleanSteps, OldSteps, FilingPhases
<1>4. Known
  BY <1>2 DEF Known, FInit, Init
<1> QED
  BY <1>1, <1>3, <1>4 DEF Hand
\* A name is always found for a page: where the manifest says, or a free one.
LEMMA NameFound ==
  ASSUME Nameable, TypeOK PROVE PagePath \in Paths
<1>1. CASE Held(man[att.s].page, att.s) # None
  <2>1. man[att.s].page \in Paths
    BY <1>1 DEF Held
  <2> QED
    BY <1>1, <2>1 DEF PagePath
<1>2. CASE Held(man[att.s].page, att.s) = None
  <2>1. FirstFree \in FreePending
    BY <1>2 DEF Nameable, FirstFree
  <2> QED
    BY <1>2, <2>1 DEF PagePath, FreePending, Paths
<1> QED
  BY <1>1, <1>2

\* The fields an attempt's steps set, and the places of a directory.
LEMMA Setters ==
  /\ \A c \in Contents, s \in Sids : [NoAttempt EXCEPT !.pc = "claim", !.c = c, !.s = s] \in Attempts
  /\ \A c \in Contents : [NoAttempt EXCEPT !.pc = "resolve", !.c = c] \in Attempts
  /\ \A a \in Attempts, p \in Paths :
       /\ [a EXCEPT !.pc = "dir", !.at = p, !.flushed = TRUE] \in Attempts
       /\ [a EXCEPT !.at = p, !.pc = "supersede"] \in Attempts
       /\ \A q \in {"record", "place"} : [a EXCEPT !.at = p, !.pc = q] \in Attempts
  /\ \A a \in Attempts, q \in {"manifest", "record"} : [a EXCEPT !.pc = q, !.made = TRUE] \in Attempts
<1>1. NoAttempt \in Attempts
  BY Ranges DEF NoAttempt, Attempts
<1>2. ASSUME NEW c \in Contents, NEW s \in Sids, NEW a \in Attempts
      PROVE  [a EXCEPT !.pc = "claim", !.c = c, !.s = s] \in Attempts
  BY DEF Attempts, NewSteps
<1>3. ASSUME NEW c \in Contents, NEW a \in Attempts
      PROVE  [a EXCEPT !.pc = "resolve", !.c = c] \in Attempts
  BY DEF Attempts, OldSteps
<1>4. ASSUME NEW a \in Attempts, NEW p \in Paths
      PROVE  [a EXCEPT !.pc = "dir", !.at = p, !.flushed = TRUE] \in Attempts
  BY DEF Attempts, NewSteps
<1>5. ASSUME NEW a \in Attempts, NEW p \in Paths, NEW q \in {"record", "place", "supersede"}
      PROVE  [a EXCEPT !.at = p, !.pc = q] \in Attempts
  BY DEF Attempts, OldSteps
<1>6. ASSUME NEW a \in Attempts, NEW q \in {"manifest", "record"}
      PROVE  [a EXCEPT !.pc = q, !.made = TRUE] \in Attempts
  BY DEF Attempts, NewSteps, OldSteps
<1> QED
  BY <1>1, <1>2, <1>3, <1>4, <1>5, <1>6

LEMMA Directories ==
  ASSUME NEW d \in [Sids -> [Revs -> {None, Torn} \cup Contents]], NEW s \in Sids
  PROVE  /\ [d EXCEPT ![s] = [r \in Revs |-> None]] \in [Sids -> [Revs -> {None, Torn} \cup Contents]]
         /\ \A r \in Revs, c \in {None, Torn} \cup Contents :
              [d EXCEPT ![s][r] = c] \in [Sids -> [Revs -> {None, Torn} \cup Contents]]
OBVIOUS

\* A crash leaves at most one page short, at a name where nothing stood: what stood
\* elsewhere stands (create_exclusive_bytes).
LEMMA ShortPage ==
  ASSUME TypeOK, NEW p \in Paths, NEW whole \in Pages, Short(p, whole)
  PROVE  /\ page' \in [Paths -> {None, Foreign} \cup Pages]
         /\ \A q \in Paths : page[q] # None => page'[q] = page[q]
<1>1. [whole EXCEPT !.edited = TRUE] \in Pages
  BY DEF Pages
<1>2. PICK cut \in {None, Foreign} \cup Pages : page' = [page EXCEPT ![p] = cut]
  BY <1>1 DEF Short
<1>3. page[p] = None
  BY DEF Short
<1> QED
  BY <1>2, <1>3 DEF TypeOK

LEMMA CrashedPage ==
  ASSUME TypeOK, Hand, Crash
  PROVE  /\ page' \in [Paths -> {None, Foreign} \cup Pages]
         /\ \A q \in Paths : page[q] # None => page'[q] = page[q]
<1>1. CASE UNCHANGED page
  BY <1>1 DEF TypeOK
<1>2. CASE att.pc \in {"page", "place"} /\ Short(att.at, Page(att.s, att.r))
  <2>1. att.at \in Paths
    BY <1>2 DEF Hand, Asked
  <2>2. Page(att.s, att.r) \in Pages
    BY DEF TypeOK, Attempts, Page, Pages
  <2> QED
    BY <1>2, <2>1, <2>2, ShortPage
<1>3. CASE Filed("copy") /\ Short(fil.s, [fil.text EXCEPT !.reviewed = TRUE])
  <2>1. fil.s \in Paths /\ fil.text \in Pages
    BY <1>3, Ranges DEF Hand, Carrying, HoldsSource, Filed, TypeOK, Filings
  <2>2. [fil.text EXCEPT !.reviewed = TRUE] \in Pages
    BY <2>1 DEF Pages
  <2> QED
    BY <1>3, <2>1, <2>2, ShortPage
<1> QED
  BY <1>1, <1>2, <1>3 DEF Crash, Dies, DiesCopying

LEMMA Typed ==
  ASSUME TypeOK, Hand, FNext PROVE TypeOK'
<1> USE Ranges, Steps DEF At, Goto, Refuse, Fault, Filed, Next1, fvars
<1>a. att \in Attempts /\ NoAttempt \in Attempts
  BY DEF TypeOK, Attempts, NoAttempt
<1>s. /\ att.s \in Sids /\ att.r \in Revs /\ att.c \in Contents \cup {None}
      /\ dirs \in [Sids -> [Revs -> {None, Torn} \cup Contents]]
  BY DEF TypeOK, Attempts
<1>b. fil \in Filings /\ NoFiling \in Filings /\ \A p \in FilingPhases : [fil EXCEPT !.pc = p] \in Filings
  BY DEF TypeOK, Filings, NoFiling
<1>c. \A s \in Sids : row[s] # None => [row EXCEPT ![s].filed = FALSE] \in [Sids -> {None} \cup Rows]
  BY DEF TypeOK, Rows
<1>d. Fails => fil' \in Filings /\ row' \in [Sids -> {None} \cup Rows]
  <2>1. fil.s \in Sids
    BY <1>b DEF Filings
  <2>2. row \in [Sids -> {None} \cup Rows]
    BY DEF TypeOK
  <2> QED
    BY <1>b, <1>c, <2>1, <2>2 DEF Fails
<1>e. TakeBack => page' \in [Paths -> {None, Foreign} \cup Pages]
  BY DEF TypeOK, TakeBack
<1>f. \A p \in NewSteps \cup CleanSteps \cup OldSteps \cup {Idle} :
        Goto(p) => att' \in Attempts
  BY <1>a DEF Attempts
<1>1. ASSUME NEW c \in Contents, Request(c), UNCHANGED fvars PROVE TypeOK'
  <2>1. att' \in Attempts
    <3>1. Fresh \subseteq Sids
      BY DEF Fresh
    <3> QED
      BY <1>1, <3>1, Setters DEF Request
  <2> QED
    BY <1>1, <2>1 DEF Request, TypeOK
<1>2. ASSUME Claim, UNCHANGED fvars PROVE TypeOK'
  BY <1>2 DEF Claim, TypeOK, Attempts, NewSteps
<1>3. ASSUME FlushRows, UNCHANGED fvars PROVE TypeOK'
  <2>1. FreePending # {} => FirstFree \in Paths
    BY DEF FirstFree, FreePending, Paths
  <2>2. Goto("clean") => att' \in Attempts
    BY <1>f DEF CleanSteps
  <2>3. att' \in Attempts
    BY ZenonT(60), <1>3, <1>a, <2>1, <2>2, Setters DEF FlushRows
  <2> QED
    BY <1>3, <2>3 DEF FlushRows, TypeOK
<1>4. ASSUME MakeFirstRevision, UNCHANGED fvars PROVE TypeOK'
  BY <1>4 DEF MakeFirstRevision, TypeOK, Attempts, NewSteps
<1>5. ASSUME PlaceFirstPage, UNCHANGED fvars PROVE TypeOK'
  <2>1. att' \in Attempts
    <3>1. Goto("clean") => att' \in Attempts
      BY <1>f DEF CleanSteps
    <3> QED
      BY <1>5, <1>a, <3>1, Setters DEF PlaceFirstPage
  <2>2. Page(att.s, 1) \in Pages
    BY <1>a DEF Page, Pages, Attempts
  <2>3. page' \in [Paths -> {None, Foreign} \cup Pages]
    BY <1>5, <2>2 DEF PlaceFirstPage, TypeOK
  <2> QED
    BY <1>5, <2>1, <2>3 DEF PlaceFirstPage, TypeOK
<1>6. ASSUME WriteFirstManifest, UNCHANGED fvars PROVE TypeOK'
  BY <1>6 DEF WriteFirstManifest, TypeOK, Attempts, Manifests, NewSteps, Hand, Asked
<1>7. ASSUME CreateNote, UNCHANGED fvars PROVE TypeOK'
  <2>1. att' \in Attempts
    BY <1>7, <1>a DEF CreateNote, Attempts, OldSteps
  <2>2. att.at \in Paths
    BY <1>7 DEF CreateNote, Hand, Asked
  <2>3. OpeningNote(att.at) \in Notes
    BY <2>2 DEF OpeningNote, Notes
  <2>4. note' \in [Sids -> Notes]
    BY <1>7, <2>3 DEF CreateNote, TypeOK
  <2> QED
    BY <1>7, <2>1, <2>4 DEF CreateNote, TypeOK
<1>8. ASSUME CleanBundle, UNCHANGED fvars PROVE TypeOK'
  <2>1. att' \in Attempts
    BY <1>8, <1>a DEF CleanBundle, Attempts, CleanSteps
  <2>2. dirs' \in [Sids -> [Revs -> {None, Torn} \cup Contents]]
    BY <1>8, <1>s, Directories DEF CleanBundle
  <2>3. man' \in [Sids -> {None, Torn} \cup Manifests]
    BY <1>8 DEF CleanBundle, TypeOK
  <2> QED
    BY <1>8, <2>1, <2>2, <2>3 DEF CleanBundle, TypeOK
<1>9. ASSUME CleanClaim, UNCHANGED fvars PROVE TypeOK'
  BY <1>9 DEF CleanClaim, TypeOK, Attempts, CleanSteps
<1>10. ASSUME CleanPage, UNCHANGED fvars PROVE TypeOK'
  BY <1>10, <1>a, <1>e DEF CleanPage, TypeOK
<1>11. ASSUME Resolve, UNCHANGED fvars PROVE TypeOK'
  <2>1. att' \in Attempts
    <3>1. CASE ~Resolves(claim, att.c)
      BY <1>11, <1>a, <3>1 DEF Resolve
    <3>2. CASE Resolves(claim, att.c)
      <4>1. claim \in Sids /\ Whole(claim)
        BY <1>11, <3>2 DEF Resolve, Resolves, Hand, Asked, TypeOK
      <4>2. man[claim] \in Manifests
        BY <4>1 DEF Whole, TypeOK
      <4>3. man[claim].cur \in Revs
        BY <4>2 DEF Manifests
      <4>4. man[claim].ids[man[claim].cur] # att.c => man[claim].cur + 1 \in Revs
        BY <3>2, <4>3, IngestAssumption DEF Resolves, Revs
      <4> QED
        <5> DEFINE same == man[claim].ids[man[claim].cur] = att.c
                   r == IF same THEN man[claim].cur ELSE man[claim].cur + 1
                   q == IF same THEN "look" ELSE "mkdir"
        <5>1. r \in Revs /\ q \in OldSteps
          BY <4>3, <4>4 DEF OldSteps
        <5>2. att' = [att EXCEPT !.s = claim, !.flushed = TRUE, !.pc = q, !.r = r]
          BY <1>11, <3>2 DEF Resolve
        <5> HIDE DEF r, q
        <5> QED
          BY <1>a, <4>1, <5>1, <5>2 DEF Attempts
    <3> QED
      BY <3>1, <3>2
  <2> QED
    BY <1>11, <2>1 DEF Resolve, TypeOK
<1>12. ASSUME Look, UNCHANGED fvars PROVE TypeOK'
  <2>1. att' \in Attempts
    BY <1>12, <1>a, NameFound DEF Look, Attempts, OldSteps
  <2> QED
    BY <1>12, <2>1 DEF Look, TypeOK
<1>13. ASSUME Place, UNCHANGED fvars PROVE TypeOK'
  <2>1. att' \in Attempts
    <3>1. Goto("swap") => att' \in Attempts
      BY <1>f DEF OldSteps
    <3> QED
      BY <1>13, <1>a, <3>1, Setters DEF Place
  <2>2. Page(att.s, att.r) \in Pages
    BY <1>a DEF Page, Pages, Attempts
  <2>3. page' \in [Paths -> {None, Foreign} \cup Pages]
    BY <1>13, <2>2 DEF Place, TypeOK
  <2> QED
    BY <1>13, <2>1, <2>3 DEF Place, TypeOK
<1>14. ASSUME Swap, UNCHANGED fvars PROVE TypeOK'
  <2>1. att' \in Attempts
    BY <1>14, <1>a DEF Swap, Attempts, OldSteps
  <2>2. Page(att.s, att.r) \in Pages
    BY <1>a DEF Page, Pages, Attempts
  <2>3. page' \in [Paths -> {None, Foreign} \cup Pages]
    BY <1>14, <2>2 DEF Swap, TypeOK
  <2> QED
    BY <1>14, <2>1, <2>3 DEF Swap, TypeOK
<1>15. ASSUME RecordPage, UNCHANGED fvars PROVE TypeOK'
  <2>1. att' \in Attempts
    BY <1>15, <1>a DEF RecordPage, Attempts, OldSteps
  <2>2. att.s \in Sids /\ man[att.s] \in Manifests /\ att.at \in Paths
    BY <1>15 DEF RecordPage, Hand, Shown, Asked, TypeOK, Whole, Attempts
  <2>3. [man[att.s] EXCEPT !.page = att.at] \in Manifests
    BY <2>2 DEF Manifests
  <2>4. man' \in [Sids -> {None, Torn} \cup Manifests]
    BY <1>15, <2>3 DEF RecordPage, TypeOK
  <2> QED
    BY <1>15, <2>1, <2>4 DEF RecordPage, TypeOK
<1>16. ASSUME MakeDirectory, UNCHANGED fvars PROVE TypeOK'
  <2>1. att' \in Attempts
    BY <1>16, <1>a DEF MakeDirectory, Attempts, OldSteps
  <2>2. dirs' \in [Sids -> [Revs -> {None, Torn} \cup Contents]]
    <3>1. [dirs EXCEPT ![att.s][att.r] = Torn] \in [Sids -> [Revs -> {None, Torn} \cup Contents]]
      BY <1>s, Directories
    <3> QED
      BY <1>16, <1>s, <3>1 DEF MakeDirectory
  <2> QED
    BY <1>16, <2>1, <2>2 DEF MakeDirectory, TypeOK
<1>17. ASSUME FillDirectory, UNCHANGED fvars PROVE TypeOK'
  <2>1. att' \in Attempts
    BY <1>17, <1>a, NameFound DEF FillDirectory, Attempts, OldSteps
  <2>2. dirs' \in [Sids -> [Revs -> {None, Torn} \cup Contents]]
    BY <1>17, <1>s, Directories DEF FillDirectory
  <2> QED
    BY <1>17, <2>1, <2>2 DEF FillDirectory, TypeOK
<1>18. ASSUME Supersede, UNCHANGED fvars PROVE TypeOK'
  <2>1. att' \in Attempts
    BY <1>18, <1>a DEF Supersede, Attempts, OldSteps
  <2>2. att.s \in Sids /\ man[att.s] \in Manifests /\ att.at \in Paths /\ att.c \in Contents /\ att.r \in Revs
    <3>1. Whole(att.s) /\ att.at \in Paths /\ att.c \in Contents
      BY <1>18 DEF Supersede, Hand, Coming, Asked, OldSteps
    <3> QED
      BY <1>s, <3>1 DEF Whole, TypeOK
  <2>3. [cur |-> att.r, ids |-> [man[att.s].ids EXCEPT ![att.r] = att.c], page |-> att.at] \in Manifests
    BY <2>2 DEF Manifests
  <2>4. man' \in [Sids -> {None, Torn} \cup Manifests]
    BY <1>18, <2>3 DEF Supersede, TypeOK
  <2> QED
    BY <1>18, <2>1, <2>4 DEF Supersede, TypeOK
<1>19. ASSUME Commit, UNCHANGED fvars PROVE TypeOK'
  <2>1. att.s \in Sids /\ att.r \in Revs /\ att.c \in Contents
    BY <1>19 DEF Commit, Hand, Asked, TypeOK, Attempts, OldSteps
  <2>2. Mirrored(att.s, att.r) \in Rows
    <3>1. row[att.s] \in {None} \cup Rows
      BY <2>1 DEF TypeOK
    <3> QED
      BY <2>1, <3>1 DEF Mirrored, Rows
  <2>3. row' \in [Sids -> {None} \cup Rows]
    BY <1>19, <2>2 DEF Commit, TypeOK
  <2>4. acks' \subseteq [s : Sids, r : Revs, c : Contents]
    BY <1>19, <2>1 DEF Commit, TypeOK
  <2> QED
    BY <1>19, <1>a, <2>3, <2>4 DEF Commit, TypeOK
<1>20. ASSUME FailNew, UNCHANGED fvars PROVE TypeOK'
  <2>1. att' \in Attempts
    BY <1>20, <1>a DEF FailNew, Attempts, CleanSteps
  <2> QED
    BY <1>20, <2>1 DEF FailNew, TypeOK
<1>21. ASSUME RecordFails, UNCHANGED fvars PROVE TypeOK'
  BY <1>21, <1>a, <1>e DEF RecordFails, TypeOK
<1>22. ASSUME FailRevision, UNCHANGED fvars PROVE TypeOK'
  <2>1. dirs' \in [Sids -> [Revs -> {None, Torn} \cup Contents]]
    BY SMTT(60), <1>22, <1>s, Directories DEF FailRevision
  <2> QED
    BY <1>22, <1>a, <2>1 DEF FailRevision, TypeOK
<1>23. ASSUME FailPage, UNCHANGED fvars PROVE TypeOK'
  BY <1>23, <1>a DEF FailPage, TypeOK
<1>24. ASSUME RecoverRead, UNCHANGED fvars PROVE TypeOK'
  <2>1. \A s \in Sids : Whole(s) => [cur |-> man[s].cur, linked |-> note[s].files = 1] \in Readings
    BY DEF Whole, TypeOK, Manifests, Readings
  <2>2. rec' \in [Sids -> {None} \cup Readings]
    BY <1>24, <2>1 DEF RecoverRead
  <2> QED
    BY <1>24, <2>2 DEF RecoverRead, TypeOK
<1>25. ASSUME RecoverWrite, UNCHANGED fvars PROVE TypeOK'
  <2>1. rec \in [Sids -> {None} \cup Readings]
    BY <1>25 DEF RecoverWrite, TypeOK
  <2>2. \A s \in Sids : rec[s] \in {None} \cup Readings /\ row[s] \in {None} \cup Rows
    BY <2>1 DEF TypeOK
  <2>3. \A s \in Sids : Recovered(s) \in {None} \cup Rows
    BY ZenonT(60), <2>2 DEF Recovered, Readings, Rows
  <2>4. row' \in [Sids -> {None} \cup Rows]
    BY <1>25, <2>3 DEF RecoverWrite, TypeOK
  <2> QED
    BY <1>25, <2>4 DEF RecoverWrite, TypeOK
<1>26. ASSUME DevicePage, UNCHANGED fvars PROVE TypeOK'
  <2>1. page' \in [Paths -> {None, Foreign} \cup Pages]
    <3> DEFINE P == [Paths -> {None, Foreign} \cup Pages]
    <3>1. page \in P
      BY DEF TypeOK
    <3>2. \A p \in Paths : [page EXCEPT ![p] = Foreign] \in P /\ [page EXCEPT ![p] = None] \in P
      BY <3>1
    <3>3. \A p \in Paths : page[p] \notin {None, Foreign} => [page EXCEPT ![p].edited = TRUE] \in P
      BY <3>1 DEF Pages
    <3> HIDE DEF P
    <3> QED
      <4>1. PICK p \in Paths :
              \/ page' = [page EXCEPT ![p] = Foreign]
              \/ page' = [page EXCEPT ![p] = None]
              \/ page[p] \notin {None, Foreign} /\ page' = [page EXCEPT ![p].edited = TRUE]
        BY <1>26 DEF DevicePage
      <4>2. page' \in P
        BY <3>2, <3>3, <4>1
      <4> QED
        BY <4>2 DEF P
  <2> QED
    BY <1>26, <2>1 DEF DevicePage, Device, TypeOK
<1>27. ASSUME DeviceNote, UNCHANGED fvars PROVE TypeOK'
  <2>1. note' \in [Sids -> Notes]
    <3>0. note \in [Sids -> Notes]
      BY DEF TypeOK
    <3>1. ASSUME NEW s \in Sids, NEW n \in {0, 2} PROVE [note EXCEPT ![s].files = n] \in [Sids -> Notes]
      BY <3>0 DEF Notes
    <3> QED
      <4>1. PICK s \in Sids, n \in {0, 2} : note' = [note EXCEPT ![s].files = n]
        BY <1>27 DEF DeviceNote
      <4> QED
        BY <3>1, <4>1
  <2> QED
    BY <1>27, <2>1 DEF DeviceNote, TypeOK
<1>28. ASSUME NEW s \in Sids, Begin(s) PROVE TypeOK'
  <2>1. man[s] \in Manifests
    BY <1>28 DEF Begin, Whole, TypeOK
  <2>2. man[s].cur \in Revs /\ man[s].page \in Paths
    BY <2>1 DEF Manifests
  <2>3. Approved(s) \in Approvals
    BY <2>2 DEF Approved, TypeOK, Approvals, Plans
  <2>4. review' \in [Sids -> {None} \cup Approvals]
    BY <1>28, <2>3 DEF Begin, TypeOK
  <2>5. journal[s].froms \in SUBSET Paths
    BY DEF TypeOK, Plans
  <2>6. [from |-> man[s].page, froms |-> journal[s].froms \cup {man[s].page},
         rev |-> man[s].cur, complete |-> FALSE] \in Plans
    BY <2>2, <2>5 DEF Plans
  <2>7. journal' \in [Sids -> Plans]
    BY <1>28, <2>6 DEF Begin, TypeOK
  <2>8. fil' \in Filings
    BY <1>28 DEF Begin, Filings, NoFiling, FilingPhases
  <2> QED
    BY <1>28, <2>4, <2>7, <2>8 DEF Begin, TypeOK
<1>29. ASSUME Open PROVE TypeOK'
  <2>1. fil.s \in Sids /\ row[fil.s] # None
    BY <1>29 DEF Open, Hand, Carrying, TypeOK, Filings, FilingPhases
  <2>2. row' \in [Sids -> {None} \cup Rows] /\ fil' \in Filings
    BY <1>29, <1>b, <1>c, <2>1 DEF Open, FilingPhases
  <2> QED
    BY <1>29, <2>2 DEF Open, TypeOK
<1>30. ASSUME Lock PROVE TypeOK'
  <2>1. fil.s \in Sids /\ fil.s \in Paths /\ plan.from \in Paths
    BY <1>30, <1>b DEF Lock, Hand, Carrying, Filings, FilingPhases
  <2>9. man[fil.s].cur \in Revs
    BY <1>30, <2>1 DEF Lock, Hand, Carrying, Known, Whole, TypeOK, Manifests, FilingPhases
  <2>3. \A p \in Paths : Held(p, fil.s) # None => page[p] \in Pages
    BY DEF Held, TypeOK
  <2> DEFINE from == IF page[plan.from] # None THEN plan.from ELSE fil.s
  <2>4. from \in Paths
    BY <2>1
  <2>5. Held(from, fil.s) = man[fil.s].cur => page[from] \in Pages
    BY <2>3, <2>4, <2>9
  <2> HIDE DEF from
  <2>6. page[from] \in Pages => [fil EXCEPT !.pc = "copy", !.text = page[from]] \in Filings
    BY <1>b DEF Filings, FilingPhases
  <2>7. row' \in [Sids -> {None} \cup Rows]
    BY <1>30, <1>d DEF Lock, TypeOK
  <2>8. fil' \in Filings
    BY <1>30, <1>d, <2>5, <2>6 DEF Lock, from
  <2> QED
    BY <1>30, <2>7, <2>8 DEF Lock, TypeOK
<1>31. ASSUME Copy PROVE TypeOK'
  <2>1. fil.text \in Pages /\ fil.s \in Sids
    BY <1>31, <1>b DEF Copy, Hand, Carrying, HoldsSource, Filings
  <2>2. [fil.text EXCEPT !.reviewed = TRUE] \in Pages
    BY <2>1 DEF Pages
  <2>3. page' \in [Paths -> {None, Foreign} \cup Pages]
    BY <1>31, <2>2 DEF Copy, TypeOK
  <2>4. row' \in [Sids -> {None} \cup Rows] /\ fil' \in Filings
    BY <1>31, <1>b, <1>d DEF Copy, TypeOK, FilingPhases
  <2> QED
    BY <1>31, <2>3, <2>4 DEF Copy, TypeOK
<1>32. ASSUME Name PROVE TypeOK'
  <2>1. fil.s \in Sids /\ man[fil.s] \in Manifests
    BY <1>32, <1>b DEF Name, Hand, Carrying, Known, Whole, TypeOK, Filings, FilingPhases
  <2>2. [man[fil.s] EXCEPT !.page = fil.s] \in Manifests
    BY <2>1 DEF Manifests
  <2>3. man' \in [Sids -> {None, Torn} \cup Manifests]
    BY <1>32, <2>1, <2>2 DEF Name, TypeOK
  <2>4. fil' \in Filings
    BY <1>32, <1>b DEF Name, FilingPhases
  <2> QED
    BY <1>32, <2>3, <2>4 DEF Name, TypeOK
<1>33. ASSUME Drop PROVE TypeOK'
  <2>1. page' \in [Paths -> {None, Foreign} \cup Pages]
    BY <1>33 DEF Drop, TypeOK
  <2>2. row' \in [Sids -> {None} \cup Rows] /\ fil' \in Filings
    BY <1>33, <1>b, <1>d DEF Drop, TypeOK, FilingPhases
  <2> QED
    BY <1>33, <2>1, <2>2 DEF Drop, TypeOK
<1>34. ASSUME Refresh PROVE TypeOK'
  <2>1. [fil EXCEPT !.pc = "rewrite", !.fresh = TRUE] \in Filings
    BY ZenonT(60), <1>b DEF Filings, FilingPhases
  <2>2. row' \in [Sids -> {None} \cup Rows] /\ fil' \in Filings
    BY <1>34, <1>d, <2>1 DEF Refresh, TypeOK
  <2> QED
    BY <1>34, <2>2 DEF Refresh, TypeOK
<1>35. ASSUME Rewrite PROVE TypeOK'
  <2>1. \A l \in Paths \cup {None} : [note EXCEPT ![fil.s].link = l] \in [Sids -> Notes]
    BY ZenonT(60) DEF TypeOK, Notes
  <2>2. fil.s \in Paths /\ note[fil.s].link \in Paths \cup {None}
    BY <1>b DEF TypeOK, Notes, Filings
  <2>3. note' \in [Sids -> Notes]
    BY SMTT(60), <1>35, <2>1, <2>2 DEF Rewrite, TypeOK
  <2>4. row' \in [Sids -> {None} \cup Rows] /\ fil' \in Filings
    BY <1>35, <1>b, <1>d DEF Rewrite, TypeOK, FilingPhases
  <2> QED
    BY <1>35, <2>3, <2>4 DEF Rewrite, TypeOK
<1>36. ASSUME Move PROVE TypeOK'
  <2>1. [note EXCEPT ![fil.s].month = TRUE] \in [Sids -> Notes]
    BY ZenonT(60) DEF TypeOK, Notes
  <2>2. [journal EXCEPT ![fil.s].complete = TRUE] \in [Sids -> Plans]
    <3>1. journal \in [Sids -> Plans]
      BY DEF TypeOK
    <3> QED
      BY ZenonT(60), <3>1 DEF Plans
  <2>3. note' \in [Sids -> Notes] /\ journal' \in [Sids -> Plans]
    BY <1>36, <2>1, <2>2 DEF Move, TypeOK
  <2>4. row' \in [Sids -> {None} \cup Rows] /\ fil' \in Filings
    BY <1>36, <1>b, <1>d DEF Move, TypeOK, FilingPhases
  <2> QED
    BY <1>36, <2>3, <2>4 DEF Move, TypeOK
<1>37. ASSUME Publish PROVE TypeOK'
  <2>1. fil.s \in Sids /\ row \in [Sids -> {None} \cup Rows] /\ row[fil.s] # None
    BY <1>37, <1>b DEF Publish, Hand, Carrying, TypeOK, Filings, FilingPhases
  <2>2. review[fil.s] \in Approvals
    BY <1>37, <2>1, <1>b DEF Publish, Hand, Carrying, TypeOK, Filings, FilingPhases
  <2>3. review[fil.s].rev \in Revs \cup {0} /\ row[fil.s] \in Rows
    BY <2>1, <2>2 DEF Approvals
  <2>4. ASSUME NEW v \in Revs \cup {0}
        PROVE  [row[fil.s] EXCEPT !.filed = TRUE, !.approved = v] \in Rows
    BY <2>3 DEF Rows
  <2>5. row' \in [Sids -> {None} \cup Rows] \/ Fails
    <3>1. CASE ~Unchanged
      BY <1>37, <3>1 DEF Publish
    <3>2. CASE Unchanged
      <4>1. row' = [row EXCEPT ![fil.s] = [row[fil.s] EXCEPT !.filed = TRUE, !.approved = review[fil.s].rev]]
        BY <1>37, <2>1, <3>2 DEF Publish
      <4> QED
        BY <2>1, <2>3, <2>4, <4>1
    <3> QED
      BY <3>1, <3>2
  <2>6. fil' \in Filings
    BY <1>37, <1>b, <1>d DEF Publish
  <2> QED
    BY <1>37, <1>d, <2>5, <2>6 DEF Publish, TypeOK
<1>38. ASSUME FailFiling PROVE TypeOK'
  BY <1>38, <1>d DEF FailFiling, TypeOK
<1>39. ASSUME EditNote PROVE TypeOK'
  BY <1>39 DEF EditNote, Device, TypeOK, Filings
<1>40. ASSUME MarkReviewed PROVE TypeOK'
  <2>1. \A s \in Sids, b \in BOOLEAN : [note EXCEPT ![s].reviewed = b] \in [Sids -> Notes]
    <3>1. note \in [Sids -> Notes]
      BY DEF TypeOK
    <3> QED
      BY <3>1 DEF Notes
  <2>2. \A s \in Sids : Whole(s) => man[s].cur \in Revs
    BY DEF Whole, TypeOK, Manifests
  <2>3. \A s \in Sids, b \in BOOLEAN : Recorded(s, b) \in Approvals
    BY <2>2 DEF Recorded, Approvals
  <2>7. [fil EXCEPT !.fresh = FALSE] \in Filings
    BY <1>b DEF Filings
  <2>4. note' \in [Sids -> Notes] /\ fil' \in Filings
    BY <1>40, <1>b, <2>1, <2>7 DEF MarkReviewed
  <2>5. review' \in [Sids -> {None} \cup Approvals]
    BY SMTT(60), <1>40, <2>3 DEF MarkReviewed, TypeOK
  <2>6. seen' \in [Sids -> SUBSET Revs]
    <3>1. \A s \in Sids : Whole(s) =>
             [seen EXCEPT ![s] = @ \cup {man[s].cur}] \in [Sids -> SUBSET Revs]
      BY <2>2 DEF TypeOK
    <3> QED
      <4>1. PICK s \in Sids, flag \in BOOLEAN :
               \/ seen' = IF flag /\ Whole(s) THEN [seen EXCEPT ![s] = @ \cup {man[s].cur}] ELSE seen
               \/ UNCHANGED <<review, seen>>
        BY <1>40, Zenon DEF MarkReviewed
      <4>2. seen \in [Sids -> SUBSET Revs]
        BY DEF TypeOK
      <4> QED
        BY <3>1, <4>1, <4>2
  <2> QED
    BY <1>40, <2>4, <2>5, <2>6 DEF MarkReviewed, TypeOK
<1>41. ASSUME Crash PROVE TypeOK'
  <2>1. claim' \in {None, Torn} \cup Sids /\ man' \in [Sids -> {None, Torn} \cup Manifests]
    BY <1>41 DEF Crash, Dies, DiesCopying, TypeOK
  <2>2. dirs' \in [Sids -> [Revs -> {None, Torn} \cup Contents]]
    <3>1. [dirs EXCEPT ![att.s][1] = Torn] \in [Sids -> [Revs -> {None, Torn} \cup Contents]]
      BY <1>s, Directories
    <3> QED
      BY <1>41, <1>s, <3>1 DEF Crash, Dies, DiesCopying
  <2>3. page' \in [Paths -> {None, Foreign} \cup Pages]
    BY <1>41, CrashedPage
  <2> QED
    BY <1>41, <1>a, <1>b, <2>1, <2>2, <2>3 DEF Crash, Dies, DiesCopying, TypeOK
<1> QED
  BY <1>1, <1>2, <1>3, <1>4, <1>5, <1>6, <1>7, <1>8, <1>9, <1>10, <1>11, <1>12, <1>13, <1>14,
     <1>15, <1>16, <1>17, <1>18, <1>19, <1>20, <1>21, <1>22, <1>23, <1>24, <1>25, <1>26, <1>27,
     <1>28, <1>29, <1>30, <1>31, <1>32, <1>33, <1>34, <1>35, <1>36, <1>37, <1>38, <1>39, <1>40,
     <1>41 DEF FNext, Ingesting, Working, Recovering, FilingSteps
-----------------------------------------------------------------------------
Inv == TypeOK /\ Hand /\ AcknowledgedIsKept

\* What a step beside an ingest leaves as it is: filing, devices and people
\* name a page in a manifest at most.
Beside ==
  /\ UNCHANGED <<claim, dirs, att, rec, acks>>
  /\ \A s \in Sids :
       /\ man'[s] = None <=> man[s] = None
       /\ man'[s] \notin {None, Torn} => Whole(s)
       /\ Whole(s) => man'[s] \notin {None, Torn} /\ man'[s].cur = man[s].cur /\ man'[s].ids = man[s].ids
       /\ row'[s] # None => row[s] # None /\ row'[s].cur = row[s].cur
       /\ note'[s] # NoNote => note[s] # NoNote

LEMMA BesideKeeps ==
  ASSUME Inv, Beside
  PROVE  Pristine' /\ Shown' /\ Coming' /\ Asked' /\ Known' /\ AcknowledgedIsKept'
<1> USE DEF Inv, Hand, Beside
<1>1. att.s \in Sids /\ acks \subseteq [s : Sids, r : Revs, c : Contents]
  BY DEF TypeOK, Attempts
<1>2. Pristine'
  <2>1. /\ First' <=> First
        /\ man'[att.s] = None <=> man[att.s] = None
        /\ row[att.s] = None => row'[att.s] = None
        /\ note[att.s] = NoNote => note'[att.s] = NoNote
    BY <1>1 DEF First
  <2> QED
    BY <2>1 DEF Pristine
<1>3. Shown' /\ Coming'
  BY <1>1 DEF Shown, Coming, Whole, At
<1>4. Asked'
  BY DEF Asked, At
<1>5. Known'
  BY DEF Known, Whole
<1>6. AcknowledgedIsKept'
  BY <1>1 DEF AcknowledgedIsKept, Whole
<1> QED
  BY <1>2, <1>3, <1>4, <1>5, <1>6

\* Which steps those are.
LEMMA FilingIsBeside ==
  ASSUME Inv,
         \/ \E s \in Sids : Begin(s)
         \/ Open \/ Lock \/ Copy \/ Name \/ Drop \/ Refresh \/ Rewrite \/ Move \/ Publish
         \/ FailFiling \/ EditNote \/ MarkReviewed
         \/ DevicePage \/ DeviceNote
  PROVE  Beside
<1> USE DEF Inv, Hand, TypeOK
<1>1. \A s \in Sids : /\ note[s].files = 1 => note[s] # NoNote
                      /\ row[s] # None => row[s] \in Rows
                      /\ Whole(s) => man[s] \in Manifests
  BY DEF NoNote, Whole
<1>2. ~Filed(Idle) => /\ fil.s \in Sids /\ row[fil.s] # None
                      /\ Whole(fil.s) /\ man[fil.s] \in Manifests
  BY DEF Filings, Carrying, Known, Whole
<1>3. UNCHANGED <<claim, dirs, att, rec, acks>>
  BY DEF Begin, Open, Lock, Copy, Name, Drop, Refresh, Rewrite, Move, Publish, FailFiling,
     EditNote, MarkReviewed, DevicePage, DeviceNote
<1>4. /\ man' = man \/ Name
      /\ note' = note \/ Rewrite \/ Move \/ MarkReviewed \/ DeviceNote
      /\ row' = row \/ Open \/ Publish \/ Fails
  BY DEF Begin, Open, Lock, Copy, Name, Drop, Refresh, Rewrite, Move, Publish, FailFiling,
     EditNote, MarkReviewed, DevicePage, DeviceNote
<1>5. ASSUME NEW s \in Sids
      PROVE  /\ man'[s] = None <=> man[s] = None
             /\ man'[s] \notin {None, Torn} => Whole(s)
             /\ Whole(s) => man'[s] \notin {None, Torn} /\ man'[s].cur = man[s].cur /\ man'[s].ids = man[s].ids
  <2>1. CASE man' = man
    BY <2>1 DEF Whole
  <2>2. CASE Name
    <3>1. Whole(fil.s) /\ man[fil.s] \in Manifests
      BY <1>2, <2>2, Steps DEF Name, Filed, FilingPhases
    <3>2. [man[fil.s] EXCEPT !.page = fil.s] \in Manifests
      BY <1>2, <2>2, <3>1, Ranges, Steps DEF Name, Filed, FilingPhases, Manifests
    <3>3. s = fil.s => man'[s] = [man[s] EXCEPT !.page = s]
      BY <2>2 DEF Name
    <3>4. s # fil.s => man'[s] = man[s]
      BY <2>2 DEF Name
    <3>5. s = fil.s => man'[s].cur = man[s].cur /\ man'[s].ids = man[s].ids
      BY <3>1, <3>3 DEF Manifests
    <3> QED
      BY <3>1, <3>2, <3>3, <3>4, <3>5, ValuesAssumption DEF Whole
  <2> QED
    BY <1>4, <2>1, <2>2
<1>6. ASSUME NEW s \in Sids PROVE note'[s] # NoNote => note[s] # NoNote
  <2>1. CASE Rewrite \/ Move
    BY <1>1, <2>1 DEF Rewrite, Move, Unchanged, Fails
  <2>2. CASE MarkReviewed \/ DeviceNote
    BY <1>1, <2>2 DEF MarkReviewed, DeviceNote
  <2> QED
    BY <1>4, <2>1, <2>2
<1>7. ASSUME NEW s \in Sids PROVE row'[s] # None => row[s] # None /\ row'[s].cur = row[s].cur
  <2>1. CASE Fails
    <3>1. row[fil.s] # None => row' = [row EXCEPT ![fil.s].filed = FALSE]
      BY <2>1 DEF Fails
    <3> QED
      BY <1>1, <2>1, <3>1 DEF Fails, Rows
  <2>2. CASE Open
    BY <1>1, <1>2, <2>2, Steps DEF Open, Filed, FilingPhases, Rows
  <2>3. CASE Publish /\ ~Fails
    <3>1. row[fil.s] \in Rows
      BY <1>1, <1>2, <2>3, Steps DEF Publish, Filed, FilingPhases
    <3>2. /\ s # fil.s => row'[s] = row[s]
          /\ s = fil.s => row'[s] = [row[s] EXCEPT !.filed = TRUE, !.approved = review[s].rev]
      BY <2>3 DEF Publish
    <3>3. s = fil.s => row'[s].cur = row[s].cur
      BY <3>1, <3>2 DEF Rows
    <3> QED
      BY <1>1, <3>1, <3>2, <3>3, ValuesAssumption
  <2> QED
    BY <1>4, <2>1, <2>2, <2>3
<1> QED
  BY <1>3, <1>5, <1>6, <1>7 DEF Beside

\* No step takes a row away.
LEMMA RowsStay ==
  ASSUME Inv, FNext, NEW s \in Sids, row[s] # None PROVE row'[s] # None
<1> USE DEF Inv, Hand
<1>1. row[s] \in Rows
  BY DEF TypeOK
<1>2. CASE UNCHANGED row
  BY <1>2
<1>3. CASE row' = [row EXCEPT ![att.s] = Mirrored(att.s, att.r)] /\ Commit
  <2>1. att.r \in Revs /\ att.s \in Sids
    BY DEF TypeOK, Attempts
  <2>2. s = att.s => row'[s] = [row[s] EXCEPT !.cur = att.r, !.linked = TRUE]
    BY <1>1, <1>3, ValuesAssumption DEF Mirrored, TypeOK
  <2>3. [row[s] EXCEPT !.cur = att.r, !.linked = TRUE] \in Rows
    BY <1>1, <2>1 DEF Rows
  <2> QED
    BY <1>3, <2>2, <2>3, ValuesAssumption DEF TypeOK
<1>4. CASE RecoverWrite
  <2>1. rec \in [Sids -> {None} \cup Readings]
    BY <1>4 DEF RecoverWrite, TypeOK
  <2>2. rec[s] \in {None} \cup Readings
    BY <2>1
  <2>3. Recovered(s) \in Rows
    BY <1>1, <2>2, ValuesAssumption DEF Recovered, Readings, Rows
  <2> QED
    BY <1>4, <2>3, ValuesAssumption DEF RecoverWrite
<1>5. CASE row' = [row EXCEPT ![fil.s].filed = FALSE]
  <2>1. s = fil.s => row'[s] = [row[s] EXCEPT !.filed = FALSE]
    BY <1>5 DEF TypeOK
  <2>2. [row[s] EXCEPT !.filed = FALSE] \in Rows
    BY <1>1 DEF Rows
  <2> QED
    BY <1>5, <2>1, <2>2, ValuesAssumption DEF TypeOK
<1>6. CASE Publish /\ ~Fails
  <2>1. Carrying /\ fil.s \in Sids /\ fil.pc = "publish"
    BY <1>6 DEF Publish, Filed, TypeOK, Filings
  <2>2. review[fil.s] \in Approvals
    BY <2>1, Steps DEF Carrying, Filed, FilingPhases, TypeOK
  <2>3. s = fil.s => row'[s] = [row[s] EXCEPT !.filed = TRUE, !.approved = review[s].rev]
    BY <1>6 DEF Publish, TypeOK
  <2>4. review[fil.s].rev \in Revs \cup {0}
    BY <2>2 DEF Approvals
  <2>5. ASSUME NEW v \in Revs \cup {0} PROVE [row[s] EXCEPT !.filed = TRUE, !.approved = v] \in Rows
    BY <1>1 DEF Rows
  <2>6. s # fil.s => row'[s] = row[s]
    BY <1>6 DEF Publish, TypeOK
  <2> QED
    BY <2>3, <2>4, <2>5, <2>6, ValuesAssumption
<1> QED
  <2>1. Fails => UNCHANGED row \/ row' = [row EXCEPT ![fil.s].filed = FALSE]
    BY DEF Fails
  <2>2. UNCHANGED row \/ Fails \/ Open \/ (Publish /\ ~Fails) \/ RecoverWrite
          \/ (row' = [row EXCEPT ![att.s] = Mirrored(att.s, att.r)] /\ Commit)
    BY DEF FNext, Ingesting, Working, Recovering, FilingSteps, Request, Claim, FlushRows,
       MakeFirstRevision, PlaceFirstPage, WriteFirstManifest, CreateNote, CleanBundle, CleanClaim,
       CleanPage, Resolve, Look, Place, Swap, RecordPage, MakeDirectory, FillDirectory, Supersede,
       Commit, FailNew, RecordFails, FailRevision, FailPage, RecoverRead, DevicePage, DeviceNote,
       Begin, Lock, Copy, Name, Drop, Refresh, Rewrite, Move, FailFiling, EditNote, MarkReviewed,
       Crash, Dies, DiesCopying
  <2>3. Open => row' = [row EXCEPT ![fil.s].filed = FALSE]
    BY DEF Open
  <2> QED
    BY <1>2, <1>3, <1>4, <1>5, <1>6, <2>1, <2>2, <2>3

LEMMA CarryingKept ==
  ASSUME Inv, FNext PROVE Carrying'
<1> USE DEF Inv, Hand
<1>s. fil.s \in Sids /\ journal \in [Sids -> Plans] /\ row \in [Sids -> {None} \cup Rows]
  BY DEF TypeOK, Filings
<1>1. CASE UNCHANGED <<fil, journal, review>>
  <2>1. row[fil.s] # None => row'[fil.s] # None
    BY <1>s, RowsStay
  <2> QED
    BY <1>1, <2>1 DEF Carrying, Filed, HoldsSource, plan
<1>2. CASE fil' = NoFiling
  BY <1>2, Steps DEF Carrying, Filed, HoldsSource, NoFiling, FilingPhases
<1>3. ASSUME UNCHANGED <<journal, review>>, fil'.s = fil.s, fil.pc # Idle,
             fil'.pc \in {"copy", "name", "drop"} => fil'.text \in Pages,
             fil'.pc \in {"open", "lock", "copy", "name", "drop"} =>
               fil.pc \in {"open", "lock", "copy", "name", "drop"}
      PROVE  Carrying'
  <2>1. row[fil.s] # None => row'[fil.s] # None
    BY <1>s, RowsStay
  <2> QED
    BY <1>3, <2>1 DEF Carrying, Filed, HoldsSource, plan
<1>4. ASSUME NEW s \in Sids, Begin(s) PROVE Carrying'
  <2>1. row'[s] # None
    BY <1>4, RowsStay DEF Begin
  <2>2. Approved(s) # None
    <3>1. man[s] \in Manifests
      BY <1>4 DEF Begin, Whole, TypeOK
    <3>2. man[s].cur \in Revs
      BY <3>1 DEF Manifests
    <3>3. journal[s].rev \in Revs \cup {0}
      BY <1>s DEF Plans
    <3>4. review[s] = None => Approved(s) \in Approvals
      BY <3>2, <3>3 DEF Approved, Approvals
    <3> QED
      BY <3>4, FilingAssumption DEF Approved
  <2>3. review'[s] # None
    BY <1>4, <2>2 DEF Begin, TypeOK
  <2>4. man[s].page \in Paths
    <3>1. man[s] \in Manifests
      BY <1>4 DEF Begin, Whole, TypeOK
    <3> QED
      BY <3>1 DEF Manifests
  <2>5. fil'.s = s /\ fil'.pc \in {"publish", "open"}
    BY <1>4 DEF Begin, NoFiling
  <2>6. fil'.pc = "open" => journal'[s].from \in Paths
    <3>1. fil'.pc = "open" =>
            journal' = [journal EXCEPT ![s] =
              [from |-> man[s].page, froms |-> @.froms \cup {man[s].page},
               rev |-> man[s].cur, complete |-> FALSE]]
      <4>1. [NoFiling EXCEPT !.pc = "publish", !.s = s, !.fresh = TRUE].pc = "publish"
        BY DEF NoFiling
      <4> QED
        BY <1>4, <4>1 DEF Begin
    <3> QED
      BY <1>s, <2>4, <3>1
  <2> QED
    BY <2>1, <2>3, <2>5, <2>6 DEF Carrying, HoldsSource, plan
<1>5. ASSUME Open PROVE Carrying'
  <2>1. fil.pc = "open" /\ fil'.pc = "lock" /\ fil'.s = fil.s /\ UNCHANGED <<journal, review>>
    BY <1>5 DEF Open, Filed, Next1, TypeOK, Filings
  <2> QED
    BY <1>3, <2>1, Steps DEF FilingPhases
<1>6. ASSUME Lock PROVE Carrying'
  <2> DEFINE from == IF page[plan.from] # None THEN plan.from ELSE fil.s
  <2>0. fil.pc = "lock" /\ fil.pc # Idle /\ UNCHANGED <<journal, review>>
    BY <1>6, Steps DEF Lock, Filed, FilingPhases
  <2>1. CASE fil' = NoFiling
    BY <1>2, <2>1
  <2>2. CASE man[fil.s].cur = plan.rev /\ Held(from, fil.s) = plan.rev
             /\ fil' = [fil EXCEPT !.pc = "copy", !.text = page[from]]
    <3>1. Whole(fil.s)
      BY <1>s, <2>0 DEF Carrying, Known, Filed
    <3>2. man[fil.s] \in Manifests
      BY <1>s, <3>1 DEF Whole, TypeOK
    <3>3. plan.rev \in Revs
      BY <2>2, <3>2 DEF Manifests
    <3>4. Held(from, fil.s) # None
      BY <2>2, <3>3, Ranges
    <3>5. page[from] \in Pages
      BY <3>4 DEF Held, TypeOK
    <3> HIDE DEF from
    <3>6. fil'.pc = "copy" /\ fil'.text \in Pages /\ fil'.s = fil.s
      BY <2>2, <3>5 DEF TypeOK, Filings
    <3> QED
      BY <1>3, <2>0, <3>6
  <2> QED
    BY <1>6, <2>1, <2>2 DEF Lock, Fails
<1>7. ASSUME Copy \/ Name \/ Drop PROVE Carrying'
  <2>1. /\ fil.pc \in {"copy", "name", "drop"} /\ fil.pc # Idle /\ fil.text \in Pages
        /\ UNCHANGED <<journal, review>>
    BY <1>7, Steps DEF Copy, Name, Drop, Filed, FilingPhases, Carrying, HoldsSource
  <2>2. fil' = NoFiling \/ \E p \in {"name", "drop", "note"} : fil' = [fil EXCEPT !.pc = p]
    BY <1>7 DEF Copy, Name, Drop, Fails, Next1
  <2>3. fil' = NoFiling \/ (fil'.s = fil.s /\ fil'.text = fil.text)
    BY <2>2 DEF TypeOK, Filings
  <2> QED
    BY <1>2, <1>3, <2>1, <2>3
<1>8. ASSUME Refresh \/ Rewrite PROVE Carrying'
  <2>1. fil.pc \in {"note", "rewrite"} /\ fil.pc # Idle /\ UNCHANGED <<journal, review>>
    BY <1>8, Steps DEF Refresh, Rewrite, Filed, FilingPhases
  <2>2. fil' = NoFiling \/ (fil'.s = fil.s /\ fil'.pc \in {"rewrite", "move"})
    BY <1>8 DEF Refresh, Rewrite, Fails, Next1, TypeOK, Filings
  <2> QED
    BY <1>2, <1>3, <2>1, <2>2
<1>9. ASSUME Move PROVE Carrying'
  <2>1. fil.pc = "move" /\ fil.pc # Idle /\ UNCHANGED review
    BY <1>9, Steps DEF Move, Filed, FilingPhases
  <2>2. fil' = NoFiling \/ (fil'.s = fil.s /\ fil'.pc = "publish")
    BY <1>9 DEF Move, Fails, Next1, TypeOK, Filings
  <2>3. row'[fil.s] # None /\ review[fil.s] # None
    BY <1>s, <2>1, RowsStay DEF Carrying, Filed
  <2>4. CASE fil'.s = fil.s /\ fil'.pc = "publish"
    BY <2>1, <2>3, <2>4 DEF Carrying, HoldsSource, plan
  <2> QED
    BY <1>2, <2>2, <2>4
<1>10. ASSUME Publish PROVE Carrying'
  BY <1>2, <1>10 DEF Publish, Fails
<1>11. ASSUME FailFiling PROVE Carrying'
  BY <1>2, <1>11 DEF FailFiling, Fails
<1>12. ASSUME EditNote PROVE Carrying'
  <2>1. UNCHANGED <<journal, review>> /\ fil'.s = fil.s /\ fil'.pc = fil.pc /\ fil'.text = fil.text
    BY <1>12 DEF EditNote, TypeOK, Filings
  <2>2. row[fil.s] # None => row'[fil.s] # None
    BY <1>s, RowsStay
  <2> QED
    BY <2>1, <2>2 DEF Carrying, Filed, HoldsSource, plan
<1>13. ASSUME MarkReviewed PROVE Carrying'
  <2>1. UNCHANGED journal /\ fil'.s = fil.s /\ fil'.pc = fil.pc /\ fil'.text = fil.text
    BY <1>13 DEF MarkReviewed, TypeOK, Filings
  <2>2. row[fil.s] # None => row'[fil.s] # None
    BY <1>s, RowsStay
  <2>3. \A s \in Sids : review[s] # None => review'[s] # None
    <3>1. \A s \in Sids, flag \in BOOLEAN : Whole(s) => man[s].cur \in Revs
      BY DEF Whole, TypeOK, Manifests
    <3>2. \A s \in Sids, flag \in BOOLEAN : Recorded(s, flag) \in Approvals
      BY <3>1 DEF Recorded, Approvals
    <3> QED
      BY <1>13, <3>2, FilingAssumption DEF MarkReviewed, TypeOK
  <2> QED
    BY <1>s, <2>1, <2>2, <2>3 DEF Carrying, Filed, HoldsSource, plan
<1>14. CASE Crash
  BY <1>2, <1>14 DEF Crash
<1> QED
  BY <1>1, <1>4, <1>5, <1>6, <1>7, <1>8, <1>9, <1>10, <1>11, <1>12, <1>13, <1>14
     DEF FNext, Ingesting, Recovering, FilingSteps, fvars

\* A step of an ingest that touches no file but the claim and the pages.
LEMMA StepsOnly ==
  ASSUME Inv, UNCHANGED <<dirs, man, note, row, rec, acks>>,
         \/ Claim \/ FlushRows \/ PlaceFirstPage \/ CleanClaim \/ CleanPage \/ Resolve \/ Look
         \/ Place \/ Swap \/ FailNew \/ RecordFails \/ FailPage
         \/ \E c \in Contents : Request(c)
  PROVE  Pristine' /\ Shown' /\ Coming' /\ Asked' /\ Known' /\ AcknowledgedIsKept'
<1> USE DEF Inv, Hand
<1>s. /\ att \in Attempts /\ att.s \in Sids /\ att.r \in Revs
      /\ dirs \in [Sids -> [Revs -> {None, Torn} \cup Contents]]
      /\ acks \subseteq [s : Sids, r : Revs, c : Contents]
  BY DEF TypeOK, Attempts
<1>k. Known' /\ AcknowledgedIsKept'
  BY DEF Known, AcknowledgedIsKept, Whole
<1> USE <1>k, Steps DEF Pristine, First, Shown, Coming, Asked, At, Whole, NewSteps, CleanSteps, OldSteps
<1>0. CASE att' = NoAttempt
  BY <1>0 DEF NoAttempt
<1>1. ASSUME Claim PROVE Pristine' /\ Shown' /\ Coming' /\ Asked'
  <2>1. att.pc = "claim" /\ att' = [att EXCEPT !.pc = "rows"]
    BY <1>1 DEF Claim, Goto
  <2>2. att'.pc = "rows" /\ att'.s = att.s /\ att'.r = att.r /\ att'.c = att.c
    BY <1>s, <2>1 DEF Attempts
  <2> QED
    BY <2>1, <2>2
<1>2. ASSUME FlushRows PROVE Pristine' /\ Shown' /\ Coming' /\ Asked'
  <2>1. FreePending # {} => FirstFree \in Paths
    BY DEF FirstFree, FreePending, Paths
  <2>2. CASE att' = [att EXCEPT !.pc = "clean"]
    BY <1>s, <1>2, <2>2 DEF Attempts, FlushRows
  <2>3. CASE FreePending # {} /\ att' = [att EXCEPT !.pc = "dir", !.at = FirstFree, !.flushed = TRUE]
    <3>1. att'.s = att.s /\ att'.r = att.r /\ att'.c = att.c /\ att'.pc = "dir" /\ att'.at \in Paths
      BY <1>s, <2>1, <2>3 DEF Attempts
    <3> QED
      BY <1>2, <3>1 DEF FlushRows
  <2> QED
    BY <1>2, <2>2, <2>3 DEF FlushRows, Goto
<1>3. ASSUME PlaceFirstPage PROVE Pristine' /\ Shown' /\ Coming' /\ Asked'
  <2>1. \/ att' = [att EXCEPT !.pc = "clean"]
        \/ att' = [att EXCEPT !.pc = "manifest", !.made = TRUE]
    BY <1>3 DEF PlaceFirstPage, Goto
  <2>2. /\ att'.s = att.s /\ att'.r = att.r /\ att'.c = att.c /\ att'.at = att.at
        /\ att'.pc \in {"clean", "manifest"}
    BY <1>s, <2>1 DEF Attempts
  <2>3. att.pc = "page"
    BY <1>3 DEF PlaceFirstPage
  <2> QED
    BY <2>2, <2>3
<1>4. ASSUME CleanClaim \/ FailNew PROVE Pristine' /\ Shown' /\ Coming' /\ Asked'
  <2>1. First /\ (att' = NoAttempt \/ \E p \in {"unpage", "clean"} : att' = [att EXCEPT !.pc = p])
    BY <1>4 DEF CleanClaim, FailNew, Goto, Refuse
  <2>2. CASE \E p \in {"unpage", "clean"} : att' = [att EXCEPT !.pc = p]
    <3>1. att'.pc \in {"unpage", "clean"} /\ att'.s = att.s /\ att'.r = att.r /\ att'.c = att.c
      BY <1>s, <2>2 DEF Attempts
    <3> QED
      BY <2>1, <3>1
  <2> QED
    BY <1>0, <2>1, <2>2
<1>5. ASSUME CleanPage \/ RecordFails \/ FailPage PROVE Pristine' /\ Shown' /\ Coming' /\ Asked'
  BY <1>0, <1>5 DEF CleanPage, RecordFails, FailPage, Refuse
<1>6. ASSUME NEW c \in Contents, Request(c) PROVE Pristine' /\ Shown' /\ Coming' /\ Asked'
  <2>1. CASE claim = None
    <3>1. PICK s \in Fresh : att' = [NoAttempt EXCEPT !.pc = "claim", !.c = c, !.s = s]
      BY <1>6, <2>1 DEF Request
    <3>2. s \in Sids /\ man[s] = None /\ row[s] = None /\ note[s] = NoNote
      BY DEF Fresh
    <3>3. att'.pc = "claim" /\ att'.c = c /\ att'.s = s /\ att'.r = 1
      BY <3>1 DEF NoAttempt
    <3>4. rec # Idle => rec[s] = None
      BY <3>2 DEF Known
    <3>5. \A a \in acks : a.s # s
      BY <3>2 DEF AcknowledgedIsKept
    <3> QED
      BY <3>2, <3>3, <3>4, <3>5
  <2>2. CASE claim # None
    <3>1. att'.pc = "resolve" /\ att'.c = c /\ claim' # None
      BY <1>6, <2>2 DEF Request, NoAttempt
    <3> QED
      BY <3>1
  <2> QED
    BY <2>1, <2>2
<1>7. ASSUME Resolve PROVE Pristine' /\ Shown' /\ Coming' /\ Asked'
  <2>1. CASE Resolves(claim, att.c)
    <3> DEFINE same == man[claim].ids[man[claim].cur] = att.c
               r == IF same THEN man[claim].cur ELSE man[claim].cur + 1
               q == IF same THEN "look" ELSE "mkdir"
    <3>1. att.c \in Contents /\ Whole(claim) /\ (same => man[claim].ids[man[claim].cur] = dirs[claim][man[claim].cur])
      BY <1>7, <2>1 DEF Resolve, Resolves, Verified
    <3>2. att' = [att EXCEPT !.s = claim, !.flushed = TRUE, !.pc = q, !.r = r]
      BY <1>7, <2>1 DEF Resolve
    <3>3. att'.s = claim /\ att'.pc = q /\ att'.r = r /\ att'.c = att.c
      <4> HIDE DEF q, r
      <4> QED
        BY <1>s, <3>2 DEF Attempts
    <3>4. CASE same
      BY <3>1, <3>3, <3>4
    <3>5. CASE ~same
      BY <3>1, <3>3, <3>5
    <3> QED
      BY <3>4, <3>5
  <2>2. CASE ~Resolves(claim, att.c)
    BY <1>0, <1>7, <2>2 DEF Resolve, Refuse
  <2> QED
    BY <2>1, <2>2
<1>8. ASSUME Look PROVE Pristine' /\ Shown' /\ Coming' /\ Asked'
  <2>1. PagePath \in Paths
    BY <1>8, NameFound DEF Look
  <2>2. PICK q \in {"record", "place"} : att' = [att EXCEPT !.at = PagePath, !.pc = q]
    BY <1>8 DEF Look
  <2>3. att'.s = att.s /\ att'.r = att.r /\ att'.c = att.c /\ att'.at \in Paths /\ att'.pc = q
    BY <1>s, <2>1, <2>2 DEF Attempts
  <2>4. att.pc = "look"
    BY <1>8 DEF Look
  <2> QED
    BY <2>3, <2>4
<1>9. ASSUME Place \/ Swap PROVE Pristine' /\ Shown' /\ Coming' /\ Asked'
  <2>1. \/ att' = NoAttempt
        \/ att' = [att EXCEPT !.pc = "record", !.made = TRUE]
        \/ \E q \in {"record", "swap"} : att' = [att EXCEPT !.pc = q]
    BY <1>9 DEF Place, Swap, Refuse, Goto
  <2>2. att.pc \in {"place", "swap"}
    BY <1>9 DEF Place, Swap
  <2>3. \/ att' = NoAttempt
        \/ /\ att'.s = att.s /\ att'.r = att.r /\ att'.c = att.c /\ att'.at = att.at
           /\ att'.pc \in {"record", "swap"}
    BY ZenonT(60), <1>s, <2>1 DEF Attempts
  <2> QED
    BY <1>0, <2>2, <2>3
<1> QED
  BY <1>1, <1>2, <1>3, <1>4, <1>5, <1>6, <1>7, <1>8, <1>9

\* The steps of an ingest that write a directory, a manifest, a note or a row.
LEMMA WritingSteps ==
  ASSUME Inv, FNext,
         \/ MakeFirstRevision \/ WriteFirstManifest \/ CreateNote \/ CleanBundle \/ RecordPage
         \/ MakeDirectory \/ FillDirectory \/ Supersede \/ Commit \/ FailRevision
  PROVE  Pristine' /\ Shown' /\ Coming' /\ Asked' /\ Known' /\ AcknowledgedIsKept'
<1> USE DEF Inv, Hand
<1>s. /\ att \in Attempts /\ att.s \in Sids /\ att.r \in Revs
      /\ dirs \in [Sids -> [Revs -> {None, Torn} \cup Contents]]
      /\ man \in [Sids -> {None, Torn} \cup Manifests]
      /\ note \in [Sids -> Notes] /\ row \in [Sids -> {None} \cup Rows]
      /\ acks \subseteq [s : Sids, r : Revs, c : Contents]
  BY DEF TypeOK, Attempts
<1>a. \A a \in acks : a.s \in Sids /\ a.r \in Revs /\ a.c \in Contents
  BY <1>s
<1>w. \A s \in Sids : Whole(s) => man[s].cur \in Nat
  BY DEF TypeOK, Whole, Manifests, Revs
<1> USE Steps DEF Pristine, First, Shown, Coming, Asked, At, Whole, NewSteps, CleanSteps, OldSteps
<1>1. ASSUME MakeFirstRevision PROVE Pristine' /\ Shown' /\ Coming' /\ Asked' /\ Known' /\ AcknowledgedIsKept'
  <2>1. att.pc = "dir" /\ att'.pc = "page" /\ att'.s = att.s /\ att'.r = att.r /\ att'.c = att.c /\ att'.at = att.at
    BY <1>s, <1>1 DEF MakeFirstRevision, Goto, Attempts
  <2>2. dirs' = [dirs EXCEPT ![att.s][1] = att.c] /\ UNCHANGED <<man, note, row, rec, acks>>
    BY <1>1 DEF MakeFirstRevision
  <2>3. dirs'[att.s][1] = att.c /\ \A s \in Sids \ {att.s} : dirs'[s] = dirs[s]
    BY <1>s, <2>2, Ranges
  <2>4. Known'
    BY <2>2 DEF Known
  <2>5. AcknowledgedIsKept'
    BY <1>a, <2>1, <2>2, <2>3 DEF AcknowledgedIsKept
  <2> QED
    BY <2>1, <2>2, <2>3, <2>4, <2>5
<1>2. ASSUME WriteFirstManifest PROVE Pristine' /\ Shown' /\ Coming' /\ Asked' /\ Known' /\ AcknowledgedIsKept'
  <2>1. att.pc = "manifest" /\ att'.pc = "note" /\ att'.s = att.s /\ att'.r = att.r /\ att'.c = att.c /\ att'.at = att.at
    BY <1>s, <1>2 DEF WriteFirstManifest, Goto, Attempts
  <2>2. UNCHANGED <<dirs, note, row, rec, acks>>
    BY <1>2 DEF WriteFirstManifest
  <2> DEFINE m == [cur |-> 1, ids |-> [r \in Revs |-> IF r = 1 THEN att.c ELSE None], page |-> att.at]
  <2>3. man' = [man EXCEPT ![att.s] = m]
    BY <1>2 DEF WriteFirstManifest
  <2>4. m \in Manifests /\ m.cur = 1 /\ m.ids[1] = att.c
    BY <2>1, Ranges DEF Manifests
  <2> HIDE DEF m
  <2>5. m \notin {None, Torn}
    BY <2>4, ValuesAssumption
  <2>6. man'[att.s] = m /\ \A s \in Sids \ {att.s} : man'[s] = man[s]
    BY <1>s, <2>3
  <2>7. Known'
    BY <2>1, <2>2, <2>6 DEF Known
  <2>8. AcknowledgedIsKept'
    BY <1>a, <2>1, <2>2, <2>6 DEF AcknowledgedIsKept
  <2> QED
    BY <2>1, <2>2, <2>4, <2>5, <2>6, <2>7, <2>8
<1>3. ASSUME CreateNote PROVE Pristine' /\ Shown' /\ Coming' /\ Asked' /\ Known' /\ AcknowledgedIsKept'
  <2>1. att.pc = "note" /\ att'.pc = "commit" /\ att'.s = att.s /\ att'.r = att.r /\ att'.c = att.c
    BY <1>s, <1>3 DEF CreateNote, Goto, Attempts
  <2>2. UNCHANGED <<dirs, man, row, rec, acks>> /\ \A s \in Sids \ {att.s} : note'[s] = note[s]
    BY <1>s, <1>3 DEF CreateNote
  <2>3. Known' /\ AcknowledgedIsKept'
    BY <1>s, <2>1, <2>2 DEF Known, AcknowledgedIsKept
  <2> QED
    BY <2>1, <2>2, <2>3
<1>4. ASSUME CleanBundle PROVE Pristine' /\ Shown' /\ Coming' /\ Asked' /\ Known' /\ AcknowledgedIsKept'
  <2>1. att.pc = "clean" /\ att'.pc = "unclaim" /\ att'.s = att.s /\ att'.r = att.r /\ att'.c = att.c
    BY <1>s, <1>4 DEF CleanBundle, Goto, Attempts
  <2>2. UNCHANGED <<note, row, rec, acks>>
    BY <1>4 DEF CleanBundle
  <2>3. \A s \in Sids \ {att.s} : man'[s] = man[s] /\ dirs'[s] = dirs[s]
    BY <1>s, <1>4 DEF CleanBundle
  <2>4. Known' /\ AcknowledgedIsKept'
    BY <1>a, <2>1, <2>2, <2>3 DEF Known, AcknowledgedIsKept
  <2>5. man'[att.s] \in {None, man[att.s]}
    BY <1>s, <1>4 DEF CleanBundle
  <2> QED
    BY <2>1, <2>2, <2>4, <2>5
<1>5. ASSUME RecordPage PROVE Pristine' /\ Shown' /\ Coming' /\ Asked' /\ Known' /\ AcknowledgedIsKept'
  <2>1. att.pc = "record" /\ att'.pc = "commit" /\ att'.s = att.s /\ att'.r = att.r /\ att'.c = att.c
    BY <1>s, <1>5 DEF RecordPage, Goto, Attempts
  <2>2. UNCHANGED <<dirs, note, row, rec, acks>>
    BY <1>5 DEF RecordPage
  <2>3. man[att.s] \in Manifests /\ att.at \in Paths
    BY <1>s, <2>1
  <2>4. man'[att.s] = [man[att.s] EXCEPT !.page = att.at] /\ \A s \in Sids \ {att.s} : man'[s] = man[s]
    BY <1>s, <1>5 DEF RecordPage
  <2>5. /\ man'[att.s] \in Manifests /\ man'[att.s].cur = man[att.s].cur
        /\ man'[att.s].ids = man[att.s].ids
    BY <2>3, <2>4 DEF Manifests
  <2>6. man'[att.s] \notin {None, Torn}
    BY <2>5, ValuesAssumption
  <2>8. \A s \in Sids : Whole(s) => /\ man'[s] \notin {None, Torn}
                                    /\ man'[s].cur = man[s].cur /\ man'[s].ids = man[s].ids
    BY <2>4, <2>5, <2>6
  <2>9. Known'
    BY <2>2, <2>8 DEF Known
  <2>7. AcknowledgedIsKept'
    BY <1>a, <2>2, <2>8 DEF AcknowledgedIsKept
  <2> QED
    BY <2>1, <2>2, <2>5, <2>6, <2>7, <2>9
<1>6. ASSUME MakeDirectory PROVE Pristine' /\ Shown' /\ Coming' /\ Asked' /\ Known' /\ AcknowledgedIsKept'
  <2>1. att.pc = "mkdir" /\ att.r > man[att.s].cur
    BY <1>s, <1>w, <1>6 DEF MakeDirectory
  <2>2. UNCHANGED <<claim, man, note, row, rec, acks>>
    BY <1>6 DEF MakeDirectory
  <2>3. \/ att' = NoAttempt
        \/ att'.pc = "fill" /\ att'.s = att.s /\ att'.r = att.r /\ att'.c = att.c
    BY <1>s, <1>6 DEF MakeDirectory, Goto, Refuse, Attempts
  <2>4. \A s \in Sids, r \in Revs : s # att.s \/ r # att.r => dirs'[s][r] = dirs[s][r]
    BY <1>s, <1>6 DEF MakeDirectory
  <2>5. Known'
    BY <2>2 DEF Known
  <2>6. AcknowledgedIsKept'
    BY <1>a, <1>s, <1>w, <2>1, <2>2, <2>4 DEF AcknowledgedIsKept
  <2>7. att'.pc = Idle => Pristine' /\ Shown' /\ Coming' /\ Asked'
    OBVIOUS
  <2> QED
    BY <2>1, <2>2, <2>3, <2>5, <2>6, <2>7 DEF NoAttempt
<1>7. ASSUME FillDirectory PROVE Pristine' /\ Shown' /\ Coming' /\ Asked' /\ Known' /\ AcknowledgedIsKept'
  <2>1. att.pc = "fill" /\ att.r > man[att.s].cur
    BY <1>s, <1>w, <1>7 DEF FillDirectory
  <2>2. UNCHANGED <<claim, man, note, row, rec, acks>>
    BY <1>7 DEF FillDirectory
  <2>3. PagePath \in Paths
    BY <1>7, NameFound DEF FillDirectory
  <2>4. att'.pc = "supersede" /\ att'.s = att.s /\ att'.r = att.r /\ att'.c = att.c /\ att'.at \in Paths
    BY <1>s, <1>7, <2>3 DEF FillDirectory, Attempts
  <2>5. /\ dirs'[att.s][att.r] = att.c
        /\ \A s \in Sids, r \in Revs : s # att.s \/ r # att.r => dirs'[s][r] = dirs[s][r]
    BY <1>s, <1>7 DEF FillDirectory
  <2>6. Known'
    BY <2>2 DEF Known
  <2>7. AcknowledgedIsKept'
    BY <1>a, <1>s, <1>w, <2>1, <2>2, <2>5 DEF AcknowledgedIsKept
  <2> QED
    BY <2>1, <2>2, <2>4, <2>5, <2>6, <2>7
<1>8. ASSUME Supersede PROVE Pristine' /\ Shown' /\ Coming' /\ Asked' /\ Known' /\ AcknowledgedIsKept'
  <2>1. att.pc = "supersede" /\ att.r > man[att.s].cur
    BY <1>s, <1>w, <1>8 DEF Supersede
  <2>2. UNCHANGED <<claim, dirs, note, row, rec, acks>>
    BY <1>8 DEF Supersede
  <2>3. att'.pc = "place" /\ att'.s = att.s /\ att'.r = att.r /\ att'.c = att.c /\ att'.at = att.at
    BY <1>s, <1>8 DEF Supersede, Goto, Attempts
  <2> DEFINE m == [cur |-> att.r, ids |-> [man[att.s].ids EXCEPT ![att.r] = att.c], page |-> att.at]
  <2>4. man[att.s] \in Manifests
    BY <1>s, <2>1
  <2>5. /\ m \in Manifests /\ m.cur = att.r /\ m.ids[att.r] = att.c
        /\ \A r \in Revs \ {att.r} : m.ids[r] = man[att.s].ids[r]
    BY <1>s, <2>1, <2>4 DEF Manifests
  <2>6. man' = [man EXCEPT ![att.s] = m]
    BY <1>8 DEF Supersede
  <2> HIDE DEF m
  <2>7. m \notin {None, Torn}
    BY <2>5, ValuesAssumption
  <2>8. man'[att.s] = m /\ \A s \in Sids \ {att.s} : man'[s] = man[s]
    BY <1>s, <2>6
  <2>9. Known'
    <3>1. \A s \in Sids : Whole(s) => man'[s] \notin {None, Torn} /\ man'[s].cur >= man[s].cur
      BY <1>s, <1>w, <2>1, <2>5, <2>7, <2>8
    <3>2. \A s \in Sids : man'[s] \notin {None, Torn} => man'[s].cur \in Nat
      BY <1>s, <1>w, <2>5, <2>8 DEF Revs
    <3>3. \A s \in Sids : /\ row[s] # None => row[s].cur \in Nat
                          /\ rec # Idle /\ rec[s] # None => rec[s].cur \in Nat
      BY DEF TypeOK, Rows, Readings, Revs
    <3> QED
      BY <1>w, <2>2, <3>1, <3>2, <3>3 DEF Known
  <2>10. AcknowledgedIsKept'
    <3>1. \A a \in acks : a.s = att.s => a.r < att.r
      BY <1>a, <1>s, <1>w, <2>1 DEF AcknowledgedIsKept, Revs
    <3>2. \A a \in acks : a.s = att.s => m.ids[a.r] = a.c /\ m.cur >= a.r
      BY <1>a, <1>s, <2>5, <3>1 DEF AcknowledgedIsKept, Revs
    <3> QED
      BY <1>a, <2>2, <2>7, <2>8, <3>2 DEF AcknowledgedIsKept
  <2> QED
    BY <1>s, <2>1, <2>2, <2>3, <2>5, <2>7, <2>8, <2>9, <2>10
<1>9. ASSUME Commit PROVE Pristine' /\ Shown' /\ Coming' /\ Asked' /\ Known' /\ AcknowledgedIsKept'
  <2>1. att.pc = "commit" /\ att' = NoAttempt /\ UNCHANGED <<claim, dirs, man, note, rec>>
    BY <1>9 DEF Commit, Refuse
  <2>2. row' = row \/ row' = [row EXCEPT ![att.s] = Mirrored(att.s, att.r)]
    BY <1>9 DEF Commit
  <2>3. row[att.s] # None => row[att.s] \in Rows
    BY <1>s
  <2>4. Mirrored(att.s, att.r).cur = att.r
    BY <2>3 DEF Mirrored, Rows
  <2>5. Known'
    BY <1>s, <1>w, <2>1, <2>2, <2>4 DEF Known
  <2>6. acks' \subseteq acks \cup {[s |-> att.s, r |-> att.r, c |-> att.c]}
    BY <1>9 DEF Commit
  <2>7. AcknowledgedIsKept'
    BY <1>s, <1>w, <2>1, <2>6 DEF AcknowledgedIsKept
  <2>8. att'.pc = Idle
    BY <2>1 DEF NoAttempt
  <2> QED
    BY <2>5, <2>7, <2>8
<1>10. ASSUME FailRevision PROVE Pristine' /\ Shown' /\ Coming' /\ Asked' /\ Known' /\ AcknowledgedIsKept'
  <2>1. att.pc \in {"fill", "supersede"} /\ att.r > man[att.s].cur
    BY <1>s, <1>w, <1>10 DEF FailRevision
  <2>2. att' = NoAttempt /\ UNCHANGED <<claim, man, note, row, rec, acks>>
    BY <1>10 DEF FailRevision, Refuse
  <2>3. \A s \in Sids, r \in Revs : s # att.s \/ r # att.r => dirs'[s][r] = dirs[s][r]
    BY <1>s, <1>10 DEF FailRevision
  <2>4. Known'
    BY <2>2 DEF Known
  <2>5. AcknowledgedIsKept'
    BY <1>a, <1>s, <1>w, <2>1, <2>2, <2>3 DEF AcknowledgedIsKept
  <2>6. att'.pc = Idle
    BY <2>2 DEF NoAttempt
  <2> QED
    BY <2>4, <2>5, <2>6
<1> QED
  BY <1>1, <1>2, <1>3, <1>4, <1>5, <1>6, <1>7, <1>8, <1>9, <1>10

\* Recovery reads where no first ingest has a manifest it may still remove, and
\* its transaction writes only what it read of sources that keep theirs.
LEMMA RecoverySteps ==
  ASSUME Inv, ~IngestRuns, RecoverRead \/ RecoverWrite
  PROVE  Pristine' /\ Shown' /\ Coming' /\ Asked' /\ Known' /\ AcknowledgedIsKept'
<1> USE DEF Inv, Hand
<1>s. /\ att.s \in Sids /\ row \in [Sids -> {None} \cup Rows]
  BY DEF TypeOK, Attempts
<1>1. UNCHANGED <<claim, dirs, man, note, att, acks>>
  BY DEF RecoverRead, RecoverWrite
<1>2. Shown' /\ Coming' /\ Asked' /\ AcknowledgedIsKept'
  BY <1>1 DEF Shown, Coming, Asked, At, Whole, AcknowledgedIsKept
<1>3. CASE RecoverRead
  <2>1. rec' = [s \in Sids |-> IF Whole(s) THEN [cur |-> man[s].cur, linked |-> note[s].files = 1]
                               ELSE None] /\ row' = row
    BY <1>3 DEF RecoverRead
  <2>2. First => man[att.s] = None
    BY Steps DEF Pristine, First, NewSteps, CleanSteps, IngestRuns
  <2>3. Pristine'
    BY <1>s, <1>1, <2>1, <2>2 DEF Pristine, First, Whole
  <2>4. \A s \in Sids : Whole(s) => man[s].cur \in Nat
    BY DEF TypeOK, Whole, Manifests, Revs
  <2>5. Known'
    BY <1>1, <2>1, <2>4 DEF Known, Whole
  <2> QED
    BY <1>2, <2>3, <2>5
<1>4. CASE RecoverWrite
  <2>1. rec # Idle /\ rec' = Idle /\ rec \in [Sids -> {None} \cup Readings]
    BY <1>4 DEF RecoverWrite, TypeOK
  <2>2. ASSUME NEW s \in Sids
        PROVE  row'[s] = row[s] \/ (rec[s] # None /\ row'[s].cur = rec[s].cur)
    <3>1. row'[s] = row[s] \/ row'[s] = Recovered(s)
      BY <1>4 DEF RecoverWrite
    <3>2. rec[s] # None /\ row[s] # None => Recovered(s).cur = rec[s].cur
      <4>1. row[s] # None => row[s] \in Rows
        BY <1>s
      <4> QED
        BY <4>1 DEF Recovered, Rows
    <3>3. rec[s] # None /\ row[s] = None => Recovered(s).cur = rec[s].cur
      BY DEF Recovered
    <3>4. rec[s] = None => Recovered(s) = row[s]
      BY DEF Recovered
    <3> QED
      BY <3>1, <3>2, <3>3, <3>4
  <2>3. Pristine'
    BY <1>s, <1>1, <2>1, <2>2 DEF Pristine, First
  <2>4. Known'
    BY <1>1, <2>1, <2>2 DEF Known, Whole
  <2> QED
    BY <1>2, <2>3, <2>4
<1> QED
  BY <1>3, <1>4

LEMMA CrashSteps ==
  ASSUME Inv, Crash
  PROVE  Pristine' /\ Shown' /\ Coming' /\ Asked' /\ Known' /\ AcknowledgedIsKept'
<1> USE DEF Inv, Hand
<1>s. /\ att.s \in Sids /\ man \in [Sids -> {None, Torn} \cup Manifests]
      /\ dirs \in [Sids -> [Revs -> {None, Torn} \cup Contents]]
      /\ acks \subseteq [s : Sids, r : Revs, c : Contents]
  BY DEF TypeOK, Attempts
<1>1. att'.pc = Idle /\ rec' = Idle /\ UNCHANGED <<note, row, acks>>
  BY DEF Crash, Dies, DiesCopying, NoAttempt
<1>2. Pristine' /\ Shown' /\ Coming' /\ Asked'
  BY <1>1, Steps DEF Pristine, First, Shown, Coming, Asked, At, NewSteps, CleanSteps, OldSteps
<1>3. \/ UNCHANGED <<dirs, man>>
      \/ att.pc = "dir" /\ dirs' = [dirs EXCEPT ![att.s][1] = Torn] /\ UNCHANGED man
      \/ att.pc = "manifest" /\ man' = [man EXCEPT ![att.s] = Torn] /\ UNCHANGED dirs
  BY DEF Crash, Dies, DiesCopying, At
<1>4. att.pc \in {"dir", "manifest"} =>
        /\ row[att.s] = None /\ note[att.s] = NoNote /\ \A a \in acks : a.s # att.s
  BY DEF Pristine, First, NewSteps
<1>5. Known'
  BY <1>s, <1>1, <1>3, <1>4 DEF Known, Whole
<1>6. \A a \in acks : dirs'[a.s] = dirs[a.s] /\ man'[a.s] = man[a.s]
  BY <1>s, <1>3, <1>4
<1>7. AcknowledgedIsKept'
  BY <1>1, <1>6 DEF AcknowledgedIsKept, Whole
<1> QED
  BY <1>2, <1>5, <1>7

LEMMA InvInductive ==
  ASSUME Inv, [FNext]_vars PROVE Inv'
<1>1. CASE UNCHANGED vars
  BY <1>1 DEF Inv, TypeOK, Hand, Pristine, First, Shown, Coming, Asked, Known, Carrying, At, Whole,
     Filed, HoldsSource, plan, AcknowledgedIsKept, vars, ivars, fvars
<1>2. CASE FNext
  <2>1. TypeOK'
    BY <1>2, Typed DEF Inv
  <2>2. Carrying'
    BY <1>2, CarryingKept
  <2>3. Pristine' /\ Shown' /\ Coming' /\ Asked' /\ Known' /\ AcknowledgedIsKept'
    <3>1. CASE \E c \in Contents : Request(c)
      BY <3>1, StepsOnly DEF Request
    <3>2. CASE \/ Claim \/ FlushRows \/ PlaceFirstPage \/ CleanClaim \/ CleanPage \/ Resolve \/ Look
               \/ Place \/ Swap \/ FailNew \/ RecordFails \/ FailPage
      <4>1. UNCHANGED <<dirs, man, note, row, rec, acks>>
        BY <3>2 DEF Claim, FlushRows, PlaceFirstPage, CleanClaim, CleanPage, Resolve, Look, Place,
           Swap, FailNew, RecordFails, FailPage
      <4> QED
        BY <3>2, <4>1, StepsOnly
    <3>3. CASE \/ MakeFirstRevision \/ WriteFirstManifest \/ CreateNote \/ CleanBundle \/ RecordPage
               \/ MakeDirectory \/ FillDirectory \/ Supersede \/ Commit \/ FailRevision
      BY <1>2, <3>3, WritingSteps
    <3>4. CASE Recovering
      BY <3>4, RecoverySteps DEF Recovering
    <3>5. CASE FilingSteps \/ FailFiling \/ EditNote \/ MarkReviewed \/ DevicePage \/ DeviceNote
      <4>1. Beside
        BY <3>5, FilingIsBeside DEF FilingSteps
      <4> QED
        BY <4>1, BesideKeeps
    <3>6. CASE Crash
      BY <3>6, CrashSteps
    <3> QED
      BY <1>2, <3>1, <3>2, <3>3, <3>4, <3>5, <3>6 DEF FNext, Ingesting, Working
  <2> QED
    BY <2>1, <2>2, <2>3 DEF Inv, Hand
<1> QED
  BY <1>1, <1>2

LEMMA InvHolds == Spec => []Inv
<1>1. FInit => Inv
  <2>1. FInit => AcknowledgedIsKept
    BY DEF FInit, Init, AcknowledgedIsKept
  <2> QED
    BY <2>1, InitTyped DEF Inv
<1>2. Inv /\ [FNext]_vars => Inv'
  BY InvInductive
<1> QED
  BY <1>1, <1>2, PTL DEF Spec

\* The variables hold what they are meant to hold, whatever steps are taken.
THEOREM FilingTypes == Spec => []TypeOK
<1>1. Inv => TypeOK
  BY DEF Inv
<1> QED
  BY <1>1, InvHolds, PTL

\* What a client was told is stored stays stored, under its revision, and the
\* manifest goes on naming it (_ingest_new, _ingest_existing, _remove_bundle).
THEOREM AcknowledgedSourcesStay == Spec => []AcknowledgedIsKept
<1>1. Inv => AcknowledgedIsKept
  BY DEF Inv
<1> QED
  BY <1>1, InvHolds, PTL

\* Files first: a row is of a source with a manifest, and names no revision the
\* manifest does not, a recovery overtaken by an ingest included (recover_sources).
THEOREM RowsFollowManifests == Spec => []RowsNeverAhead
<1>1. Inv => RowsNeverAhead
  BY DEF Inv, Hand, Known, RowsNeverAhead
<1> QED
  BY <1>1, InvHolds, PTL

-----------------------------------------------------------------------------
(* What is published was approved *)

\* A note says it was reviewed only if the record says what was met, and a
\* filing that has not been overtaken is of such a note.
Reviewed ==
  "unrecorded" \notin hurt =>
    /\ \A s \in Sids : note[s].reviewed =>
         review[s] # None /\ review[s].reviewed /\ review[s].rev \in seen[s]
    /\ ~Filed(Idle) /\ fil.fresh => note[fil.s].reviewed

\* Accidents are remembered.
LEMMA HurtGrows == FNext => hurt \subseteq hurt'
  BY DEF FNext, Ingesting, Working, Recovering, FilingSteps, Request, Claim, FlushRows,
     MakeFirstRevision, PlaceFirstPage, WriteFirstManifest, CreateNote, CleanBundle, CleanClaim,
     CleanPage, Resolve, Look, Place, Swap, RecordPage, MakeDirectory, FillDirectory, Supersede,
     Commit, FailNew, RecordFails, FailRevision, FailPage, RecoverRead, RecoverWrite, DevicePage,
     DeviceNote, Begin, Open, Lock, Copy, Name, Drop, Refresh, Rewrite, Move, Publish, FailFiling,
     EditNote, MarkReviewed, Crash, Dies, DiesCopying, Late, TakeBack

LEMMA NotesKeepReviews ==
  ASSUME Inv, FNext, ~MarkReviewed
  PROVE  /\ \A s \in Sids : note'[s].reviewed => note[s].reviewed
         /\ ~Filed(Idle) => note'[fil.s].reviewed = note[fil.s].reviewed
<1> USE DEF Inv, Hand
<1>s. note \in [Sids -> Notes] /\ fil.s \in Sids /\ att.s \in Sids
  BY DEF TypeOK, Filings, Attempts
<1>1. CASE note' = note
  BY <1>1
<1>2. CASE CreateNote
  <2>1. row[att.s] = None
    BY <1>2 DEF CreateNote, At, Pristine, First, NewSteps
  <2>2. ~Filed(Idle) => fil.s # att.s
    BY <2>1 DEF Carrying
  <2>3. ~note'[att.s].reviewed /\ \A s \in Sids \ {att.s} : note'[s] = note[s]
    BY <1>s, <1>2 DEF CreateNote, OpeningNote
  <2> QED
    BY <1>s, <2>2, <2>3
<1>3. ASSUME NEW s \in Sids, \/ \E n \in {0, 2} : note' = [note EXCEPT ![s].files = n]
                             \/ \E l : note' = [note EXCEPT ![s].link = l]
                             \/ note' = [note EXCEPT ![s].month = TRUE]
      PROVE  \A t \in Sids : note'[t].reviewed = note[t].reviewed
  BY <1>s, <1>3 DEF Notes
<1>4. CASE DeviceNote
  BY <1>s, <1>3, <1>4 DEF DeviceNote
<1>5. CASE Rewrite \/ Move
  BY <1>s, <1>1, <1>3, <1>5 DEF Rewrite, Move
<1>6. note' = note \/ CreateNote \/ DeviceNote \/ Rewrite \/ Move
  BY DEF FNext, Ingesting, Working, Recovering, FilingSteps, Request, Claim, FlushRows,
     MakeFirstRevision, PlaceFirstPage, WriteFirstManifest, CleanBundle, CleanClaim,
     CleanPage, Resolve, Look, Place, Swap, RecordPage, MakeDirectory, FillDirectory, Supersede,
     Commit, FailNew, RecordFails, FailRevision, FailPage, RecoverRead, RecoverWrite, DevicePage,
     Begin, Open, Lock, Copy, Name, Drop, Refresh, Publish, FailFiling, EditNote, Crash, Dies, DiesCopying
<1> QED
  BY <1>1, <1>2, <1>4, <1>5, <1>6

LEMMA ReviewedKept ==
  ASSUME Inv, Reviewed, FNext PROVE Reviewed'
<1> USE DEF Inv, Hand
<1> SUFFICES ASSUME "unrecorded" \notin hurt'
             PROVE  /\ \A s \in Sids : note'[s].reviewed =>
                         review'[s] # None /\ review'[s].reviewed /\ review'[s].rev \in seen'[s]
                    /\ fil'.pc # Idle /\ fil'.fresh => note'[fil'.s].reviewed
  BY DEF Reviewed, Filed
<1>0. "unrecorded" \notin hurt
  BY HurtGrows
<1>s. /\ note \in [Sids -> Notes] /\ review \in [Sids -> {None} \cup Approvals] /\ fil \in Filings
      /\ seen \in [Sids -> SUBSET Revs] /\ fil.s \in Sids /\ man \in [Sids -> {None, Torn} \cup Manifests]
  BY DEF TypeOK, Filings
<1>1. CASE MarkReviewed
  <2>1. PICK s \in Sids, flag \in BOOLEAN :
          /\ note[s].files = 1
          /\ note' = [note EXCEPT ![s].reviewed = flag]
          /\ fil' = IF fil.s = s THEN [fil EXCEPT !.fresh = FALSE] ELSE fil
          /\ review' = [review EXCEPT ![s] = Recorded(s, flag)]
          /\ seen' = IF flag /\ Whole(s) THEN [seen EXCEPT ![s] = @ \cup {man[s].cur}] ELSE seen
    BY <1>1, Zenon DEF MarkReviewed
  <2>2. Whole(s) /\ man[s].cur \in Revs
    <3>1. note[s] # NoNote
      BY <2>1 DEF NoNote
    <3>2. Whole(s)
      BY <3>1 DEF Known
    <3> QED
      BY <1>s, <3>2 DEF Whole, Manifests
  <2>3. Recorded(s, flag).reviewed = flag /\ (flag => Recorded(s, flag).rev = man[s].cur)
        /\ Recorded(s, flag) # None
    <3>1. Recorded(s, flag) \in Approvals
      BY <2>2 DEF Recorded, Approvals
    <3> QED
      BY <2>2, <3>1, FilingAssumption DEF Recorded
  <2>4. \A t \in Sids : seen[t] \subseteq seen'[t]
    BY <1>s, <2>1
  <2>5. note'[s].reviewed = flag /\ \A t \in Sids \ {s} : note'[t] = note[t] /\ review'[t] = review[t]
    BY <1>s, <2>1 DEF Notes
  <2>6. review'[s] = Recorded(s, flag) /\ (flag => man[s].cur \in seen'[s])
    BY <1>s, <2>1, <2>2
  <2>7. fil'.pc = fil.pc /\ fil'.s = fil.s /\ (fil'.fresh => fil.fresh /\ fil.s # s)
    BY <1>s, <2>1 DEF Filings
  <2> QED
    BY <1>0, <1>s, <2>3, <2>4, <2>5, <2>6, <2>7 DEF Reviewed, Filed
<1>2. CASE ~MarkReviewed /\ ~(\E s \in Sids : Begin(s))
  <2>0. UNCHANGED <<review, seen>>
    BY <1>2 DEF FNext, Ingesting, Recovering, FilingSteps, fvars, Open, Lock, Copy, Name, Drop, Refresh,
       Rewrite, Move, Publish, FailFiling, EditNote, Crash
  <2>1. \A s \in Sids : note'[s].reviewed =>
          review'[s] # None /\ review'[s].reviewed /\ review'[s].rev \in seen'[s]
    BY <1>0, <1>2, <2>0, NotesKeepReviews DEF Reviewed
  <2>2. \/ fil'.pc = Idle \/ ~fil'.fresh
        \/ fil'.s = fil.s /\ fil.pc # Idle /\ (fil.fresh \/ note[fil.s].reviewed)
    <3>1. CASE Open \/ Lock \/ Copy \/ Name \/ Drop \/ Refresh \/ Rewrite \/ Move \/ Publish
      <4>1. fil.pc # Idle
        BY <3>1, Steps DEF Open, Lock, Copy, Name, Drop, Refresh, Rewrite, Move, Publish, Filed,
           FilingPhases
      <4>2. \/ fil' = NoFiling
            \/ \E p \in FilingPhases : fil' = [fil EXCEPT !.pc = p]
            \/ \E x : fil' = [fil EXCEPT !.pc = "copy", !.text = x]
            \/ fil' = [fil EXCEPT !.pc = "rewrite", !.fresh = TRUE] /\ note[fil.s].reviewed
        BY <3>1 DEF Open, Lock, Copy, Name, Drop, Refresh, Rewrite, Move, Publish, Fails, Next1,
           FilingPhases
      <4>3. \/ fil' = NoFiling
            \/ fil'.s = fil.s /\ (fil'.fresh = fil.fresh \/ note[fil.s].reviewed)
        BY <1>s, <4>2 DEF Filings
      <4> QED
        BY <4>1, <4>3 DEF NoFiling
    <3>2. CASE fil' = NoFiling
      BY <3>2 DEF NoFiling
    <3>3. CASE EditNote
      BY <1>s, <3>3 DEF EditNote, Filings
    <3>4. CASE fil' = fil
      BY <3>4
    <3>5. \/ Open \/ Lock \/ Copy \/ Name \/ Drop \/ Refresh \/ Rewrite \/ Move \/ Publish
          \/ fil' = NoFiling \/ EditNote \/ fil' = fil
      BY <1>2 DEF FNext, Ingesting, Recovering, FilingSteps, fvars, FailFiling, Fails, Crash
    <3> QED
      BY <3>1, <3>2, <3>3, <3>4, <3>5
  <2> QED
    BY <1>0, <1>2, <2>1, <2>2, NotesKeepReviews DEF Reviewed, Filed
<1>3. ASSUME NEW s \in Sids, Begin(s) PROVE Reviewed'
  <2>1. review' = review /\ note' = note /\ seen' = seen /\ note[s].reviewed
    <3>1. note[s].reviewed
      BY <1>3 DEF Begin
    <3>2. review[s] # None
      BY <1>0, <3>1 DEF Reviewed
    <3> QED
      BY <1>s, <1>3, <3>1, <3>2 DEF Begin, Approved
  <2>2. fil'.s = s
    BY <1>3 DEF Begin, NoFiling
  <2> QED
    BY <1>0, <2>1, <2>2 DEF Reviewed
<1> QED
  BY <1>1, <1>2, <1>3 DEF Reviewed, Filed

\* What each step may write into the filed columns of a row.
LEMMA ApprovalsWritten ==
  ASSUME Inv, FNext, NEW s \in Sids, row'[s] # None
  PROVE  \/ row'[s].approved = None
         \/ row[s] # None /\ row'[s].approved = row[s].approved
         \/ Publish /\ Unchanged /\ s = fil.s /\ row'[s].approved = review[s].rev
<1> USE DEF Inv, Hand
<1>s. row \in [Sids -> {None} \cup Rows] /\ att.s \in Sids /\ fil.s \in Sids
  BY DEF TypeOK, Attempts, Filings
<1>1. CASE UNCHANGED row
  BY <1>1
<1>2. CASE row' = [row EXCEPT ![att.s] = Mirrored(att.s, att.r)]
  <2>1. Mirrored(att.s, att.r).approved = IF row[att.s] = None THEN None ELSE row[att.s].approved
    BY <1>s DEF Mirrored, Rows
  <2> QED
    BY <1>s, <1>2, <2>1
<1>3. CASE RecoverWrite
  <2>1. row'[s] = row[s] \/ row'[s] = Recovered(s)
    BY <1>3 DEF RecoverWrite
  <2>2. row[s] # None => Recovered(s).approved \in {None, row[s].approved}
    <3>1. row[s] # None => row[s] \in Rows
      BY <1>s
    <3> QED
      BY <3>1 DEF Recovered, Rows
  <2>3. row[s] = None => Recovered(s) = None \/ Recovered(s).approved = None
    BY DEF Recovered
  <2> QED
    BY <2>1, <2>2, <2>3
<1>4. CASE row' = [row EXCEPT ![fil.s].filed = FALSE] /\ row[fil.s] # None
  <2>1. row[fil.s] \in Rows
    BY <1>s, <1>4
  <2>2. s = fil.s => row'[s].approved = row[s].approved
    BY <1>s, <1>4, <2>1 DEF Rows
  <2> QED
    BY <1>s, <1>4, <2>2
<1>5. CASE Publish /\ Unchanged
  <2>1. row[fil.s] # None
    BY <1>5, Steps DEF Publish, Filed, FilingPhases, Carrying
  <2>2. /\ s # fil.s => row'[s] = row[s]
        /\ s = fil.s => row'[s] = [row[s] EXCEPT !.filed = TRUE, !.approved = review[s].rev]
    BY <1>s, <1>5 DEF Publish
  <2>3. s = fil.s => row'[s].approved = review[s].rev
    BY <1>s, <2>1, <2>2 DEF Rows
  <2> QED
    BY <1>5, <2>2, <2>3
<1> QED
  <2>1. Fails => UNCHANGED row \/ (row' = [row EXCEPT ![fil.s].filed = FALSE] /\ row[fil.s] # None)
    BY DEF Fails
  <2>2. Open => row' = [row EXCEPT ![fil.s].filed = FALSE] /\ row[fil.s] # None
    BY Steps DEF Open, Filed, FilingPhases, Carrying
  <2>3. Publish /\ ~Unchanged => Fails
    BY DEF Publish
  <2>4. \/ UNCHANGED row \/ Fails \/ Open \/ Publish \/ RecoverWrite
        \/ row' = [row EXCEPT ![att.s] = Mirrored(att.s, att.r)]
    BY DEF FNext, Ingesting, Working, Recovering, FilingSteps, Request, Claim, FlushRows,
       MakeFirstRevision, PlaceFirstPage, WriteFirstManifest, CreateNote, CleanBundle, CleanClaim,
       CleanPage, Resolve, Look, Place, Swap, RecordPage, MakeDirectory, FillDirectory, Supersede,
       Commit, FailNew, RecordFails, FailRevision, FailPage, RecoverRead, DevicePage, DeviceNote,
       Begin, Lock, Copy, Name, Drop, Refresh, Rewrite, Move, FailFiling, EditNote, MarkReviewed,
       Crash, Dies, DiesCopying
  <2> QED
    BY <1>1, <1>2, <1>3, <1>4, <1>5, <2>1, <2>2, <2>3, <2>4

\* Reviews stay on record.
LEMMA SeenGrows == ASSUME Inv, FNext, NEW s \in Sids PROVE seen[s] \subseteq seen'[s]
<1>1. CASE UNCHANGED seen
  BY <1>1
<1>2. CASE MarkReviewed
  <2>1. PICK t \in Sids, flag \in BOOLEAN :
          \/ seen' = IF flag /\ Whole(t) THEN [seen EXCEPT ![t] = @ \cup {man[t].cur}] ELSE seen
          \/ UNCHANGED <<review, seen>>
    BY <1>2, Zenon DEF MarkReviewed
  <2> QED
    BY <2>1 DEF Inv, TypeOK
<1>3. UNCHANGED seen \/ MarkReviewed
  BY DEF FNext, Ingesting, Recovering, FilingSteps, fvars, Begin, Open, Lock, Copy, Name, Drop,
     Refresh, Rewrite, Move, Publish, FailFiling, EditNote, Crash
<1> QED
  BY <1>1, <1>2, <1>3

\* A published source carries a revision a person's review met (_publish,
\* record_review), unless a review was written that no record could be made of.
THEOREM PublishedSourcesWereApproved == Spec => []PublishedWasApproved
<1> DEFINE Both == Reviewed /\ PublishedWasApproved
<1>1. FInit => Both
  BY DEF FInit, Init, Reviewed, NoNote, NoFiling, Filed, PublishedWasApproved
<1>2. ASSUME Inv, Both, [FNext]_vars PROVE Both'
  <2>1. CASE UNCHANGED vars
    BY <1>2, <2>1 DEF Reviewed, Filed, PublishedWasApproved, vars, ivars, fvars
  <2>2. CASE FNext
    <3>1. Reviewed'
      BY <1>2, <2>2, ReviewedKept
    <3>2. ASSUME "unrecorded" \notin hurt', NEW s \in Sids, row'[s] # None, row'[s].approved # None
          PROVE  row'[s].approved \in seen'[s]
      <4>0. "unrecorded" \notin hurt
        BY <2>2, <3>2, HurtGrows
      <4>1. CASE row[s] # None /\ row'[s].approved = row[s].approved
        BY <1>2, <2>2, <3>2, <4>0, <4>1, SeenGrows DEF PublishedWasApproved
      <4>2. CASE Publish /\ Unchanged /\ s = fil.s /\ row'[s].approved = review[s].rev
        <5>1. fil.pc # Idle /\ fil.fresh
          BY <4>2, Steps DEF Publish, Unchanged, Filed, FilingPhases
        <5>2. review[s].rev \in seen[s]
          BY <1>2, <4>0, <4>2, <5>1 DEF Reviewed, Filed
        <5> QED
          BY <1>2, <2>2, <4>2, <5>2, SeenGrows
      <4> QED
        BY <1>2, <2>2, <3>2, <4>1, <4>2, ApprovalsWritten
    <3>3. PublishedWasApproved'
      BY <3>2 DEF PublishedWasApproved
    <3> QED
      BY <3>1, <3>3
  <2> QED
    BY <1>2, <2>1, <2>2
<1>3. Both => PublishedWasApproved
  OBVIOUS
<1> QED
  BY <1>1, <1>2, <1>3, InvHolds, PTL DEF Spec

-----------------------------------------------------------------------------
(* A claim leads to what it claims *)

\* Accidents no cleanup reaches have not happened.
Ours == hurt \cap {"crash", "debris", "stranded", "note"} = {}

Later == \A s \in Sids : Whole(s) => \A r \in Revs : r > man[s].cur => man[s].ids[r] = None

Void(s) == man[s] = None /\ \A r \in Revs : dirs[s][r] = None
Settled(s) == /\ Whole(s) /\ note[s].files = 1
              /\ \A r \in Revs : \/ dirs[s][r] = man[s].ids[r]
                                 \/ att.pc \in {"fill", "supersede"} /\ r = att.r

\* What every identifier has left behind, at each step of the attempt under way.
Accounted ==
  /\ claim # Torn
  /\ \A s \in Sids : s # claim /\ ~(First /\ s = att.s) => Void(s)
  /\ claim \in Sids /\ ~(First /\ claim = att.s) => Settled(claim)
  /\ att.pc \in {"claim", "unpage"} => claim = None
  /\ att.pc \in {"claim", "rows", "dir", "unclaim", "unpage"} => Void(att.s)
  /\ att.pc \in {"page", "manifest"} => \A r \in Revs \ {1} : dirs[att.s][r] = None
  /\ att.pc = "note" => \A r \in Revs : dirs[att.s][r] = man[att.s].ids[r]
  /\ att.pc \in (NewSteps \cup CleanSteps \cup OldSteps) \ {"claim", "unpage", "resolve"} => claim = att.s

LEMMA LaterKept ==
  ASSUME Inv, Later, FNext PROVE Later'
<1> USE DEF Inv, Hand
<1>s. /\ att \in Attempts /\ att.s \in Sids /\ att.r \in Revs /\ man \in [Sids -> {None, Torn} \cup Manifests]
  BY DEF TypeOK, Attempts
<1>0. \A s \in Sids : Whole(s) => man[s] \in Manifests
  BY <1>s DEF Whole
<1>1. ASSUME \A s \in Sids : \/ man'[s] = None \/ man'[s] = Torn
                             \/ Whole(s) /\ man'[s].cur = man[s].cur /\ man'[s].ids = man[s].ids
      PROVE  Later'
  BY <1>1 DEF Later, Whole
<1>2. CASE UNCHANGED man
  BY <1>1, <1>2 DEF Whole
<1>3. CASE CleanBundle \/ Crash
  <2>1. \A s \in Sids : man'[s] \in {None, Torn, man[s]}
    BY <1>s, <1>3 DEF CleanBundle, Crash, Dies, DiesCopying
  <2>2. \A s \in Sids : \/ man'[s] = None \/ man'[s] = Torn
                        \/ Whole(s) /\ man'[s].cur = man[s].cur /\ man'[s].ids = man[s].ids
    BY <1>s, <2>1 DEF Whole
  <2> QED
    BY <1>1, <2>2
<1>4. CASE RecordPage
  <2>1. man[att.s] \in Manifests
    BY <1>s, <1>4 DEF RecordPage, At, Shown, Whole
  <2>2. man'[att.s] = [man[att.s] EXCEPT !.page = att.at] /\ \A s \in Sids \ {att.s} : man'[s] = man[s]
    BY <1>s, <1>4 DEF RecordPage
  <2>3. man'[att.s].cur = man[att.s].cur /\ man'[att.s].ids = man[att.s].ids
    BY <2>1, <2>2 DEF Manifests
  <2>4. Whole(att.s)
    BY <2>1, ValuesAssumption DEF Whole
  <2> QED
    BY <1>1, <2>2, <2>3, <2>4 DEF Whole
<1>5. CASE Name
  <2>1. Beside
    BY <1>5, FilingIsBeside
  <2>2. \A s \in Sids : \/ man'[s] = None \/ man'[s] = Torn
                        \/ Whole(s) /\ man'[s].cur = man[s].cur /\ man'[s].ids = man[s].ids
    BY <1>s, <2>1 DEF Beside, Whole
  <2> QED
    BY <1>1, <2>2
<1>6. CASE WriteFirstManifest
  <2> DEFINE m == [cur |-> 1, ids |-> [r \in Revs |-> IF r = 1 THEN att.c ELSE None], page |-> att.at]
  <2>1. man'[att.s] = m /\ \A s \in Sids \ {att.s} : man'[s] = man[s]
    BY <1>s, <1>6 DEF WriteFirstManifest
  <2>2. \A r \in Revs : r > m.cur => m.ids[r] = None
    OBVIOUS
  <2> QED
    BY <2>1, <2>2 DEF Later, Whole
<1>7. CASE Supersede
  <2> DEFINE m == [cur |-> att.r, ids |-> [man[att.s].ids EXCEPT ![att.r] = att.c], page |-> att.at]
  <2>1. man'[att.s] = m /\ \A s \in Sids \ {att.s} : man'[s] = man[s]
    BY <1>s, <1>7 DEF Supersede
  <2>2. Whole(att.s) /\ att.r = man[att.s].cur + 1
    BY <1>7 DEF Supersede, At, Coming
  <2>3. man[att.s] \in Manifests
    BY <1>0, <1>s, <2>2
  <2>4. \A r \in Revs : r > att.r => m.ids[r] = man[att.s].ids[r] /\ r > man[att.s].cur
    BY <1>s, <2>2, <2>3 DEF Manifests, Revs
  <2>5. \A r \in Revs : r > m.cur => m.ids[r] = None
    BY <1>s, <2>2, <2>4 DEF Later
  <2> HIDE DEF m
  <2> QED
    BY <2>1, <2>5 DEF Later, Whole
<1>8. UNCHANGED man \/ CleanBundle \/ Crash \/ RecordPage \/ Name \/ WriteFirstManifest \/ Supersede
  BY DEF FNext, Ingesting, Working, Recovering, FilingSteps, Request, Claim, FlushRows,
     MakeFirstRevision, PlaceFirstPage, CreateNote, CleanClaim,
     CleanPage, Resolve, Look, Place, Swap, MakeDirectory, FillDirectory,
     Commit, FailNew, RecordFails, FailRevision, FailPage, RecoverRead, RecoverWrite, DevicePage,
     DeviceNote, Begin, Open, Lock, Copy, Drop, Refresh, Rewrite, Move, Publish, FailFiling,
     EditNote, MarkReviewed
<1> QED
  BY <1>2, <1>3, <1>4, <1>5, <1>6, <1>7, <1>8

\* Steps that leave claims, directories and the attempt alone change nothing of it.
LEMMA AccountedBeside ==
  ASSUME Inv, Accounted, UNCHANGED <<claim, dirs, att>>,
         \A s \in Sids : /\ man'[s] = None <=> man[s] = None
                         /\ Whole(s) => man'[s] \notin {None, Torn} /\ man'[s].ids = man[s].ids
                         /\ note'[s].files = note[s].files
  PROVE  Accounted'
<1>s. att.s \in Sids
  BY DEF Inv, TypeOK, Attempts
<1>1. \A s \in Sids : Void(s) => Void(s)'
  BY DEF Void
<1>2. claim \in Sids /\ Settled(claim) =>
        /\ man'[claim] \notin {None, Torn} /\ note'[claim].files = 1
        /\ \A r \in Revs : \/ dirs[claim][r] = man'[claim].ids[r]
                           \/ att.pc \in {"fill", "supersede"} /\ r = att.r
  BY DEF Settled
<1>3. att.pc = "note" => Whole(att.s)
  BY DEF Inv, Hand, Shown
<1> QED
  BY <1>s, <1>1, <1>2, <1>3 DEF Accounted, First, Settled, Void, Whole

\* The same of a step that only moves the attempt on.
LEMMA AccountedSteps ==
  ASSUME Inv, Later, Accounted, FNext, UNCHANGED <<dirs, man, note>>,
         \/ Claim \/ FlushRows \/ PlaceFirstPage \/ CleanClaim \/ CleanPage \/ Resolve \/ Look
         \/ Place \/ Swap \/ FailNew \/ RecordFails \/ FailPage \/ Commit
         \/ \E c \in Contents : Request(c),
         "stranded" \notin hurt'
  PROVE  Accounted'
<1> USE DEF Inv, Hand
<1>s. att \in Attempts /\ att.s \in Sids /\ claim \in {None, Torn} \cup Sids
  BY DEF TypeOK, Attempts
<1> USE Ranges, Steps DEF Accounted, First, Void, Settled, Whole, At, NewSteps, CleanSteps, OldSteps
<1>0. ASSUME att' = NoAttempt, claim' = claim, att.pc \notin {"rows", "dir", "page", "manifest", "note", "clean", "unclaim", "fill", "supersede"}
      PROVE  Accounted'
  <2>1. att'.pc = Idle
    BY <1>0 DEF NoAttempt
  <2> QED
    BY <1>0, <1>s, <2>1
<1>1. CASE Claim
  <2>1. att.pc = "claim" /\ att'.pc = "rows" /\ att'.s = att.s /\ claim' = att.s
    BY <1>s, <1>1 DEF Claim, Goto, Attempts
  <2> QED
    BY <1>s, <2>1
<1>2. CASE FlushRows \/ PlaceFirstPage
  <2>1. att.pc \in {"rows", "page"} /\ claim' = claim
    BY <1>2 DEF FlushRows, PlaceFirstPage
  <2>2. \/ att' = [att EXCEPT !.pc = "clean"]
        \/ att.pc = "rows" /\ att' = [att EXCEPT !.pc = "dir", !.at = FirstFree, !.flushed = TRUE]
        \/ att.pc = "page" /\ att' = [att EXCEPT !.pc = "manifest", !.made = TRUE]
    BY <1>2 DEF FlushRows, PlaceFirstPage, Goto
  <2>3. CASE att' = [att EXCEPT !.pc = "clean"]
    <3>1. att'.s = att.s /\ att'.pc = "clean"
      BY <1>s, <2>3 DEF Attempts
    <3> QED
      BY <1>s, <2>1, <3>1
  <2>4. CASE att.pc = "rows" /\ att' = [att EXCEPT !.pc = "dir", !.at = FirstFree, !.flushed = TRUE]
    <3>1. att'.s = att.s /\ att'.pc = "dir"
      BY <1>s, <2>4 DEF Attempts
    <3> QED
      BY <1>s, <2>1, <2>4, <3>1
  <2>5. CASE att.pc = "page" /\ att' = [att EXCEPT !.pc = "manifest", !.made = TRUE]
    <3>1. att'.s = att.s /\ att'.pc = "manifest"
      BY <1>s, <2>5 DEF Attempts
    <3> QED
      BY <1>s, <2>1, <2>5, <3>1
  <2> QED
    BY <2>2, <2>3, <2>4, <2>5
<1>3. CASE CleanClaim
  <2>1. att.pc = "unclaim" /\ att'.pc = "unpage" /\ att'.s = att.s /\ claim' = None
    BY <1>s, <1>3 DEF CleanClaim, Goto, Attempts
  <2> QED
    BY <1>s, <2>1
<1>4. CASE CleanPage \/ RecordFails \/ FailPage \/ Commit
  BY <1>0, <1>4 DEF CleanPage, RecordFails, FailPage, Commit, Refuse
<1>5. CASE FailNew
  <2>1. CASE att.pc = "claim"
    BY <1>0, <1>5, <2>1 DEF FailNew, Refuse
  <2>2. CASE att.pc \in NewSteps \ {"claim"}
    <3>1. att'.pc = "clean" /\ att'.s = att.s /\ claim' = claim
      BY <1>s, <1>5, <2>2 DEF FailNew, Goto, Attempts
    <3> QED
      BY <1>s, <2>2, <3>1
  <2> QED
    BY <1>5, <2>1, <2>2 DEF FailNew
<1>6. CASE \E c \in Contents : Request(c)
  <2>1. att.pc = Idle /\ claim' = claim
    BY <1>6 DEF Request
  <2>2. \/ att'.pc = "resolve" /\ claim # None
        \/ claim = None /\ att'.pc = "claim" /\ att'.s \in Sids
    BY ZenonT(60), <1>6 DEF Request, Fresh, NoAttempt
  <2> QED
    BY ZenonT(60), <1>s, <2>1, <2>2
<1>7. CASE Resolve
  <2>1. CASE att' = NoAttempt
    BY <1>0, <1>7, <2>1 DEF Resolve
  <2>2. CASE Resolves(claim, att.c)
    <3>1. att.pc = "resolve" /\ claim' = claim
      BY <1>7 DEF Resolve
    <3>2. \E q \in {"look", "mkdir"} : \E r : att' = [att EXCEPT !.s = claim, !.flushed = TRUE, !.pc = q, !.r = r]
      BY <1>7, <2>2 DEF Resolve
    <3>3. att'.pc \in {"look", "mkdir"} /\ att'.s = claim
      BY <1>s, <3>2 DEF Attempts
    <3> QED
      BY ZenonT(60), <1>s, <3>1, <3>3
  <2> QED
    BY <1>7, <2>1, <2>2 DEF Resolve, Refuse
<1>8. CASE Look \/ Place \/ Swap
  <2>1. att.pc \in {"look", "place", "swap"} /\ claim' = claim
    BY <1>8 DEF Look, Place, Swap
  <2>2. \/ att' = NoAttempt
        \/ \E q \in {"record", "place"} : att' = [att EXCEPT !.at = PagePath, !.pc = q]
        \/ att' = [att EXCEPT !.pc = "record", !.made = TRUE]
        \/ \E q \in {"record", "swap"} : att' = [att EXCEPT !.pc = q]
    BY <1>8 DEF Look, Place, Swap, Refuse, Goto
  <2>3. att' = NoAttempt \/ (att'.s = att.s /\ att'.pc \in {"record", "place", "swap"})
    BY ZenonT(60), <1>s, <2>2 DEF Attempts
  <2> QED
    BY <1>0, <1>s, <2>1, <2>3
<1> QED
  BY <1>1, <1>2, <1>3, <1>4, <1>5, <1>6, <1>7, <1>8

\* The same of a step that writes a directory, a manifest or the note.
LEMMA AccountedWrites ==
  ASSUME Inv, Later, Accounted, FNext, "debris" \notin hurt',
         \/ MakeFirstRevision \/ WriteFirstManifest \/ CreateNote \/ CleanBundle \/ RecordPage
         \/ MakeDirectory \/ FillDirectory \/ Supersede \/ FailRevision
  PROVE  Accounted'
<1> USE DEF Inv, Hand
<1>s. /\ att \in Attempts /\ att.s \in Sids /\ att.r \in Revs /\ claim \in {None, Torn} \cup Sids
      /\ dirs \in [Sids -> [Revs -> {None, Torn} \cup Contents]]
      /\ man \in [Sids -> {None, Torn} \cup Manifests] /\ note \in [Sids -> Notes]
  BY DEF TypeOK, Attempts
<1>w. \A s \in Sids : Whole(s) => man[s] \in Manifests /\ man[s].cur \in Nat
  BY <1>s DEF Whole, Manifests, Revs
<1> USE Ranges, Steps DEF Accounted, First, Void, Settled, Whole, At, NewSteps, CleanSteps, OldSteps
<1>1. CASE MakeFirstRevision
  <2>1. att.pc = "dir" /\ att'.pc = "page" /\ att'.s = att.s /\ UNCHANGED <<claim, man, note>>
    BY <1>s, <1>1 DEF MakeFirstRevision, Goto, Attempts
  <2>2. \A s \in Sids, r \in Revs : s # att.s \/ r # 1 => dirs'[s][r] = dirs[s][r]
    BY <1>s, <1>1 DEF MakeFirstRevision
  <2> QED
    BY <1>s, <2>1, <2>2
<1>2. CASE WriteFirstManifest
  <2> DEFINE m == [cur |-> 1, ids |-> [r \in Revs |-> IF r = 1 THEN att.c ELSE None], page |-> att.at]
  <2>1. att.pc = "manifest" /\ att'.pc = "note" /\ att'.s = att.s /\ UNCHANGED <<claim, dirs, note>>
    BY <1>s, <1>2 DEF WriteFirstManifest, Goto, Attempts
  <2>2. man'[att.s] = m /\ \A s \in Sids \ {att.s} : man'[s] = man[s]
    BY <1>s, <1>2 DEF WriteFirstManifest
  <2>3. \A r \in Revs : dirs[att.s][r] = m.ids[r]
    BY <2>1 DEF Pristine
  <2> HIDE DEF m
  <2> QED
    BY <1>s, <2>1, <2>2, <2>3
<1>3. CASE CreateNote
  <2>1. att.pc = "note" /\ att'.pc = "commit" /\ att'.s = att.s /\ UNCHANGED <<claim, dirs, man>>
    BY <1>s, <1>3 DEF CreateNote, Goto, Attempts
  <2>2. note'[att.s].files = 1 /\ \A s \in Sids \ {att.s} : note'[s] = note[s]
    BY <1>s, <1>3 DEF CreateNote, OpeningNote
  <2>3. Whole(att.s)
    BY <2>1 DEF Shown
  <2> QED
    BY <1>s, <2>1, <2>2, <2>3
<1>4. CASE CleanBundle
  <2>1. att.pc = "clean" /\ att'.pc = "unclaim" /\ att'.s = att.s /\ UNCHANGED <<claim, note>>
    BY <1>s, <1>4 DEF CleanBundle, Goto, Attempts
  <2>2. /\ dirs' = [dirs EXCEPT ![att.s] = [r \in Revs |-> None]]
        /\ man' = [man EXCEPT ![att.s] = None]
    BY <1>4 DEF CleanBundle
  <2>3. /\ man'[att.s] = None /\ \A r \in Revs : dirs'[att.s][r] = None
        /\ \A s \in Sids \ {att.s} : man'[s] = man[s] /\ dirs'[s] = dirs[s]
    BY <1>s, <2>2
  <2> QED
    BY <1>s, <2>1, <2>3
<1>5. CASE RecordPage
  <2>1. att.pc = "record" /\ att'.pc = "commit" /\ att'.s = att.s /\ UNCHANGED <<claim, dirs, note>>
    BY <1>s, <1>5 DEF RecordPage, Goto, Attempts
  <2>2. man'[att.s] = [man[att.s] EXCEPT !.page = att.at] /\ \A s \in Sids \ {att.s} : man'[s] = man[s]
    BY <1>s, <1>5 DEF RecordPage
  <2>3. man[att.s] \in Manifests /\ att.at \in Paths
    BY <1>s, <1>w, <2>1 DEF Shown, Asked
  <2>4. man'[att.s] \in Manifests /\ man'[att.s].ids = man[att.s].ids
    BY <2>2, <2>3 DEF Manifests
  <2>5. man'[att.s] \notin {None, Torn}
    BY <2>4, ValuesAssumption
  <2>6. claim = att.s /\ Settled(att.s)
    BY <1>s, <2>1
  <2>7. \A r \in Revs : dirs'[att.s][r] = man'[att.s].ids[r]
    BY <2>1, <2>4, <2>6
  <2>8. note'[att.s].files = 1 /\ claim' = att.s
    BY <2>1, <2>6
  <2>9. \A s \in Sids \ {att.s} : man'[s] = man[s]
    BY <2>2
  <2> QED
    BY <1>s, <2>1, <2>5, <2>6, <2>7, <2>8, <2>9
<1>6. CASE MakeDirectory
  <2>1. att.pc = "mkdir" /\ UNCHANGED <<claim, man, note>> /\ Whole(att.s)
    BY <1>6 DEF MakeDirectory, Coming
  <2>2. \/ att' = NoAttempt /\ dirs' = dirs
        \/ att'.pc = "fill" /\ att'.s = att.s /\ att'.r = att.r
    BY <1>s, <1>6 DEF MakeDirectory, Goto, Refuse, Attempts
  <2>3. \A s \in Sids, r \in Revs : s # att.s \/ r # att.r => dirs'[s][r] = dirs[s][r]
    BY <1>s, <1>6 DEF MakeDirectory
  <2>4. CASE att' = NoAttempt /\ dirs' = dirs
    <3>1. att'.pc = Idle
      BY <2>4 DEF NoAttempt
    <3> QED
      BY <1>s, <2>1, <2>4, <3>1
  <2>5. CASE att'.pc = "fill" /\ att'.s = att.s /\ att'.r = att.r
    BY <1>s, <2>1, <2>3, <2>5
  <2> QED
    BY <2>2, <2>4, <2>5
<1>7. CASE FillDirectory
  <2>1. att.pc = "fill" /\ UNCHANGED <<claim, man, note>> /\ Whole(att.s)
    BY <1>7 DEF FillDirectory, Coming
  <2>2. att'.pc = "supersede" /\ att'.s = att.s /\ att'.r = att.r
    BY <1>s, <1>7 DEF FillDirectory, Attempts
  <2>3. \A s \in Sids, r \in Revs : s # att.s \/ r # att.r => dirs'[s][r] = dirs[s][r]
    BY <1>s, <1>7 DEF FillDirectory
  <2> QED
    BY <1>s, <2>1, <2>2, <2>3
<1>8. CASE Supersede
  <2> DEFINE m == [cur |-> att.r, ids |-> [man[att.s].ids EXCEPT ![att.r] = att.c], page |-> att.at]
  <2>1. att.pc = "supersede" /\ UNCHANGED <<claim, dirs, note>> /\ Whole(att.s) /\ dirs[att.s][att.r] = att.c
    BY <1>8 DEF Supersede, Coming
  <2>2. att'.pc = "place" /\ att'.s = att.s /\ att'.r = att.r
    BY <1>s, <1>8 DEF Supersede, Goto, Attempts
  <2>3. man[att.s] \in Manifests /\ att.at \in Paths /\ att.c \in Contents
    BY <1>s, <1>w, <2>1 DEF Asked
  <2>4. m \in Manifests /\ m.ids[att.r] = att.c /\ \A r \in Revs \ {att.r} : m.ids[r] = man[att.s].ids[r]
    BY <1>s, <2>3 DEF Manifests
  <2>5. man'[att.s] = m /\ \A s \in Sids \ {att.s} : man'[s] = man[s]
    BY <1>s, <1>8 DEF Supersede
  <2> HIDE DEF m
  <2>6. m \notin {None, Torn}
    BY <2>4, ValuesAssumption
  <2> QED
    BY <1>s, <2>1, <2>2, <2>4, <2>5, <2>6
<1>9. CASE FailRevision
  <2>1. att.pc \in {"fill", "supersede"} /\ UNCHANGED <<claim, man, note>> /\ Whole(att.s)
    BY <1>9 DEF FailRevision, Coming
  <2>2. att'.pc = Idle
    BY <1>9 DEF FailRevision, Refuse, NoAttempt
  <2>3. dirs' = [dirs EXCEPT ![att.s][att.r] = None]
    BY <1>9 DEF FailRevision
  <2>4. man[att.s].ids[att.r] = None
    BY <1>s, <1>w, <2>1 DEF Coming, Later
  <2>5. dirs'[att.s][att.r] = None /\ \A s \in Sids, r \in Revs : s # att.s \/ r # att.r => dirs'[s][r] = dirs[s][r]
    BY <1>s, <2>3
  <2> QED
    BY SMTT(60), <1>s, <2>1, <2>2, <2>4, <2>5
<1> QED
  BY <1>1, <1>2, <1>3, <1>4, <1>5, <1>6, <1>7, <1>8, <1>9

LEMMA AccountedKept ==
  ASSUME Inv, Later, Ours => Accounted, FNext PROVE Ours' => Accounted'
<1> USE DEF Inv, Hand
<1> SUFFICES ASSUME Ours' PROVE Accounted'
  OBVIOUS
<1>h. "stranded" \notin hurt' /\ "debris" \notin hurt' /\ "crash" \notin hurt' /\ "note" \notin hurt'
  BY DEF Ours
<1>o. Accounted
  BY HurtGrows DEF Ours
<1>1. CASE \/ Claim \/ FlushRows \/ PlaceFirstPage \/ CleanClaim \/ CleanPage \/ Resolve \/ Look
           \/ Place \/ Swap \/ FailNew \/ RecordFails \/ FailPage \/ Commit
           \/ \E c \in Contents : Request(c)
  <2>1. UNCHANGED <<dirs, man, note>>
    BY <1>1 DEF Request, Claim, FlushRows, PlaceFirstPage, CleanClaim, CleanPage, Resolve, Look, Place,
       Swap, FailNew, RecordFails, FailPage, Commit
  <2> QED
    BY <1>1, <1>h, <1>o, <2>1, AccountedSteps
<1>2. CASE \/ MakeFirstRevision \/ WriteFirstManifest \/ CreateNote \/ CleanBundle \/ RecordPage
           \/ MakeDirectory \/ FillDirectory \/ Supersede \/ FailRevision
  BY <1>2, <1>h, <1>o, AccountedWrites
<1>3. CASE RecoverRead \/ RecoverWrite
  <2>1. UNCHANGED <<claim, dirs, man, note, att>>
    BY <1>3 DEF RecoverRead, RecoverWrite
  <2> QED
    BY <1>o, <2>1, AccountedBeside DEF Whole
<1>4. CASE FilingSteps \/ FailFiling \/ EditNote \/ MarkReviewed \/ DevicePage \/ DeviceNote
  <2>1. Beside
    BY <1>4, FilingIsBeside DEF FilingSteps
  <2>2. ~DeviceNote
    BY <1>h DEF DeviceNote
  <2>3. \A s \in Sids : note'[s].files = note[s].files
    <3>1. note \in [Sids -> Notes]
      BY DEF TypeOK
    <3>2. CASE MarkReviewed
      BY <3>1, <3>2 DEF MarkReviewed, Notes
    <3>3. CASE note' = note
      BY <3>3
    <3>4. CASE Rewrite
      <4>1. CASE note' = note
        BY <4>1
      <4>2. CASE \E l : note' = [note EXCEPT ![fil.s].link = l]
        BY <3>1, <4>2 DEF Notes
      <4> QED
        BY <3>4, <4>1, <4>2 DEF Rewrite
    <3>5. CASE Move
      <4>1. CASE note' = note
        BY <4>1
      <4>2. CASE note' = [note EXCEPT ![fil.s].month = TRUE]
        BY <3>1, <4>2 DEF Notes
      <4> QED
        BY <3>5, <4>1, <4>2 DEF Move
    <3>6. note' = note \/ MarkReviewed \/ Rewrite \/ Move
      BY <1>4, <2>2 DEF FilingSteps, Begin, Open, Lock, Copy, Name, Drop, Refresh, Publish,
         FailFiling, EditNote, DevicePage
    <3> QED
      BY <3>2, <3>3, <3>4, <3>5, <3>6
  <2> QED
    BY <1>o, <2>1, <2>3, AccountedBeside DEF Beside
<1>5. CASE Crash
  <2>1. att'.pc = Idle /\ UNCHANGED note
    BY <1>5 DEF Crash, Dies, DiesCopying, NoAttempt
  <2>2. att.pc \in {Idle, "resolve", "look", "commit"}
    BY <1>5, <1>h DEF Crash, Dies, DiesCopying, At
  <2>3. UNCHANGED <<claim, dirs, man>>
    BY <1>5, <2>2, Steps DEF Crash, Dies, DiesCopying, At, NewSteps
  <2>4. att.s \in Sids
    BY DEF TypeOK, Attempts
  <2> QED
    BY <1>o, <2>1, <2>2, <2>3, <2>4, Steps DEF Accounted, First, Void, Settled, Whole, NewSteps, CleanSteps,
       OldSteps
<1> QED
  BY <1>1, <1>2, <1>3, <1>4, <1>5 DEF FNext, Ingesting, Working, Recovering

\* Between attempts a claim leads to intact revisions, their manifest and one
\* note, and an identity without a claim has left nothing (_ingest_new's cleanup).
THEOREM ClaimsResolve == Spec => []ClaimResolves
<1> DEFINE J == Later /\ (Ours => Accounted)
<1>1. FInit => J
  <2>1. FInit => Later
    BY DEF FInit, Init, Later, Whole
  <2>2. FInit => Accounted
    BY Ranges, Steps DEF FInit, Init, Accounted, First, Void, Settled, NoAttempt, NewSteps, CleanSteps,
       OldSteps
  <2> QED
    BY <2>1, <2>2
<1>2. ASSUME Inv, J, [FNext]_vars PROVE J'
  <2>1. CASE UNCHANGED vars
    BY <1>2, <2>1 DEF Later, Ours, Accounted, First, Void, Settled, Whole, vars, ivars
  <2>2. CASE FNext
    BY <1>2, <2>2, LaterKept, AccountedKept
  <2> QED
    BY <1>2, <2>1, <2>2
<1>3. Inv /\ J => ClaimResolves
  <2> SUFFICES ASSUME Inv, Accounted, att.pc = Idle
               PROVE  /\ claim # Torn
                      /\ \A s \in Sids :
                           IF claim = s
                           THEN Whole(s) /\ note[s].files = 1 /\ \A r \in Revs : dirs[s][r] = man[s].ids[r]
                           ELSE man[s] = None /\ row[s] = None /\ \A r \in Revs : dirs[s][r] = None
    BY DEF ClaimResolves, Ours, At
  <2>1. ~First /\ att.pc \notin {"fill", "supersede"}
    BY Steps DEF First, OldSteps
  <2>2. \A s \in Sids : man[s] = None => row[s] = None
    BY DEF Inv, Hand, Known, Whole
  <2> QED
    BY <2>1, <2>2 DEF Accounted, Void, Settled
<1> QED
  BY <1>1, <1>2, <1>3, InvHolds, PTL DEF Spec
-----------------------------------------------------------------------------
(* Links and manifests lead to pages *)

Mine(p, s) == p \in Paths /\ page[p] \notin {None, Foreign} /\ page[p].s = s
IsFiled(s) == row[s] # None /\ row[s].filed

\* A note, once opened, links to some page, and whoever works for a source that
\* is linked, filed or claimed already works for one with a note.
Noted ==
  /\ \A s \in Sids : note[s] # NoNote => note[s].link \in Paths
  /\ \A s \in Sids : Linked(s) \/ IsFiled(s) \/ journal[s].complete => note[s] # NoNote
  /\ \A s \in Sids : rec # Idle /\ rec[s] # None /\ rec[s].linked => note[s] # NoNote
  /\ att.pc \in OldSteps \ {"resolve"} => note[att.s] # NoNote
  /\ ~Filed(Idle) => note[fil.s] # NoNote
  /\ HoldsSource => At(Idle)
  /\ att.made => att.pc \in {"manifest", "note", "commit", "record"} \cup {"clean", "unclaim", "unpage"}

LEMMA MineIsHeld ==
  ASSUME TypeOK, NEW p, NEW s PROVE Mine(p, s) <=> Held(p, s) # None
BY Ranges DEF Mine, Held, TypeOK, Pages

\* What the steps of an attempt set.
LEMMA AttemptFields ==
  ASSUME Inv
  PROVE  /\ \A q : Goto(q) => att'.pc = q /\ att'.s = att.s /\ att'.at = att.at /\ att'.made = att.made
         /\ Refuse => att'.pc = Idle /\ att'.made = FALSE
         /\ \A c : Request(c) => att.pc = Idle /\ att'.pc \in {"claim", "resolve"} /\ att'.made = FALSE
         /\ Resolve => \/ Refuse
                       \/ /\ Resolves(claim, att.c) /\ att'.pc \in {"look", "mkdir"}
                          /\ att'.s = claim /\ att'.made = att.made
         /\ FlushRows => att'.s = att.s /\ att'.made = att.made /\ att'.pc \in {"clean", "dir"}
         /\ Look => /\ att'.s = att.s /\ att'.made = att.made /\ att'.at = PagePath
                    /\ att'.pc \in {"record", "place"}
                    /\ att'.pc = "record" => Held(PagePath, att.s) = att.r
         /\ FillDirectory => /\ att'.s = att.s /\ att'.made = att.made /\ att'.at = PagePath
                             /\ att'.pc = "supersede"
         /\ PlaceFirstPage =>
              \/ Goto("clean") /\ UNCHANGED page
              \/ /\ page[att.at] = None /\ page' = [page EXCEPT ![att.at] = Page(att.s, 1)]
                 /\ att'.pc = "manifest" /\ att'.s = att.s /\ att'.at = att.at /\ att'.made
         /\ Place => \/ Refuse /\ UNCHANGED page
                     \/ Goto("swap") /\ UNCHANGED page /\ Held(att.at, att.s) # None
                     \/ /\ page[att.at] = None /\ page' = [page EXCEPT ![att.at] = Page(att.s, att.r)]
                        /\ att'.pc = "record" /\ att'.s = att.s /\ att'.at = att.at /\ att'.made
<1>s. att \in Attempts
  BY DEF Inv, TypeOK
<1>1. \A q : Goto(q) => att'.pc = q /\ att'.s = att.s /\ att'.at = att.at /\ att'.made = att.made
  BY <1>s DEF Goto, Attempts
<1>2. Refuse => att'.pc = Idle /\ att'.made = FALSE
  BY DEF Refuse, NoAttempt
<1>3. ASSUME NEW c, Request(c) PROVE att.pc = Idle /\ att'.pc \in {"claim", "resolve"} /\ att'.made = FALSE
  <2>1. att.pc = Idle
    BY <1>3 DEF Request, At
  <2>2. CASE claim = None
    <3>1. PICK s : att' = [NoAttempt EXCEPT !.pc = "claim", !.c = c, !.s = s]
      BY <1>3, <2>2 DEF Request
    <3> QED
      BY <2>1, <3>1 DEF NoAttempt
  <2>3. CASE claim # None
    BY <1>3, <2>1, <2>3 DEF Request, NoAttempt
  <2> QED
    BY <2>2, <2>3
<1>4. ASSUME Resolve, ~Refuse
      PROVE  /\ Resolves(claim, att.c) /\ att'.pc \in {"look", "mkdir"}
             /\ att'.s = claim /\ att'.made = att.made
  <2> DEFINE same == man[claim].ids[man[claim].cur] = att.c
             r == IF same THEN man[claim].cur ELSE man[claim].cur + 1
             q == IF same THEN "look" ELSE "mkdir"
  <2>1. Resolves(claim, att.c) /\ att' = [att EXCEPT !.s = claim, !.flushed = TRUE, !.pc = q, !.r = r]
    BY <1>4 DEF Resolve
  <2>2. q \in {"look", "mkdir"}
    OBVIOUS
  <2> HIDE DEF q, r
  <2> QED
    BY <1>s, <2>1, <2>2 DEF Attempts
<1>5. ASSUME FlushRows PROVE att'.s = att.s /\ att'.made = att.made /\ att'.pc \in {"clean", "dir"}
  <2>1. Goto("clean") \/ att' = [att EXCEPT !.pc = "dir", !.at = FirstFree, !.flushed = TRUE]
    BY <1>5 DEF FlushRows
  <2> QED
    BY <1>1, <1>s, <2>1 DEF Attempts
<1>6. ASSUME Look
      PROVE  /\ att'.s = att.s /\ att'.made = att.made /\ att'.at = PagePath
             /\ att'.pc \in {"record", "place"}
             /\ att'.pc = "record" => Held(PagePath, att.s) = att.r
  <2> DEFINE q == IF Held(PagePath, att.s) = att.r THEN "record" ELSE "place"
  <2>1. att' = [att EXCEPT !.at = PagePath, !.pc = q]
    BY <1>6 DEF Look
  <2>2. q \in {"record", "place"} /\ (q = "record" => Held(PagePath, att.s) = att.r)
    OBVIOUS
  <2> HIDE DEF q
  <2> QED
    BY <1>s, <2>1, <2>2 DEF Attempts
<1>7. ASSUME FillDirectory
      PROVE  /\ att'.s = att.s /\ att'.made = att.made /\ att'.at = PagePath
             /\ att'.pc = "supersede"
  BY <1>s, <1>7 DEF FillDirectory, Attempts
<1>8. ASSUME PlaceFirstPage, ~(Goto("clean") /\ UNCHANGED page)
      PROVE  /\ page[att.at] = None /\ page' = [page EXCEPT ![att.at] = Page(att.s, 1)]
             /\ att'.pc = "manifest" /\ att'.s = att.s /\ att'.at = att.at /\ att'.made
  <2>1. page[att.at] = None /\ page' = [page EXCEPT ![att.at] = Page(att.s, 1)]
        /\ att' = [att EXCEPT !.pc = "manifest", !.made = TRUE]
    BY <1>8 DEF PlaceFirstPage
  <2> QED
    BY <1>s, <2>1 DEF Attempts
<1>9. ASSUME Place
      PROVE  \/ Refuse /\ UNCHANGED page
             \/ Goto("swap") /\ UNCHANGED page /\ Held(att.at, att.s) # None
             \/ /\ page[att.at] = None /\ page' = [page EXCEPT ![att.at] = Page(att.s, att.r)]
                /\ att'.pc = "record" /\ att'.s = att.s /\ att'.at = att.at /\ att'.made
  <2>1. CASE page[att.at] = None
    <3>1. page' = [page EXCEPT ![att.at] = Page(att.s, att.r)] /\ att' = [att EXCEPT !.pc = "record", !.made = TRUE]
      BY <1>9, <2>1 DEF Place
    <3> QED
      BY <1>s, <2>1, <3>1 DEF Attempts
  <2>2. CASE page[att.at] # None
    BY <1>9, <2>2 DEF Place
  <2> QED
    BY <2>1, <2>2
<1> QED
  BY <1>1, <1>2, <1>3, <1>4, <1>5, <1>6, <1>7, <1>8, <1>9

\* What the steps of a filing set.
LEMMA FilingFields ==
  ASSUME Inv
  PROVE  /\ \A q : Next1(q) => fil'.pc = q /\ fil'.s = fil.s /\ fil'.text = fil.text
         /\ fil' = NoFiling => fil'.pc = Idle
         /\ \A s \in Sids : Begin(s) =>
              /\ fil.pc = Idle /\ fil'.s = s /\ note[s] # NoNote /\ Whole(s)
              /\ \/ fil'.pc = "publish" /\ journal[s].complete /\ UNCHANGED journal
                 \/ /\ fil'.pc = "open"
                    /\ journal' = [journal EXCEPT ![s] =
                         [from |-> man[s].page, froms |-> journal[s].froms \cup {man[s].page},
                          rev |-> man[s].cur, complete |-> FALSE]]
         /\ Lock => \/ Fails
                    \/ \E p : /\ fil'.pc = "copy" /\ fil'.s = fil.s /\ fil'.text = page[p]
                              /\ Held(p, fil.s) = man[fil.s].cur
         /\ Refresh => Fails \/ (fil'.pc = "rewrite" /\ fil'.s = fil.s)
         /\ EditNote \/ MarkReviewed => fil'.pc = fil.pc /\ fil'.s = fil.s /\ fil'.text = fil.text
<1>s. fil \in Filings
  BY DEF Inv, TypeOK
<1>1. \A q : Next1(q) => fil'.pc = q /\ fil'.s = fil.s /\ fil'.text = fil.text
  BY <1>s DEF Next1, Filings
<1>2. fil' = NoFiling => fil'.pc = Idle
  BY DEF NoFiling
<1>3. ASSUME NEW s \in Sids, Begin(s)
      PROVE  /\ fil.pc = Idle /\ fil'.s = s /\ note[s] # NoNote /\ Whole(s)
             /\ \/ fil'.pc = "publish" /\ journal[s].complete /\ UNCHANGED journal
                \/ /\ fil'.pc = "open"
                   /\ journal' = [journal EXCEPT ![s] =
                        [from |-> man[s].page, froms |-> journal[s].froms \cup {man[s].page},
                         rev |-> man[s].cur, complete |-> FALSE]]
  <2>1. fil.pc = Idle /\ note[s].files = 1 /\ Whole(s)
    BY <1>3 DEF Begin, Filed
  <2>2. note[s] # NoNote
    BY <2>1 DEF NoNote
  <2>3. CASE InPlace(s) /\ UNCHANGED journal /\ fil' = [NoFiling EXCEPT !.pc = "publish", !.s = s, !.fresh = TRUE]
    BY <2>1, <2>2, <2>3 DEF NoFiling, InPlace
  <2>4. CASE /\ fil' = [NoFiling EXCEPT !.pc = "open", !.s = s]
             /\ journal' = [journal EXCEPT ![s] =
                  [from |-> man[s].page, froms |-> journal[s].froms \cup {man[s].page},
                   rev |-> man[s].cur, complete |-> FALSE]]
    BY <2>1, <2>2, <2>4 DEF NoFiling
  <2> QED
    BY <1>3, <2>3, <2>4 DEF Begin
<1>4. ASSUME Lock, ~Fails
      PROVE  \E p : /\ fil'.pc = "copy" /\ fil'.s = fil.s /\ fil'.text = page[p]
                    /\ Held(p, fil.s) = man[fil.s].cur
  <2> DEFINE from == IF page[plan.from] # None THEN plan.from ELSE fil.s
  <2>1. fil' = [fil EXCEPT !.pc = "copy", !.text = page[from]] /\ Held(from, fil.s) = man[fil.s].cur
    BY <1>4 DEF Lock
  <2> HIDE DEF from
  <2>2. fil'.pc = "copy" /\ fil'.s = fil.s /\ fil'.text = page[from]
    BY <1>s, <2>1 DEF Filings
  <2> QED
    BY <2>1, <2>2
<1>5. Refresh => Fails \/ (fil'.pc = "rewrite" /\ fil'.s = fil.s)
  BY <1>s DEF Refresh, Filings
<1>6. EditNote \/ MarkReviewed => fil'.pc = fil.pc /\ fil'.s = fil.s /\ fil'.text = fil.text
  BY <1>s DEF EditNote, MarkReviewed, Filings
<1> QED
  BY <1>1, <1>2, <1>3, <1>4, <1>5, <1>6

\* Only the opening of a note makes one, and only a filing changes what it links to.
LEMMA NoteSteps ==
  ASSUME Inv, FNext
  PROVE  \/ CreateNote /\ ~FilingRuns /\ UNCHANGED fvars
         \/ Rewrite /\ \A s \in Sids : note'[s].link = note[s].link
                                       \/ (s = fil.s /\ note'[s].link = s /\ note[s].link \in journal[s].froms)
         \/ \A s \in Sids : /\ note'[s].link = note[s].link
                            /\ note'[s] # NoNote => note[s] # NoNote
<1>s. note \in [Sids -> Notes] /\ fil.s \in Sids
  BY DEF Inv, TypeOK, Filings
<1>1. CASE note' = note
  BY <1>1
<1>2. CASE Rewrite
  <2>1. ASSUME NEW s \in Sids
        PROVE  note'[s].link = note[s].link
               \/ (s = fil.s /\ note'[s].link = s /\ note[s].link \in journal[s].froms)
    <3>1. CASE note' = note
      BY <3>1
    <3>2. CASE note' = [note EXCEPT ![fil.s].link = IF note[fil.s].link \in plan.froms THEN fil.s ELSE note[fil.s].link]
      BY <1>s, <3>2 DEF plan, Notes
    <3> QED
      BY <1>2, <3>1, <3>2 DEF Rewrite
  <2> QED
    BY <1>2, <2>1
<1>3. CASE MarkReviewed \/ DeviceNote \/ Move
  <2>1. \A s \in Sids : note'[s] # NoNote => note[s] # NoNote
    BY <1>3, FilingIsBeside DEF Beside
  <2>2. ASSUME NEW s \in Sids, \/ \E n \in {0, 2} : note' = [note EXCEPT ![s].files = n]
                               \/ \E b \in BOOLEAN : note' = [note EXCEPT ![s].reviewed = b]
                               \/ note' = [note EXCEPT ![s].month = TRUE]
        PROVE  \A t \in Sids : note'[t].link = note[t].link
    BY <1>s, <2>2 DEF Notes
  <2>3. \A t \in Sids : note'[t].link = note[t].link
    <3>1. CASE MarkReviewed
      BY <2>2, <3>1 DEF MarkReviewed
    <3>2. CASE DeviceNote
      BY <2>2, <3>2 DEF DeviceNote
    <3>3. CASE Move
      BY <1>s, <2>2, <3>3 DEF Move
    <3> QED
      BY <1>3, <3>1, <3>2, <3>3
  <2> QED
    BY <2>1, <2>3
<1>4. CASE CreateNote /\ ~FilingRuns /\ UNCHANGED fvars
  BY <1>4
<1>5. \/ note' = note \/ (CreateNote /\ ~FilingRuns /\ UNCHANGED fvars)
      \/ DeviceNote \/ Rewrite \/ Move \/ MarkReviewed
  BY DEF FNext, Ingesting, Working, Recovering, FilingSteps, Request, Claim, FlushRows,
     MakeFirstRevision, PlaceFirstPage, WriteFirstManifest, CleanBundle, CleanClaim,
     CleanPage, Resolve, Look, Place, Swap, RecordPage, MakeDirectory, FillDirectory, Supersede,
     Commit, FailNew, RecordFails, FailRevision, FailPage, RecoverRead, RecoverWrite, DevicePage,
     Begin, Open, Lock, Copy, Name, Drop, Refresh, Publish, FailFiling, EditNote, Crash, Dies, DiesCopying
<1> QED
  BY <1>1, <1>2, <1>3, <1>4, <1>5

\* A row is linked by a commit or a recovery that read a note, and filed by a publication.
LEMMA RowSteps ==
  ASSUME Inv, FNext, NEW s \in Sids
  PROVE  /\ Linked(s)' => \/ Linked(s) \/ (At("commit") /\ s = att.s)
                          \/ (rec # Idle /\ rec[s] # None /\ rec[s].linked)
         /\ IsFiled(s)' => IsFiled(s) \/ (Publish /\ s = fil.s)
<1> USE DEF Inv, Hand, Linked, IsFiled
<1>1. row \in [Sids -> {None} \cup Rows]
  BY DEF TypeOK
<1>2. CASE UNCHANGED row
  BY <1>2
<1>3. CASE row' = [row EXCEPT ![att.s] = Mirrored(att.s, att.r)] /\ Commit
  <2>1. att.s \in Sids /\ att.pc = "commit"
    BY <1>3 DEF TypeOK, Attempts, Commit, At
  <2>2. s # att.s => row'[s] = row[s]
    BY <1>1, <1>3
  <2>3. s = att.s => row'[s] = Mirrored(s, att.r)
    BY <1>1, <1>3
  <2>4. Mirrored(s, att.r).filed => row[s] # None /\ row[s].filed
    <3>1. row[s] # None => row[s] \in Rows
      BY <1>1
    <3> QED
      BY <3>1 DEF Mirrored, Rows
  <2> QED
    BY <2>1, <2>2, <2>3, <2>4 DEF At
<1>4. CASE RecoverWrite
  <2>1. rec # Idle /\ rec \in [Sids -> {None} \cup Readings]
    BY <1>4 DEF RecoverWrite, TypeOK
  <2>2. row'[s] = row[s] \/ row'[s] = Recovered(s)
    BY <1>4 DEF RecoverWrite
  <2>3. row[s] # None => row[s] \in Rows
    BY <1>1
  <2>4. Recovered(s) = row[s] \/ /\ rec[s] # None
                                 /\ Recovered(s).linked => Linked(s) \/ rec[s].linked
                                 /\ Recovered(s).filed => IsFiled(s)
    <3>1. CASE rec[s] = None
      BY <3>1 DEF Recovered
    <3>2. CASE rec[s] # None /\ row[s] = None
      BY <3>2 DEF Recovered
    <3>3. CASE rec[s] # None /\ row[s] # None
      BY <2>3, <3>3 DEF Recovered, Rows
    <3> QED
      BY <3>1, <3>2, <3>3
  <2> QED
    BY <2>1, <2>2, <2>4
<1>5. CASE Beside /\ row' = [row EXCEPT ![fil.s].filed = FALSE]
  <2>1. s # fil.s => row'[s] = row[s]
    BY <1>1, <1>5
  <2>2. s = fil.s => row'[s] = [row[s] EXCEPT !.filed = FALSE]
    BY <1>1, <1>5
  <2>3. row'[s] # None => row[s] \in Rows
    BY <1>1, <1>5 DEF Beside
  <2>4. row[s] \in Rows => row'[s].linked = row[s].linked /\ (row'[s].filed => row[s].filed)
    BY <2>1, <2>2 DEF Rows
  <2> QED
    BY <2>3, <2>4, ValuesAssumption
<1>6. CASE Publish /\ ~Fails
  <2>1. fil.pc = "publish" /\ fil.s \in Sids
    BY <1>6 DEF Publish, Filed, TypeOK, Filings
  <2>2. s # fil.s => row'[s] = row[s]
    BY <1>1, <1>6 DEF Publish
  <2>3. s = fil.s => row[s] # None
    BY <2>1, Steps DEF Carrying, Filed, FilingPhases
  <2>4. s = fil.s => row'[s] = [row[s] EXCEPT !.filed = TRUE, !.approved = review[s].rev]
    BY <1>1, <1>6 DEF Publish
  <2>5. s = fil.s => row'[s].linked = row[s].linked
    BY <1>1, <2>3, <2>4 DEF Rows
  <2> QED
    BY <1>6, <2>2, <2>3, <2>5
<1> QED
  <2>1. Fails => UNCHANGED row \/ row' = [row EXCEPT ![fil.s].filed = FALSE]
    BY DEF Fails
  <2>2. \/ UNCHANGED row \/ (Fails /\ (FilingSteps \/ FailFiling)) \/ (Open /\ FilingSteps)
        \/ (Publish /\ ~Fails) \/ RecoverWrite
        \/ (row' = [row EXCEPT ![att.s] = Mirrored(att.s, att.r)] /\ Commit)
    BY ZenonT(60) DEF FNext, Ingesting, Working, Recovering, FilingSteps, Request, Claim, FlushRows,
       MakeFirstRevision, PlaceFirstPage, WriteFirstManifest, CreateNote, CleanBundle, CleanClaim,
       CleanPage, Resolve, Look, Place, Swap, RecordPage, MakeDirectory, FillDirectory, Supersede,
       Commit, FailNew, RecordFails, FailRevision, FailPage, RecoverRead, DevicePage, DeviceNote,
       Begin, Lock, Copy, Name, Drop, Refresh, Rewrite, Move, FailFiling, EditNote, MarkReviewed,
       Crash, Dies, DiesCopying
  <2>3. Open => row' = [row EXCEPT ![fil.s].filed = FALSE]
    BY DEF Open
  <2>4. FilingSteps \/ FailFiling => Beside
    BY FilingIsBeside DEF FilingSteps, Inv, Hand
  <2> QED
    BY <1>2, <1>3, <1>4, <1>5, <1>6, <2>1, <2>2, <2>3, <2>4

LEMMA NotedKept ==
  ASSUME Inv, Noted, FNext PROVE Noted'
<1> USE DEF Noted
<1>s. /\ att.s \in Sids /\ fil.s \in Sids /\ journal \in [Sids -> Plans] /\ Sids \subseteq Paths
      /\ None \notin Paths
  BY Ranges DEF Inv, TypeOK, Attempts, Filings
<1>1. ASSUME NEW s \in Sids
      PROVE  /\ note[s] # NoNote => note'[s] # NoNote
             /\ note'[s] # NoNote => note'[s].link \in Paths
  <2>0. NoNote.link = None
    BY DEF NoNote
  <2>1. CASE CreateNote
    <3>1. att.at \in Paths /\ note' = [note EXCEPT ![att.s] = OpeningNote(att.at)]
      BY <2>1, Steps DEF CreateNote, At, Inv, Hand, Asked, NewSteps
    <3>2. s = att.s => note'[s] = OpeningNote(att.at)
      BY <1>s, <3>1 DEF Inv, TypeOK
    <3>3. s # att.s => note'[s] = note[s]
      BY <1>s, <3>1 DEF Inv, TypeOK
    <3>4. OpeningNote(att.at).link \in Paths
      BY <3>1 DEF OpeningNote
    <3> QED
      BY <1>s, <2>0, <3>2, <3>3, <3>4
  <2>2. CASE Rewrite
    <3>1. fil.pc = "rewrite" /\ note[fil.s] # NoNote
      BY <2>2, Steps DEF Rewrite, Filed, FilingPhases
    <3>2. note'[s].link = note[s].link \/ (s = fil.s /\ note'[s].link = s)
      <4>1. ~CreateNote
        BY <2>2, AttemptFields DEF CreateNote, Rewrite, At
      <4> QED
        BY <4>1, NoteSteps
    <3>3. note'[s] # NoNote => note[s] # NoNote
      BY <2>2, FilingIsBeside DEF Beside
    <3> QED
      BY <1>s, <2>0, <3>1, <3>2, <3>3
  <2>3. CASE note'[s].link = note[s].link /\ (note'[s] # NoNote => note[s] # NoNote)
    BY <1>s, <2>0, <2>3
  <2> QED
    BY <2>1, <2>2, <2>3, NoteSteps
<1>2. ASSUME NEW s \in Sids, Linked(s)' \/ IsFiled(s)' PROVE note[s] # NoNote
  <2>1. At("commit") => note[att.s] # NoNote
    BY DEF At, OldSteps
  <2>2. Publish => note[fil.s] # NoNote
    BY Steps DEF Publish, Filed, FilingPhases
  <2> QED
    BY <1>2, <2>1, <2>2, RowSteps
<1>3. ASSUME NEW s \in Sids, journal'[s].complete PROVE note[s] # NoNote
  <2>1. CASE journal'[s].complete = journal[s].complete
    BY <1>3, <2>1
  <2>2. CASE Move
    <3>1. note[fil.s] # NoNote
      BY <2>2, Steps DEF Move, Filed, FilingPhases
    <3>2. s # fil.s => journal'[s] = journal[s]
      BY <1>s, <2>2 DEF Move
    <3> QED
      BY <1>3, <3>1, <3>2
  <2>3. ASSUME NEW t \in Sids, Begin(t) PROVE note[s] # NoNote
    <3>1. note[t] # NoNote
      BY <2>3, FilingFields
    <3>2. s # t => journal'[s] = journal[s]
      BY <1>s, <2>3 DEF Begin
    <3> QED
      BY <1>3, <3>1, <3>2
  <2>4. journal' = journal \/ Move \/ \E t \in Sids : Begin(t)
    BY DEF FNext, Ingesting, Recovering, FilingSteps, fvars, Open, Lock, Copy, Name, Drop, Refresh,
       Rewrite, Publish, FailFiling, EditNote, MarkReviewed, Crash
  <2> QED
    BY <2>1, <2>2, <2>3, <2>4
<1>4. ASSUME NEW s \in Sids, rec' # Idle, rec'[s] # None, rec'[s].linked PROVE note[s] # NoNote
  <2>1. CASE rec' = rec
    BY <1>4, <2>1
  <2>2. CASE RecoverRead
    <3>1. rec'[s] = IF Whole(s) THEN [cur |-> man[s].cur, linked |-> note[s].files = 1] ELSE None
      BY <2>2 DEF RecoverRead
    <3>2. rec'[s] = [cur |-> man[s].cur, linked |-> note[s].files = 1]
      BY <1>4, <3>1
    <3>3. rec'[s].linked = (note[s].files = 1)
      BY <3>2
    <3>4. note[s].files = 1
      BY <1>4, <3>3, Zenon
    <3> QED
      BY <3>4 DEF NoNote
  <2>3. rec' = rec \/ rec' = Idle \/ RecoverRead
    BY DEF FNext, Ingesting, Working, Recovering, FilingSteps, Request, Claim, FlushRows,
       MakeFirstRevision, PlaceFirstPage, WriteFirstManifest, CreateNote, CleanBundle, CleanClaim,
       CleanPage, Resolve, Look, Place, Swap, RecordPage, MakeDirectory, FillDirectory, Supersede,
       Commit, FailNew, RecordFails, FailRevision, FailPage, RecoverWrite, DevicePage, DeviceNote,
       Begin, Open, Lock, Copy, Name, Drop, Refresh, Rewrite, Move, Publish, FailFiling, EditNote,
       MarkReviewed, Crash, Dies, DiesCopying
  <2> QED
    BY <1>4, <2>1, <2>2, <2>3
<1>5. /\ att'.pc \in OldSteps \ {"resolve"} => note'[att'.s] # NoNote
      /\ HoldsSource' => att'.pc = Idle
      /\ att'.made => att'.pc \in {"manifest", "note", "commit", "record"} \cup {"clean", "unclaim", "unpage"}
  <2> USE AttemptFields, Steps DEF At
  <2>1. CASE UNCHANGED <<att, fil>>
    BY <1>1, <1>s, <2>1 DEF HoldsSource
  <2>2. CASE Refuse /\ (UNCHANGED fil \/ Crash)
    BY <2>2, FilingFields
  <2>3. CASE (\E c \in Contents : Request(c)) /\ ~HoldsSource /\ UNCHANGED fil
    <3>1. att'.pc \in {"claim", "resolve"} /\ ~att'.made
      BY <2>3
    <3> QED
      BY <2>3, <3>1 DEF HoldsSource, OldSteps
  <2>4. CASE UNCHANGED fil /\ (Claim \/ MakeFirstRevision \/ WriteFirstManifest \/ CleanBundle \/ CleanClaim
                               \/ (FailNew /\ ~Refuse))
    <3>1. att.pc \in NewSteps \cup CleanSteps /\ ~HoldsSource
      BY <2>4, Steps DEF Claim, MakeFirstRevision, WriteFirstManifest, CleanBundle, CleanClaim, FailNew,
         NewSteps, CleanSteps
    <3>2. att'.pc \in {"rows", "page", "note", "clean", "unclaim", "unpage"}
      BY <2>4 DEF Claim, MakeFirstRevision, WriteFirstManifest, CleanBundle, CleanClaim, FailNew
    <3>3. att'.made = att.made
      BY <2>4 DEF Claim, MakeFirstRevision, WriteFirstManifest, CleanBundle, CleanClaim, FailNew
    <3>4. att'.pc \in {"rows", "page"} => att.pc \in {"claim", "dir"}
      BY <2>4 DEF Claim, MakeFirstRevision, WriteFirstManifest, CleanBundle, CleanClaim, FailNew
    <3> QED
      BY <2>4, <3>1, <3>2, <3>3, <3>4 DEF HoldsSource, OldSteps
  <2>5. CASE UNCHANGED fil /\ FlushRows
    <3>1. att.pc = "rows" /\ ~HoldsSource /\ ~att.made
      BY <2>5 DEF FlushRows, NewSteps
    <3>2. att'.pc \in {"clean", "dir"} /\ ~att'.made
      BY <2>5, <3>1
    <3> QED
      BY <2>5, <3>1, <3>2 DEF HoldsSource, OldSteps
  <2>6. CASE UNCHANGED fil /\ PlaceFirstPage
    <3>1. att.pc = "page" /\ ~HoldsSource
      BY <2>6 DEF PlaceFirstPage, NewSteps
    <3>2. att'.pc \in {"clean", "manifest"}
      BY <2>6
    <3> QED
      BY <2>6, <3>1, <3>2 DEF HoldsSource, OldSteps
  <2>7. CASE UNCHANGED fil /\ CreateNote
    <3>1. att.pc = "note" /\ ~HoldsSource
      BY <2>7 DEF CreateNote, NewSteps
    <3>2. att'.pc = "commit" /\ att'.s = att.s
      BY <2>7 DEF CreateNote
    <3>3. note'[att.s] = OpeningNote(att.at)
      BY <1>s, <2>7 DEF CreateNote, Inv, TypeOK
    <3>4. OpeningNote(att.at) # NoNote
      BY DEF OpeningNote, NoNote
    <3> QED
      BY <2>7, <3>1, <3>2, <3>3, <3>4 DEF HoldsSource, OldSteps
  <2>8. CASE UNCHANGED fil /\ Resolve /\ ~Refuse
    <3>1. att.pc = "resolve" /\ ~HoldsSource /\ ~att.made /\ Resolves(claim, att.c)
      BY <2>8 DEF Resolve, OldSteps
    <3>2. att'.pc \in {"look", "mkdir"} /\ att'.s = claim /\ ~att'.made
      BY <2>8, <3>1
    <3>3. claim \in Sids
      BY <3>1 DEF Inv, TypeOK, Hand, Asked, Resolves
    <3>4. note[claim] # NoNote
      <4>1. Linked(claim) \/ note[claim].files = 1
        BY <3>1 DEF Resolves
      <4>2. Linked(claim) => note[claim] # NoNote
        BY <3>3
      <4> QED
        BY <4>1, <4>2 DEF NoNote
    <3> QED
      BY <1>1, <2>8, <3>1, <3>2, <3>3, <3>4 DEF HoldsSource, OldSteps
  <2>9. CASE UNCHANGED fil /\ ~Refuse /\ (Look \/ Place \/ Swap \/ RecordPage \/ MakeDirectory \/ FillDirectory \/ Supersede)
    <3>1. att.pc \in OldSteps \ {"resolve"} /\ ~HoldsSource
      BY <2>9, Steps DEF Look, Place, Swap, RecordPage, MakeDirectory, FillDirectory, Supersede, OldSteps
    <3>2. att'.pc \in {"record", "place", "swap", "commit", "fill", "supersede"} /\ att'.s = att.s
      BY <2>9 DEF Swap, RecordPage, MakeDirectory, Supersede
    <3>3. att'.made => att'.pc \in {"record", "commit"}
      BY <2>9, <3>1 DEF Place, Look, FillDirectory, Swap, RecordPage, MakeDirectory, Supersede
    <3> QED
      BY <1>1, <1>s, <2>9, <3>1, <3>2, <3>3 DEF HoldsSource, OldSteps
  <2>10. CASE UNCHANGED att /\ FilingSteps
    <3>1. HoldsSource' => HoldsSource \/ att.pc = Idle
      <4>1. CASE \E s \in Sids : Begin(s)
        BY <4>1, FilingFields DEF HoldsSource
      <4>2. CASE Lock
        BY <4>2 DEF Lock
      <4>3. CASE Copy \/ Name \/ Drop
        BY <4>3 DEF HoldsSource, Copy, Name, Drop, Filed
      <4>4. CASE Open \/ Refresh \/ Rewrite \/ Move \/ Publish
        <5>1. Fails \/ (\E q \in {"lock", "move", "publish"} : Next1(q)) \/ fil'.pc \in {"rewrite", Idle}
          BY <4>4, FilingFields DEF Open, Refresh, Rewrite, Move, Publish
        <5>2. fil'.pc \in {"lock", "move", "publish", "rewrite", Idle}
          BY <5>1, FilingFields DEF Fails
        <5> QED
          BY <5>2 DEF HoldsSource, FilingPhases
      <4> QED
        BY <2>10, <4>1, <4>2, <4>3, <4>4 DEF FilingSteps
    <3> QED
      BY <1>1, <1>s, <2>10, <3>1
  <2>11. CASE UNCHANGED att /\ (FailFiling \/ EditNote \/ MarkReviewed)
    <3>1. fil'.pc = Idle \/ fil'.pc = fil.pc
      BY <2>11, FilingFields DEF FailFiling, Fails
    <3> QED
      BY <1>1, <1>s, <2>11, <3>1 DEF HoldsSource, FilingPhases
  <2> QED
    <3>1. FilingSteps \/ FailFiling \/ EditNote \/ MarkReviewed => UNCHANGED att
      BY FilingIsBeside DEF FilingSteps, Beside, Inv, Hand
    <3>2. \/ UNCHANGED <<att, fil>>
          \/ (Refuse /\ (UNCHANGED fil \/ Crash))
          \/ ((\E c \in Contents : Request(c)) /\ ~HoldsSource /\ UNCHANGED fil)
          \/ UNCHANGED fil /\ (Working \/ (FailNew /\ ~Refuse))
          \/ FilingSteps \/ FailFiling \/ EditNote \/ MarkReviewed
      BY DEF FNext, Ingesting, Recovering, FailNew, RecordFails, FailRevision, FailPage, RecoverRead,
         RecoverWrite, DevicePage, DeviceNote, Crash, Dies, DiesCopying, Refuse, fvars
    <3>3. Working => \/ Refuse \/ Claim \/ MakeFirstRevision \/ WriteFirstManifest \/ CleanBundle \/ CleanClaim
                     \/ FlushRows \/ PlaceFirstPage \/ CreateNote \/ (Resolve /\ ~Refuse)
                     \/ (~Refuse /\ (Look \/ Place \/ Swap \/ RecordPage \/ MakeDirectory \/ FillDirectory \/ Supersede))
      BY DEF Working, CleanPage, Commit
    <3> QED
      BY <2>1, <2>2, <2>3, <2>4, <2>5, <2>6, <2>7, <2>8, <2>9, <2>10, <2>11, <3>1, <3>2, <3>3
<1>6. fil'.pc # Idle => note'[fil'.s] # NoNote
  <2>1. CASE UNCHANGED fil
    BY <1>1, <1>s, <2>1 DEF Filed
  <2>2. ASSUME NEW s \in Sids, Begin(s) PROVE note'[fil'.s] # NoNote
    BY <1>1, <2>2, FilingFields
  <2>3. CASE fil'.pc = Idle
    BY <2>3
  <2>4. CASE fil.pc # Idle /\ fil'.s = fil.s
    BY <1>1, <1>s, <2>4 DEF Filed
  <2>5. \/ UNCHANGED fil \/ fil'.pc = Idle \/ (\E s \in Sids : Begin(s)) \/ (fil.pc # Idle /\ fil'.s = fil.s)
    BY FilingFields, Steps DEF FNext, Ingesting, Recovering, FilingSteps, fvars, Open, Lock, Copy, Name, Drop,
       Refresh, Rewrite, Move, Publish, FailFiling, EditNote, MarkReviewed, Crash, Fails, Filed, FilingPhases
  <2> QED
    BY <2>1, <2>2, <2>3, <2>4, <2>5
<1> QED
  <2>1. \A s \in Sids : Linked(s)' \/ IsFiled(s)' \/ journal'[s].complete => note'[s] # NoNote
    BY <1>1, <1>2, <1>3
  <2>2. \A s \in Sids : rec' # Idle /\ rec'[s] # None /\ rec'[s].linked => note'[s] # NoNote
    BY <1>1, <1>4
  <2> QED
    BY <1>1, <1>5, <1>6, <2>1, <2>2 DEF At, Filed

\* As long as no device was at the pages, a manifest that is not debris names a page
\* of its source ...
PagesLead ==
  \A s \in Sids : Whole(s) /\ (note[s] # NoNote \/ "debris" \notin hurt) => Mine(man[s].page, s)

\* ... an attempt has such a page in hand, the one the manifest names from then on,
\* and takes it back only once the manifest is gone ...
AttemptLeads ==
  /\ att.made \/ att.pc \in {"swap", "record", "manifest", "note"} => Mine(att.at, att.s)
  /\ att.pc \in {"place", "swap", "record", "supersede", "note", "commit"} => att.at = man[att.s].page
  /\ att.pc \in {"unclaim", "unpage"} /\ "debris" \notin hurt => man[att.s] = None

\* ... and so has a filing; what links elsewhere links to where the page came from.
Home(s) == man[s].page = s /\ note[s].link = s
FilingLeads ==
  /\ HoldsSource => fil.text.s = fil.s
  /\ fil.pc \in {"name", "drop"} => Mine(fil.s, fil.s)
  /\ fil.pc \in {"drop", "note", "rewrite", "move", "publish"} => man[fil.s].page = fil.s
  /\ \A s \in Sids : note[s] # NoNote => note[s].link \in journal[s].froms \cup {s, man[s].page}
  /\ fil.pc \in {"open", "lock", "copy", "name", "drop", "note", "rewrite"} =>
       note[fil.s].link \in journal[fil.s].froms \cup {fil.s}
  /\ fil.pc \in {"move", "publish"} => note[fil.s].link = fil.s
  /\ \A s \in Sids : journal[s].complete \/ IsFiled(s) => Home(s)
Leads == PagesLead /\ AttemptLeads /\ FilingLeads

LEMMA PageIs ==
  ASSUME NEW s \in Sids, NEW r \in Revs PROVE Page(s, r) \notin {None, Foreign} /\ Page(s, r).s = s
<1>1. Page(s, r) \in Pages
  BY DEF Page, Pages
<1> QED
  BY <1>1, ValuesAssumption DEF Page

\* The steps of an ingest that write neither a page nor a manifest.
LEMMA PagelessSteps ==
  ASSUME Inv, Noted, PagesLead, AttemptLeads, FNext,
         \/ \E c \in Contents : Request(c)
         \/ Claim \/ FlushRows \/ MakeFirstRevision \/ CreateNote \/ CleanClaim \/ Resolve \/ Look
         \/ MakeDirectory \/ FillDirectory \/ Commit \/ FailNew \/ FailRevision \/ FailPage
  PROVE  UNCHANGED <<page, man>> /\ PagesLead' /\ AttemptLeads'
<1> USE AttemptFields, Steps
<1>s. att.s \in Sids /\ hurt \subseteq hurt'
  BY HurtGrows DEF Inv, TypeOK, Attempts
<1>1. UNCHANGED <<page, man>>
  BY DEF Request, Claim, FlushRows, MakeFirstRevision, CreateNote, CleanClaim, Resolve, Look,
     MakeDirectory, FillDirectory, Commit, FailNew, FailRevision, FailPage
<1>2. CreateNote => att.pc = "note" /\ Mine(man[att.s].page, att.s)
  BY DEF CreateNote, At, AttemptLeads
<1>3. \A s \in Sids : note'[s] # NoNote => note[s] # NoNote \/ (CreateNote /\ s = att.s)
  <2>1. note' = note \/ CreateNote
    BY DEF Request, Claim, FlushRows, MakeFirstRevision, CleanClaim, Resolve, Look,
       MakeDirectory, FillDirectory, Commit, FailNew, FailRevision, FailPage
  <2>2. CreateNote => \A s \in Sids \ {att.s} : note'[s] = note[s]
    BY DEF CreateNote, Inv, TypeOK
  <2> QED
    BY <2>1, <2>2
<1>4. PagesLead'
  BY <1>s, <1>1, <1>2, <1>3 DEF PagesLead, Mine, Whole
<1>5. ASSUME att.pc \in {"look", "fill"}, PagePath = att'.at, att'.s = att.s
      PROVE  Mine(att'.at, att.s) /\ att'.at = man[att.s].page
  <2>1. Whole(att.s) /\ note[att.s] # NoNote
    BY <1>5 DEF Inv, Hand, Shown, Coming, Noted, OldSteps
  <2>2. Mine(man[att.s].page, att.s)
    BY <1>s, <2>1 DEF PagesLead
  <2>3. Held(man[att.s].page, att.s) # None
    BY <2>2, MineIsHeld DEF Inv
  <2> QED
    BY <1>5, <2>2, <2>3 DEF PagePath
<1>6. AttemptLeads'
  <2>1. CASE Refuse
    BY <2>1 DEF AttemptLeads, NewSteps, CleanSteps, OldSteps
  <2>2. CASE att'.pc \in {"claim", "resolve", "rows", "dir", "page", "mkdir", "look", "fill"} /\ ~att'.made
    BY <2>2 DEF AttemptLeads
  <2>3. CASE FlushRows \/ FailNew
    <3>1. att.pc = "rows" => ~att.made
      BY DEF Noted
    <3>2. \/ Refuse
          \/ att'.pc = "dir" /\ ~att'.made
          \/ att'.pc = "clean" /\ att'.s = att.s /\ (att'.made => att.made /\ att'.at = att.at)
      BY <2>3, <3>1 DEF FlushRows, FailNew, At
    <3>3. CASE att'.pc = "clean" /\ att'.s = att.s /\ (att'.made => att.made /\ att'.at = att.at)
      BY <1>1, <3>3 DEF AttemptLeads, Mine
    <3> QED
      BY <2>1, <2>2, <3>2, <3>3
  <2>4. CASE CleanClaim
    <3>1. att.pc = "unclaim" /\ att'.pc = "unpage" /\ att'.s = att.s /\ att'.at = att.at /\ att'.made = att.made
      BY <2>4 DEF CleanClaim, At
    <3> QED
      BY <1>1, <1>s, <3>1 DEF AttemptLeads, Mine
  <2>5. CASE Look \/ FillDirectory
    <3>1. att.pc \in {"look", "fill"} /\ att'.at = PagePath /\ att'.s = att.s /\ ~att'.made
          /\ att'.pc \in {"record", "place", "supersede"}
      BY <2>5 DEF Look, FillDirectory, At, Noted
    <3> QED
      BY <1>1, <1>5, <3>1 DEF AttemptLeads, Mine
  <2>6. CASE CreateNote
    <3>1. att.pc = "note" /\ att'.pc = "commit" /\ att'.s = att.s /\ att'.at = att.at
      BY <2>6 DEF CreateNote, At
    <3> QED
      BY <1>1, <3>1 DEF AttemptLeads, Mine
  <2>7. CASE (\E c \in Contents : Request(c)) \/ (Resolve /\ ~Refuse) \/ Claim \/ MakeFirstRevision
             \/ (MakeDirectory /\ ~Refuse)
    <3>1. att'.pc \in {"claim", "resolve", "rows", "page", "mkdir", "look", "fill"} /\ ~att'.made
      BY <2>7 DEF Resolve, Claim, MakeFirstRevision, MakeDirectory, At, Noted
    <3> QED
      BY <2>2, <3>1
  <2> QED
    <3>1. Commit \/ FailRevision \/ FailPage => Refuse
      BY DEF Commit, FailRevision, FailPage
    <3> QED
      BY <2>1, <2>3, <2>4, <2>5, <2>6, <2>7, <3>1
<1> QED
  BY <1>1, <1>4, <1>6

\* A page is written over, or taken away, only for the source it is of.
LEMMA PageWritten ==
  ASSUME TypeOK, PagesLead, NEW p \in Paths, NEW s \in Sids, NEW v,
         page' = [page EXCEPT ![p] = v], v # Foreign, UNCHANGED <<man, note>>, hurt \subseteq hurt',
         page[p] = None \/ Mine(p, s),
         \/ v # None /\ v.s = s
         \/ Whole(s) /\ (note[s] # NoNote \/ "debris" \notin hurt') => man[s].page # p
  PROVE  PagesLead'
<1>1. page \in [Paths -> {None, Foreign} \cup Pages]
  BY DEF TypeOK
<1>2. \A q \in Paths : page'[q] = IF q = p THEN v ELSE page[q]
  BY <1>1
<1>4. ASSUME NEW t \in Sids, Whole(t), note[t] # NoNote \/ "debris" \notin hurt'
      PROVE  Mine(man[t].page, t)'
  <2>1. Mine(man[t].page, t)
    BY <1>4 DEF PagesLead
  <2>2. CASE man[t].page # p
    BY <1>2, <2>1, <2>2 DEF Mine
  <2>3. CASE man[t].page = p
    <3>1. t = s
      BY <2>1, <2>3 DEF Mine
    <3> QED
      BY <1>2, <1>4, <2>1, <2>3, <3>1 DEF Mine
  <2> QED
    BY <2>2, <2>3
<1> QED
  BY <1>4 DEF PagesLead, Whole

\* The steps of an ingest that write a page.
LEMMA PageSteps ==
  ASSUME Inv, Noted, PagesLead, AttemptLeads, FNext,
         PlaceFirstPage \/ Place \/ Swap \/ CleanPage \/ RecordFails
  PROVE  UNCHANGED man /\ PagesLead' /\ AttemptLeads'
<1> USE AttemptFields, Steps
<1>s. /\ att.s \in Sids /\ att.r \in Revs /\ hurt \subseteq hurt' /\ TypeOK /\ 1 \in Revs
      /\ page \in [Paths -> {None, Foreign} \cup Pages]
  BY Ranges, HurtGrows DEF Inv, TypeOK, Attempts
<1>1. UNCHANGED <<man, note>>
  BY DEF PlaceFirstPage, Place, Swap, CleanPage, RecordFails
<1>2. ASSUME NEW p \in Paths, NEW r \in Revs, page' = [page EXCEPT ![p] = Page(att.s, r)],
             page[p] = None \/ Mine(p, att.s)
      PROVE  PagesLead' /\ page'[p] \notin {None, Foreign} /\ page'[p].s = att.s
  <2> DEFINE v == Page(att.s, r)
  <2>1. v \notin {None, Foreign} /\ v.s = att.s /\ page' = [page EXCEPT ![p] = v]
    BY <1>2, <1>s, PageIs
  <2> HIDE DEF v
  <2>2. PagesLead'
    BY <1>1, <1>2, <1>s, <2>1, PageWritten
  <2> QED
    BY <1>s, <2>1, <2>2
<1>3. CASE PlaceFirstPage
  <2>1. att.pc = "page" /\ att.at \in Paths /\ ~att.made
    BY <1>3 DEF PlaceFirstPage, At, Inv, Hand, Asked, Noted
  <2>2. CASE Goto("clean") /\ UNCHANGED page
    BY <1>1, <1>s, <2>1, <2>2 DEF PagesLead, AttemptLeads, Whole, Mine
  <2>3. CASE /\ page[att.at] = None /\ page' = [page EXCEPT ![att.at] = Page(att.s, 1)]
             /\ att'.pc = "manifest" /\ att'.s = att.s /\ att'.at = att.at /\ att'.made
    <3>1. PagesLead' /\ page'[att.at] \notin {None, Foreign} /\ page'[att.at].s = att.s
      BY <1>2, <1>s, <2>1, <2>3
    <3> QED
      BY <1>1, <2>1, <2>3, <3>1 DEF AttemptLeads, Mine
  <2> QED
    BY <1>3, <2>2, <2>3
<1>4. ASSUME att.pc \in {"place", "swap"}
      PROVE  att.at \in Paths /\ Mine(att.at, att.s) /\ att.at = man[att.s].page
  <2>1. Whole(att.s) /\ note[att.s] # NoNote /\ att.at = man[att.s].page
    BY <1>4 DEF Inv, Hand, Shown, Noted, OldSteps, AttemptLeads
  <2> QED
    BY <1>s, <2>1 DEF PagesLead, Mine
<1>5. CASE Place
  <2>1. att.pc = "place" /\ Mine(att.at, att.s) /\ page[att.at] # None /\ att.at = man[att.s].page
    BY <1>4, <1>5 DEF Place, At, Mine
  <2>2. Held(att.at, att.s) # None
    BY <1>s, <2>1, MineIsHeld
  <2>3. Goto("swap") /\ UNCHANGED page
    BY <1>5, <2>1, <2>2 DEF Place
  <2> QED
    BY <1>1, <1>s, <2>1, <2>3 DEF PagesLead, AttemptLeads, Whole, Mine
<1>6. CASE Swap
  <2>1. /\ att.pc = "swap" /\ page' = [page EXCEPT ![att.at] = Page(att.s, att.r)]
        /\ att'.pc = "record" /\ att'.s = att.s /\ att'.at = att.at
    BY <1>6 DEF Swap, At
  <2>2. PagesLead' /\ page'[att.at] \notin {None, Foreign} /\ page'[att.at].s = att.s
    BY <1>2, <1>4, <1>s, <2>1
  <2> QED
    BY <1>1, <1>4, <2>1, <2>2 DEF AttemptLeads, Mine
<1>7. CASE CleanPage
  <2>1. att.pc = "unpage" /\ Refuse /\ TakeBack
    BY <1>7 DEF CleanPage, At
  <2>2. AttemptLeads'
    BY <2>1 DEF AttemptLeads, NewSteps, CleanSteps, OldSteps
  <2>3. CASE ~att.made
    BY <1>1, <1>s, <2>1, <2>2, <2>3 DEF TakeBack, PagesLead, Mine, Whole
  <2>4. CASE att.made
    <3>1. Mine(att.at, att.s) /\ att.at \in Paths /\ page' = [page EXCEPT ![att.at] = None]
      BY <2>1, <2>4 DEF AttemptLeads, Mine, TakeBack
    <3>2. note[att.s] = NoNote /\ ("debris" \notin hurt' => man[att.s] = None)
      BY <1>s, <2>1 DEF AttemptLeads, Inv, Hand, Pristine, First, CleanSteps
    <3>3. Whole(att.s) /\ (note[att.s] # NoNote \/ "debris" \notin hurt') => man[att.s].page # att.at
      BY <3>2 DEF Whole
    <3>4. PagesLead'
      BY <1>1, <1>s, <3>1, <3>3, PageWritten, ValuesAssumption
    <3> QED
      BY <1>1, <2>2, <3>4
  <2> QED
    BY <2>3, <2>4
<1>8. ~RecordFails
  BY DEF RecordFails, At, AttemptLeads
<1> QED
  BY <1>1, <1>3, <1>5, <1>6, <1>7, <1>8

\* The steps of an ingest that write a manifest.
LEMMA ManifestSteps ==
  ASSUME Inv, Noted, PagesLead, AttemptLeads, FNext,
         WriteFirstManifest \/ CleanBundle \/ RecordPage \/ Supersede
  PROVE  /\ PagesLead' /\ AttemptLeads' /\ UNCHANGED <<page, note>>
         /\ \A s \in Sids : note[s] # NoNote => man'[s].page = man[s].page
<1> USE AttemptFields, Steps
<1>s. /\ att.s \in Sids /\ att.r \in Revs /\ hurt \subseteq hurt' /\ TypeOK
      /\ man \in [Sids -> {None, Torn} \cup Manifests]
  BY Ranges, HurtGrows DEF Inv, TypeOK, Attempts
<1>1. UNCHANGED <<page, note>>
  BY DEF WriteFirstManifest, CleanBundle, RecordPage, Supersede
<1>2. ASSUME \A s \in Sids \ {att.s} : man'[s] = man[s],
             man'[att.s].page = att.at, Mine(att.at, att.s)
      PROVE  PagesLead'
  BY <1>1, <1>2, <1>s DEF PagesLead, Mine, Whole
<1>3. CASE WriteFirstManifest
  <2>1. /\ att.pc = "manifest" /\ att'.pc = "note" /\ att'.s = att.s /\ att'.at = att.at /\ att'.made = att.made
        /\ note[att.s] = NoNote /\ Mine(att.at, att.s)
    BY <1>3 DEF WriteFirstManifest, At, Inv, Hand, Pristine, First, NewSteps, AttemptLeads
  <2>2. man'[att.s].page = att.at /\ \A s \in Sids \ {att.s} : man'[s] = man[s]
    BY <1>3, <1>s DEF WriteFirstManifest
  <2>3. AttemptLeads'
    BY <1>1, <2>1, <2>2 DEF AttemptLeads, Mine
  <2> QED
    BY <1>1, <1>2, <2>1, <2>2, <2>3
<1>4. CASE CleanBundle
  <2>1. /\ att.pc = "clean" /\ att'.pc = "unclaim" /\ att'.s = att.s /\ att'.at = att.at /\ att'.made = att.made
        /\ note[att.s] = NoNote
    BY <1>4 DEF CleanBundle, At, Inv, Hand, Pristine, First, CleanSteps
  <2>2. \A s \in Sids \ {att.s} : man'[s] = man[s]
    BY <1>4, <1>s DEF CleanBundle
  <2>3. man'[att.s] = None \/ ("debris" \in hurt' /\ man' = man)
    BY <1>4, <1>s DEF CleanBundle
  <2>4. PagesLead'
    BY <1>1, <1>s, <2>1, <2>2, <2>3 DEF PagesLead, Mine, Whole
  <2>5. AttemptLeads'
    BY <1>1, <2>1, <2>3 DEF AttemptLeads, Mine
  <2> QED
    BY <1>1, <2>1, <2>2, <2>4, <2>5
<1>5. CASE RecordPage \/ Supersede
  <2>1. /\ att.pc \in {"record", "supersede"} /\ att'.pc \in {"commit", "place"} /\ att'.s = att.s
        /\ att'.at = att.at /\ att'.made = att.made
    BY <1>5 DEF RecordPage, Supersede, At
  <2>2. Whole(att.s) /\ note[att.s] # NoNote /\ att.at = man[att.s].page
    BY <2>1 DEF Inv, Hand, Shown, Coming, Noted, OldSteps, AttemptLeads
  <2>3. Mine(att.at, att.s) /\ man[att.s] \in Manifests
    BY <1>s, <2>2 DEF PagesLead, Whole
  <2>4. /\ \A s \in Sids \ {att.s} : man'[s] = man[s]
        /\ man'[att.s].page = att.at
    <3>1. CASE RecordPage
      <4>1. man'[att.s] = [man[att.s] EXCEPT !.page = att.at]
        BY <1>s, <3>1 DEF RecordPage
      <4> QED
        BY <1>s, <2>3, <3>1, <4>1 DEF RecordPage, Manifests
    <3>2. CASE Supersede
      BY <1>s, <3>2 DEF Supersede
    <3> QED
      BY <1>5, <3>1, <3>2
  <2>5. AttemptLeads'
    BY <1>1, <2>1, <2>3, <2>4 DEF AttemptLeads, Mine
  <2> QED
    BY <1>1, <1>2, <2>2, <2>3, <2>4, <2>5
<1> QED
  BY <1>3, <1>4, <1>5

\* The steps that write neither, beside those of an ingest, and the end of the process.
LEMMA QuietSteps ==
  ASSUME Inv, PagesLead, AttemptLeads, FNext,
         \/ \E s \in Sids : Begin(s)
         \/ Open \/ Lock \/ Refresh \/ Rewrite \/ Move \/ Publish \/ FailFiling \/ EditNote
         \/ MarkReviewed \/ DeviceNote \/ RecoverRead \/ RecoverWrite \/ Crash
  PROVE  PagesLead' /\ AttemptLeads' /\ (UNCHANGED page \/ Crash)
<1>s. /\ att.s \in Sids /\ hurt \subseteq hurt' /\ man \in [Sids -> {None, Torn} \cup Manifests]
  BY HurtGrows DEF Inv, TypeOK, Attempts
<1>1. UNCHANGED page \/ Crash
  BY DEF Begin, Open, Lock, Refresh, Rewrite, Move, Publish, FailFiling, EditNote,
     MarkReviewed, DeviceNote, RecoverRead, RecoverWrite
<1>2. ASSUME UNCHANGED <<man, page, att>>, \A s \in Sids : note'[s] # NoNote => note[s] # NoNote
      PROVE  PagesLead' /\ AttemptLeads'
  BY <1>2, <1>s DEF PagesLead, AttemptLeads, Mine, Whole
<1>3. CASE Crash
  <2>1. att'.pc = Idle /\ ~att'.made /\ UNCHANGED note
    BY <1>3 DEF Crash, Dies, DiesCopying, NoAttempt
  <2>2. man' = man \/ man' = [man EXCEPT ![att.s] = Torn]
    BY <1>3 DEF Crash, Dies, DiesCopying
  <2>3. \A s \in Sids : man'[s] = man[s] \/ man'[s] = Torn
    BY <1>s, <2>2
  <2>4. \A p \in Paths, s \in Sids : Mine(p, s) => Mine(p, s)'
    BY <1>3, CrashedPage DEF Inv, Mine
  <2>5. \A s \in Sids : Whole(s)' => Whole(s) /\ man'[s] = man[s]
    BY <2>3 DEF Whole
  <2>6. \A s \in Sids : Mine(man[s].page, s) => man[s].page \in Paths
    BY DEF Mine
  <2>7. PagesLead'
    BY <1>s, <2>1, <2>4, <2>5, <2>6 DEF PagesLead
  <2> QED
    BY <1>3, <2>1, <2>7, Steps DEF AttemptLeads, NewSteps, CleanSteps, OldSteps
<1>4. CASE RecoverRead \/ RecoverWrite
  BY <1>2, <1>4 DEF RecoverRead, RecoverWrite
<1>5. CASE \/ \E s \in Sids : Begin(s)
           \/ Open \/ Lock \/ Refresh \/ Rewrite \/ Move \/ Publish \/ FailFiling \/ EditNote
           \/ MarkReviewed \/ DeviceNote
  <2>1. UNCHANGED <<man, page, att>>
    BY <1>5 DEF Begin, Open, Lock, Refresh, Rewrite, Move, Publish, FailFiling, EditNote,
       MarkReviewed, DeviceNote
  <2>2. Beside
    BY <1>5, FilingIsBeside
  <2> QED
    BY <1>2, <2>1, <2>2 DEF Beside
<1> QED
  BY <1>1, <1>3, <1>4, <1>5

\* A filing writes the page in the month, and removes the one it read, only for its source.
LEMMA FilingPages ==
  ASSUME Inv, Noted, Leads, FNext, Copy \/ Name \/ Drop
  PROVE  /\ PagesLead' /\ AttemptLeads'
         /\ fil'.pc \in {"name", "drop"} => Mine(fil.s, fil.s)'
<1> USE FilingFields, Steps DEF Leads
<1>s. /\ fil.s \in Sids /\ fil.s \in Paths /\ hurt \subseteq hurt' /\ TypeOK
      /\ man \in [Sids -> {None, Torn} \cup Manifests]
      /\ page \in [Paths -> {None, Foreign} \cup Pages]
      /\ fil.pc \in {"copy", "name", "drop"} /\ fil.text \in Pages /\ plan.from \in Paths
  BY Ranges, HurtGrows DEF Inv, TypeOK, Filings, Copy, Name, Drop, Filed, Hand, Carrying, HoldsSource, FilingPhases
<1>1. att' = att /\ att.pc = Idle /\ ~att.made /\ UNCHANGED note
  BY <1>s DEF Noted, HoldsSource, At, Copy, Name, Drop, NewSteps, CleanSteps, OldSteps
<1>2. AttemptLeads'
  BY <1>1 DEF AttemptLeads, NewSteps, CleanSteps, OldSteps
<1>3. fil.text.s = fil.s
  BY <1>s DEF FilingLeads, HoldsSource
<1>4. Whole(fil.s) /\ note[fil.s] # NoNote
  BY <1>s DEF Inv, Hand, Carrying, Known, Noted, Filed, FilingPhases
<1>5. CASE UNCHANGED <<page, man>> /\ fil'.pc \notin {"name", "drop"}
  BY <1>1, <1>2, <1>s, <1>5 DEF PagesLead, Mine, Whole
<1>6. CASE Copy /\ ~Fails
  <2> DEFINE text == [fil.text EXCEPT !.reviewed = TRUE]
  <2>1. text \in Pages /\ text.s = fil.s
    BY <1>s, <1>3 DEF Pages
  <2>2. page' = [page EXCEPT ![fil.s] = text] /\ UNCHANGED man /\ fil'.pc = "name" /\ fil'.s = fil.s
        /\ page[fil.s] \in {None, fil.text, text}
    BY <1>6 DEF Copy, plan
  <2> HIDE DEF text
  <2>3. text \notin {None, Foreign}
    BY <2>1, ValuesAssumption
  <2>4. page[fil.s] = None \/ Mine(fil.s, fil.s)
    BY <1>3, <1>s, <2>1, <2>2, <2>3, ValuesAssumption DEF Mine
  <2>5. PagesLead'
    BY <1>1, <1>s, <2>1, <2>2, <2>3, <2>4, PageWritten
  <2>6. Mine(fil.s, fil.s)'
    BY <1>s, <2>1, <2>2, <2>3 DEF Mine
  <2> QED
    BY <1>2, <2>5, <2>6
<1>7. CASE Name
  <2>1. fil.pc = "name" /\ fil'.s = fil.s /\ UNCHANGED page /\ man' = [man EXCEPT ![fil.s].page = fil.s]
    BY <1>7 DEF Name, Filed
  <2>2. man[fil.s] \in Manifests
    BY <1>4, <1>s DEF Whole
  <2>3. Mine(fil.s, fil.s)
    BY <2>1 DEF FilingLeads
  <2>4. man'[fil.s].page = fil.s /\ \A s \in Sids \ {fil.s} : man'[s] = man[s]
    BY <1>s, <2>1, <2>2 DEF Manifests
  <2>5. PagesLead'
    BY <1>1, <1>s, <2>1, <2>3, <2>4 DEF PagesLead, Mine, Whole
  <2> QED
    BY <1>2, <2>1, <2>3, <2>5 DEF Mine
<1>8. CASE Drop /\ ~UNCHANGED page
  <2>1. /\ fil.pc = "drop" /\ plan.from # fil.s /\ page[plan.from] = fil.text
        /\ page' = [page EXCEPT ![plan.from] = None] /\ UNCHANGED man /\ fil'.pc = "note"
    BY <1>8 DEF Drop, Filed
  <2>2. man[fil.s].page = fil.s
    BY <2>1 DEF FilingLeads
  <2>3. Mine(plan.from, fil.s)
    BY <1>3, <1>s, <2>1, ValuesAssumption DEF Mine
  <2>4. PagesLead'
    BY <1>1, <1>s, <2>1, <2>2, <2>3, PageWritten, ValuesAssumption
  <2> QED
    BY <1>2, <2>1, <2>4
<1>9. Fails => UNCHANGED <<page, man>> /\ fil'.pc \notin {"name", "drop"}
  BY <1>s DEF Fails, Copy, Name, Drop, Filed, FilingPhases
<1>10. Drop /\ UNCHANGED page => UNCHANGED <<page, man>> /\ fil'.pc \notin {"name", "drop"}
  BY DEF Drop, Fails, FilingPhases
<1> QED
  BY <1>2, <1>5, <1>6, <1>7, <1>8, <1>9, <1>10

\* What a filing has in hand is not disturbed by an ingest, a recovery or a device.
LEMMA FilingUndisturbed ==
  ASSUME Inv, Noted, FilingLeads, FNext, UNCHANGED fvars, ~FilingRuns \/ UNCHANGED page,
         \A s \in Sids : note[s] # NoNote => man'[s].page = man[s].page,
         CreateNote => att.at = man[att.s].page /\ UNCHANGED man
  PROVE  FilingLeads'
<1>s. /\ att.s \in Sids /\ fil.s \in Sids /\ UNCHANGED <<journal, fil>>
      /\ ~Rewrite /\ ~Publish
      /\ fil.pc # Idle => note[fil.s] # NoNote
  <2>1. Rewrite => fil.pc = "rewrite" /\ fil'.pc # "rewrite"
    BY FilingFields, Steps DEF Rewrite, Filed, Fails, FilingPhases
  <2>2. Publish => fil.pc = "publish" /\ fil'.pc # "publish"
    BY FilingFields, Steps DEF Publish, Filed, Fails, FilingPhases
  <2> QED
    BY <2>1, <2>2 DEF Inv, TypeOK, Attempts, Filings, fvars, Noted, Filed
<1>1. ASSUME NEW s \in Sids, note[s] # NoNote PROVE note'[s].link = note[s].link
  <2>1. CASE CreateNote
    <3>1. note[att.s] = NoNote
      BY <2>1 DEF CreateNote, At, Inv, Hand, Pristine, First, NewSteps
    <3> QED
      BY <1>1, <2>1, <3>1 DEF CreateNote, Inv, TypeOK
  <2> QED
    BY <1>s, <2>1, NoteSteps
<1>2. ASSUME NEW s \in Sids, note'[s] # NoNote, note[s] = NoNote PROVE note'[s].link = man'[s].page
  <2>1. CreateNote
    BY <1>s, <1>2, NoteSteps
  <2>2. note' = [note EXCEPT ![att.s] = OpeningNote(att.at)]
    BY <2>1 DEF CreateNote
  <2>3. s = att.s /\ note'[s] = OpeningNote(att.at)
    BY <1>2, <1>s, <2>2 DEF Inv, TypeOK
  <2>4. OpeningNote(att.at).link = att.at
    BY DEF OpeningNote
  <2> QED
    BY <2>1, <2>3, <2>4
<1>3. \A s \in Sids : journal[s].complete \/ IsFiled(s)' => note[s] # NoNote /\ (journal[s].complete \/ IsFiled(s))
  BY <1>s, RowSteps DEF Noted
<1>4. \A s \in Sids : note'[s] # NoNote => note'[s].link \in journal[s].froms \cup {s, man'[s].page}
  BY <1>1, <1>2 DEF FilingLeads
<1>5. \A s \in Sids : journal[s].complete \/ IsFiled(s)' => man'[s].page = s /\ note'[s].link = s
  BY <1>1, <1>3 DEF FilingLeads, Home
<1>6. fil.pc # Idle => note'[fil.s].link = note[fil.s].link /\ man'[fil.s].page = man[fil.s].page
  BY <1>1, <1>s
<1>7. fil.pc \in {"name", "drop"} => Mine(fil.s, fil.s)'
  BY <1>s DEF FilingLeads, FilingRuns, Mine
<1>8. \A q \in FilingPhases : q # Idle
  BY Steps
<1> QED
  BY <1>4, <1>5, <1>6, <1>7, <1>8, <1>s DEF FilingLeads, HoldsSource, Mine, Home, FilingPhases

\* Nor by itself: the manifest names the page in the month before the link is rewritten.
LEMMA FilingAdvances ==
  ASSUME Inv, Noted, Leads, FNext,
         \/ \E s \in Sids : Begin(s)
         \/ Open \/ Lock \/ Copy \/ Name \/ Drop \/ Refresh \/ Rewrite \/ Move \/ Publish
         \/ FailFiling \/ EditNote \/ MarkReviewed
  PROVE  FilingLeads'
<1> USE FilingFields, Steps DEF Leads
<1>s. /\ fil.s \in Sids /\ journal \in [Sids -> Plans]
      /\ man \in [Sids -> {None, Torn} \cup Manifests]
      /\ note \in [Sids -> Notes]
  BY DEF Inv, TypeOK, Filings
<1>b. Beside
  BY FilingIsBeside
<1>1. ASSUME NEW s \in Sids
      PROVE  /\ \/ note'[s].link = note[s].link
                \/ Rewrite /\ s = fil.s /\ note'[s].link = s
             /\ note'[s] # NoNote => note[s] # NoNote
  <2>1. ~CreateNote
    BY <1>b, AttemptFields DEF CreateNote, At, Beside
  <2> QED
    BY <1>b, <2>1, NoteSteps DEF Beside
<1>2. ASSUME NEW s \in Sids
      PROVE  man'[s].page = man[s].page \/ (Name /\ s = fil.s /\ man'[s].page = s)
  <2>1. CASE UNCHANGED man
    BY <2>1
  <2>2. CASE Name
    <3>1. Whole(fil.s)
      BY <2>2, <1>s DEF Name, Filed, Inv, Hand, Carrying, Known, FilingPhases
    <3>2. man[fil.s] \in Manifests
      BY <1>s, <3>1 DEF Whole
    <3>3. s = fil.s => man'[s] = [man[s] EXCEPT !.page = s]
      BY <1>s, <2>2 DEF Name
    <3>4. s # fil.s => man'[s] = man[s]
      BY <1>s, <2>2 DEF Name
    <3> QED
      BY <2>2, <3>2, <3>3, <3>4 DEF Manifests
  <2> QED
    BY <2>1, <2>2 DEF Begin, Open, Lock, Copy, Drop, Refresh, Rewrite, Move, Publish, FailFiling, EditNote,
       MarkReviewed
<1>3. ASSUME NEW s \in Sids
      PROVE  /\ journal[s].froms \subseteq journal'[s].froms
             /\ journal'[s].complete => journal[s].complete \/ (Move /\ s = fil.s)
  <2>1. CASE UNCHANGED journal
    BY <2>1
  <2>2. CASE Move /\ journal' = [journal EXCEPT ![fil.s].complete = TRUE]
    <3>1. s = fil.s => journal'[s] = [journal[s] EXCEPT !.complete = TRUE]
      BY <1>s, <2>2
    <3>2. s # fil.s => journal'[s] = journal[s]
      BY <1>s, <2>2
    <3> QED
      BY <1>s, <2>2, <3>1, <3>2 DEF Plans
  <2>3. ASSUME NEW t \in Sids, Begin(t), ~UNCHANGED journal
        PROVE  journal[s].froms \subseteq journal'[s].froms /\ (journal'[s].complete => journal[s].complete)
    <3>1. journal' = [journal EXCEPT ![t] =
            [from |-> man[t].page, froms |-> journal[t].froms \cup {man[t].page},
             rev |-> man[t].cur, complete |-> FALSE]]
      BY <2>3
    <3>2. s # t => journal'[s] = journal[s]
      BY <1>s, <3>1
    <3>3. s = t => journal'[s].froms = journal[s].froms \cup {man[s].page} /\ ~journal'[s].complete
      BY <1>s, <3>1
    <3> QED
      BY <3>2, <3>3
  <2> QED
    BY <2>1, <2>2, <2>3 DEF Open, Lock, Copy, Name, Drop, Refresh, Rewrite, Move, Publish, FailFiling, EditNote,
       MarkReviewed
<1>4. ASSUME NEW s \in Sids, note'[s] # NoNote
      PROVE  note'[s].link \in journal'[s].froms \cup {s, man'[s].page}
  <2>1. note[s] # NoNote /\ note[s].link \in journal[s].froms \cup {s, man[s].page}
    BY <1>1, <1>4 DEF FilingLeads
  <2>2. Name /\ s = fil.s => note[s].link \in journal[s].froms \cup {s}
    BY DEF Name, Filed, FilingLeads
  <2> QED
    BY <1>1, <1>2, <1>3, <2>1, <2>2
<1>5. ASSUME NEW s \in Sids, journal'[s].complete \/ IsFiled(s)' PROVE Home(s)'
  <2>1. CASE journal[s].complete \/ IsFiled(s)
    BY <1>1, <1>2, <2>1 DEF FilingLeads, Home
  <2>2. CASE (Move \/ Publish) /\ s = fil.s
    <3>1. man[s].page = s /\ note[s].link = s
      BY <2>2 DEF Move, Publish, Filed, FilingLeads
    <3> QED
      BY <1>1, <1>2, <3>1 DEF Home
  <2> QED
    BY <1>3, <1>5, <2>1, <2>2, RowSteps
<1>6. CASE \E s \in Sids : Begin(s)
  <2>1. PICK s \in Sids : Begin(s)
    BY <1>6
  <2>2. fil'.s = s /\ note[s] # NoNote /\ UNCHANGED <<man, note>>
    BY <2>1 DEF Begin
  <2>3. CASE fil'.pc = "publish" /\ journal[s].complete /\ UNCHANGED journal
    <3>1. man[s].page = s /\ note[s].link = s
      BY <2>3 DEF FilingLeads, Home
    <3> QED
      BY <1>4, <1>5, <2>2, <2>3, <3>1 DEF FilingLeads, HoldsSource
  <2>4. CASE /\ fil'.pc = "open"
             /\ journal' = [journal EXCEPT ![s] =
                  [from |-> man[s].page, froms |-> journal[s].froms \cup {man[s].page},
                   rev |-> man[s].cur, complete |-> FALSE]]
    <3>1. journal'[s].froms = journal[s].froms \cup {man[s].page}
      BY <1>s, <2>4
    <3>2. note[s].link \in journal[s].froms \cup {s, man[s].page}
      BY <2>2 DEF FilingLeads
    <3> QED
      BY <1>4, <1>5, <2>2, <2>4, <3>1, <3>2 DEF FilingLeads, HoldsSource
  <2> QED
    BY <2>1, <2>3, <2>4
<1>7. CASE fil'.pc = Idle
  BY <1>4, <1>5, <1>7 DEF FilingLeads, HoldsSource, FilingPhases
<1>8. ASSUME fil'.s = fil.s, fil'.pc \in FilingPhases, fil.pc \in FilingPhases,
             HoldsSource' => fil'.text.s = fil.s,
             fil'.pc \in {"name", "drop"} => Mine(fil.s, fil.s)',
             fil'.pc \in {"drop", "note", "rewrite", "move", "publish"} => man'[fil.s].page = fil.s,
             fil'.pc \in {"open", "lock", "copy", "name", "drop", "note", "rewrite"} =>
               fil.pc \in {"open", "lock", "copy", "name", "drop", "note", "rewrite"},
             fil'.pc \in {"move", "publish"} => note'[fil.s].link = fil.s
      PROVE  FilingLeads'
  <2>1. fil'.pc \in {"open", "lock", "copy", "name", "drop", "note", "rewrite"} =>
          note'[fil.s].link \in journal'[fil.s].froms \cup {fil.s}
    BY <1>1, <1>3, <1>8, <1>s DEF FilingLeads
  <2> QED
    BY <1>4, <1>5, <1>8, <2>1 DEF FilingLeads, Mine
<1>9. CASE Open \/ Lock
  <2>1. fil.pc \in {"open", "lock"} /\ UNCHANGED <<man, page>>
    BY <1>9 DEF Open, Lock, Filed
  <2>2. CASE fil'.pc = "lock" /\ fil'.s = fil.s
    BY <1>8, <2>1, <2>2 DEF FilingPhases, HoldsSource
  <2>3. ASSUME NEW p, fil'.pc = "copy", fil'.s = fil.s, fil'.text = page[p], Held(p, fil.s) = man[fil.s].cur
        PROVE  FilingLeads'
    <3>1. Whole(fil.s)
      BY <2>1, <1>s DEF Filed, Inv, Hand, Carrying, Known, FilingPhases
    <3>2. man[fil.s].cur # None
      BY <1>s, <3>1, Ranges DEF Whole, Manifests
    <3>3. page[p].s = fil.s
      BY <2>3, <3>2, MineIsHeld DEF Mine, Inv
    <3> QED
      BY <1>8, <2>1, <2>3, <3>3 DEF FilingPhases, HoldsSource
  <2> QED
    BY <1>7, <1>9, <2>2, <2>3 DEF Open, Fails
<1>10. CASE Copy \/ Name \/ Drop
  <2>1. fil.pc \in {"copy", "name", "drop"} /\ fil.text.s = fil.s
    BY <1>10 DEF Copy, Name, Drop, Filed, FilingLeads, HoldsSource
  <2>2. fil'.pc \in {"name", "drop"} => Mine(fil.s, fil.s)'
    BY <1>10, FilingPages
  <2>3. \/ fil'.pc = Idle
        \/ /\ fil'.pc \in {"name", "drop", "note"} /\ fil'.s = fil.s /\ fil'.text = fil.text
           /\ fil'.pc \in {"drop", "note"} => Name \/ fil.pc = "drop"
    BY <1>10 DEF Copy, Name, Drop, Fails, Filed
  <2>4. fil.pc = "drop" => man[fil.s].page = fil.s
    BY DEF FilingLeads
  <2>5. Name => man'[fil.s].page = fil.s
    <3>1. ASSUME Name PROVE man[fil.s] \in Manifests
      BY <3>1, <1>s DEF Name, Filed, Inv, Hand, Carrying, Known, FilingPhases, Whole
    <3> QED
      BY <1>s, <3>1 DEF Name, Manifests
  <2>6. fil'.pc \in {"drop", "note"} => man'[fil.s].page = fil.s
    <3>1. fil.pc = "drop" => man'[fil.s].page = fil.s
      BY <1>2, <1>s, <2>4
    <3>2. fil'.pc \in {"drop", "note"} => Name \/ fil.pc = "drop"
      BY <2>3, Steps DEF FilingPhases
    <3> QED
      BY <2>5, <3>1, <3>2
  <2> QED
    BY <1>7, <1>8, <2>1, <2>2, <2>3, <2>6 DEF FilingPhases
<1>11. CASE Refresh \/ Rewrite \/ Move \/ Publish
  <2>1. fil.pc \in {"note", "rewrite", "move", "publish"} /\ man'[fil.s].page = fil.s
    BY <1>11 DEF Refresh, Rewrite, Move, Publish, Filed, FilingLeads
  <2>2. \/ fil'.pc = Idle
        \/ /\ fil'.s = fil.s
           /\ \/ Refresh /\ fil'.pc = "rewrite" /\ fil.pc = "note"
              \/ Rewrite /\ fil'.pc = "move" /\ ~Fails
              \/ Move /\ fil'.pc = "publish" /\ fil.pc = "move"
    BY <1>11 DEF Refresh, Rewrite, Move, Publish, Fails, Filed
  <2>3. Rewrite /\ ~Fails => note'[fil.s].link = fil.s
    <3>1. ASSUME Rewrite, ~Fails PROVE note'[fil.s].link = fil.s
      <4>1. note[fil.s].link \in plan.froms \cup {fil.s}
        BY <3>1 DEF Rewrite, Filed, FilingLeads, plan
      <4>2. note' = [note EXCEPT ![fil.s].link = IF note[fil.s].link \in plan.froms THEN fil.s ELSE note[fil.s].link]
        BY <3>1 DEF Rewrite
      <4>3. note' = [note EXCEPT ![fil.s].link = fil.s]
        BY <4>1, <4>2
      <4> QED
        BY <1>s, <4>3 DEF Notes
    <3> QED
      BY <3>1
  <2>4. fil.pc = "move" /\ Move => note'[fil.s].link = fil.s
    BY <1>1, <1>s DEF FilingLeads
  <2> QED
    BY <1>7, <1>8, <2>1, <2>2, <2>3, <2>4 DEF FilingPhases, HoldsSource
<1>12. CASE EditNote \/ MarkReviewed
  <2>1. fil'.s = fil.s /\ fil'.pc = fil.pc /\ fil'.text = fil.text /\ UNCHANGED <<man, page>>
    BY <1>12 DEF EditNote, MarkReviewed
  <2>2. note'[fil.s].link = note[fil.s].link \/ note'[fil.s].link = fil.s
    BY <1>1, <1>s
  <2>3. fil.pc \in FilingPhases \cup {Idle}
    BY DEF Inv, TypeOK, Filings
  <2> QED
    BY <1>7, <1>8, <2>1, <2>2, <2>3 DEF FilingLeads, HoldsSource, Mine
<1>13. CASE FailFiling
  BY <1>7, <1>13 DEF FailFiling, Fails
<1> QED
  BY <1>6, <1>9, <1>10, <1>11, <1>12, <1>13

LEMMA LeadsKept ==
  ASSUME Inv, Noted, Leads, FNext, "foreign" \notin hurt' PROVE Leads'
<1> USE DEF Leads
<1>1. CASE FilingSteps \/ FailFiling \/ EditNote \/ MarkReviewed
  <2>1. PagesLead' /\ AttemptLeads'
    BY <1>1, QuietSteps, FilingPages DEF FilingSteps
  <2>2. FilingLeads'
    BY <1>1, FilingAdvances DEF FilingSteps
  <2> QED
    BY <2>1, <2>2
<1>2. CASE Crash
  <2>1. fil'.pc = Idle /\ UNCHANGED <<journal, note, row>>
    BY <1>2 DEF Crash, Dies, DiesCopying, NoFiling
  <2>2. \A s \in Sids : man'[s] = man[s] \/ (man'[s] = Torn /\ note[s] = NoNote)
    <3>1. man' = man \/ (att.pc = "manifest" /\ man' = [man EXCEPT ![att.s] = Torn])
      BY <1>2 DEF Crash, Dies, DiesCopying, At
    <3>2. att.pc = "manifest" => note[att.s] = NoNote
      BY DEF Inv, Hand, Pristine, First, NewSteps
    <3> QED
      BY <3>1, <3>2 DEF Inv, TypeOK
  <2>3. \A s \in Sids : journal[s].complete \/ IsFiled(s) => note[s] # NoNote
    BY DEF Noted
  <2>4. \A s \in Sids : note[s] # NoNote => man'[s] = man[s]
    BY <2>2
  <2>5. FilingLeads'
    BY <2>1, <2>3, <2>4, Steps DEF FilingLeads, HoldsSource, Home, IsFiled, FilingPhases
  <2> QED
    BY <1>2, <2>5, QuietSteps
<1>3. CASE UNCHANGED fvars
  <2>1. CASE \/ \E c \in Contents : Request(c)
             \/ Claim \/ FlushRows \/ MakeFirstRevision \/ CreateNote \/ CleanClaim \/ Resolve \/ Look
             \/ MakeDirectory \/ FillDirectory \/ Commit \/ FailNew \/ FailRevision \/ FailPage
    <3>1. UNCHANGED <<page, man>> /\ PagesLead' /\ AttemptLeads'
      BY <2>1, PagelessSteps
    <3>2. CreateNote => att.at = man[att.s].page
      BY DEF CreateNote, At, AttemptLeads
    <3> QED
      BY <1>3, <3>1, <3>2, FilingUndisturbed
  <2>2. CASE ~FilingRuns /\ (PlaceFirstPage \/ Place \/ Swap \/ CleanPage \/ RecordFails)
    <3>1. UNCHANGED man /\ PagesLead' /\ AttemptLeads'
      BY <2>2, PageSteps
    <3>2. ~CreateNote
      BY <2>2 DEF CreateNote, PlaceFirstPage, Place, Swap, CleanPage, RecordFails, At
    <3> QED
      BY <1>3, <2>2, <3>1, <3>2, FilingUndisturbed
  <2>3. CASE WriteFirstManifest \/ CleanBundle \/ RecordPage \/ Supersede
    <3>1. /\ PagesLead' /\ AttemptLeads' /\ UNCHANGED <<page, note>>
          /\ \A s \in Sids : note[s] # NoNote => man'[s].page = man[s].page
      BY <2>3, ManifestSteps
    <3>2. ~CreateNote
      BY <2>3 DEF CreateNote, WriteFirstManifest, CleanBundle, RecordPage, Supersede, At
    <3> QED
      BY <1>3, <3>1, <3>2, FilingUndisturbed
  <2>4. CASE RecoverRead \/ RecoverWrite \/ DeviceNote
    <3>1. PagesLead' /\ AttemptLeads' /\ UNCHANGED <<page, man, att>>
      BY <2>4, QuietSteps DEF RecoverRead, RecoverWrite, DeviceNote
    <3>2. ~CreateNote
      BY <3>1, AttemptFields DEF CreateNote, At
    <3> QED
      BY <1>3, <3>1, <3>2, FilingUndisturbed
  <2>5. ~DevicePage
    <3>1. DevicePage => "foreign" \in hurt'
      BY DEF DevicePage
    <3> QED
      BY <3>1
  <2> QED
    BY <1>1, <1>2, <1>3, <2>1, <2>2, <2>3, <2>4, <2>5 DEF FNext, Ingesting, Working, Recovering
<1> QED
  BY <1>1, <1>2, <1>3 DEF FNext, Ingesting, Recovering

\* What may still happen is counted down.
Counted == left \in [requests : Nat, accidents : Nat, reviews : Nat]

LEMMA CountedKept == ASSUME Counted, FNext PROVE Counted'
<1> USE DEF Counted
<1>1. CASE UNCHANGED left
  BY <1>1
<1>2. CASE left.requests > 0 /\ left' = [left EXCEPT !.requests = @ - 1]
  BY <1>2
<1>3. CASE left.accidents > 0 /\ left' = [left EXCEPT !.accidents = @ - 1]
  BY <1>3
<1>4. CASE MarkReviewed
  <2>1. /\ left.reviews > 0
        /\ \/ left' = [left EXCEPT !.reviews = @ - 1]
           \/ left.accidents > 0 /\ left' = [left EXCEPT !.reviews = @ - 1, !.accidents = @ - 1]
    BY <1>4 DEF MarkReviewed
  <2>2. CASE left' = [left EXCEPT !.reviews = @ - 1]
    BY <2>1, <2>2
  <2>3. CASE left.accidents > 0 /\ left' = [left EXCEPT !.reviews = @ - 1, !.accidents = @ - 1]
    <3>1. left.reviews - 1 \in Nat /\ left.accidents - 1 \in Nat
      BY <2>1, <2>3
    <3>2. \A n, k \in Nat : [left EXCEPT !.reviews = n, !.accidents = k]
                            \in [requests : Nat, accidents : Nat, reviews : Nat]
      OBVIOUS
    <3> QED
      BY <2>3, <3>1, <3>2
  <2> QED
    BY <2>1, <2>2, <2>3
<1> QED
  <2>1. \/ UNCHANGED left \/ MarkReviewed
        \/ left.requests > 0 /\ left' = [left EXCEPT !.requests = @ - 1]
        \/ left.accidents > 0 /\ left' = [left EXCEPT !.accidents = @ - 1]
    BY DEF FNext, Ingesting, Working, Recovering, FilingSteps, Request, Claim, FlushRows,
       MakeFirstRevision, PlaceFirstPage, WriteFirstManifest, CreateNote, CleanBundle, CleanClaim,
       CleanPage, Resolve, Look, Place, Swap, RecordPage, MakeDirectory, FillDirectory, Supersede,
       Commit, FailNew, RecordFails, FailRevision, FailPage, RecoverRead, RecoverWrite, DevicePage,
       DeviceNote, Begin, Open, Lock, Copy, Name, Drop, Refresh, Rewrite, Move, Publish, FailFiling,
       EditNote, Crash, Dies, DiesCopying, Fault, Device
  <2> QED
    BY <1>1, <1>2, <1>3, <1>4, <2>1

\* Neither ingest nor filing writes over a file that was put where a page was.
LEMMA ForeignStays ==
  ASSUME Inv, Counted, FNext, NEW p \in Paths, page[p] = Foreign
  PROVE  page'[p] = Foreign \/ left'.accidents < left.accidents \/ "late" \in hurt'
<1>s. page \in [Paths -> {None, Foreign} \cup Pages] /\ None # Foreign /\ Foreign \notin Pages
  BY ValuesAssumption DEF Inv, TypeOK
<1>7. CASE Crash
  BY <1>s, <1>7, CrashedPage DEF Inv
<1>1. CASE UNCHANGED page
  BY <1>1
<1>2. CASE PlaceFirstPage \/ Place
  <2>1. UNCHANGED page \/ (page[att.at] = None /\ \E v : page' = [page EXCEPT ![att.at] = v])
    BY <1>2 DEF PlaceFirstPage, Place
  <2> QED
    BY <1>1, <1>s, <2>1
<1>3. CASE Swap \/ TakeBack
  <2>1. UNCHANGED page \/ (Late /\ \E v : page' = [page EXCEPT ![att.at] = v])
    BY <1>3 DEF Swap, TakeBack
  <2>2. CASE p = att.at /\ Late
    BY <1>s, <2>2 DEF Late, Held
  <2> QED
    BY <1>1, <1>s, <2>1, <2>2
<1>4. CASE Copy
  <2> DEFINE text == [fil.text EXCEPT !.reviewed = TRUE]
  <2>1. fil.text \in Pages
    BY <1>4 DEF Copy, Filed, Inv, Hand, Carrying, HoldsSource
  <2>2. text \in Pages
    BY <2>1 DEF Pages
  <2>3. UNCHANGED page \/ (page[fil.s] \in {None, fil.text, text} /\ page' = [page EXCEPT ![fil.s] = text])
    BY <1>4 DEF Copy
  <2> HIDE DEF text
  <2> QED
    BY <1>s, <2>1, <2>2, <2>3
<1>5. CASE Drop
  <2>1. fil.text \in Pages
    BY <1>5 DEF Drop, Filed, Inv, Hand, Carrying, HoldsSource
  <2>2. UNCHANGED page \/ (page[plan.from] = fil.text /\ page' = [page EXCEPT ![plan.from] = None])
    BY <1>5 DEF Drop
  <2> QED
    BY <1>s, <2>1, <2>2
<1>6. CASE DevicePage
  BY <1>6 DEF DevicePage, Device, Counted
<1> QED
  <2>1. \/ UNCHANGED page \/ PlaceFirstPage \/ Place \/ Swap \/ TakeBack \/ Copy \/ Drop \/ DevicePage
        \/ Crash
    BY DEF FNext, Ingesting, Working, Recovering, FilingSteps, Request, Claim, FlushRows,
       MakeFirstRevision, WriteFirstManifest, CreateNote, CleanBundle, CleanClaim,
       CleanPage, Resolve, Look, RecordPage, MakeDirectory, FillDirectory, Supersede,
       Commit, FailNew, RecordFails, FailRevision, FailPage, RecoverRead, RecoverWrite, DeviceNote,
       Begin, Open, Lock, Name, Refresh, Rewrite, Move, Publish, FailFiling, EditNote, MarkReviewed
  <2> QED
    BY <1>1, <1>2, <1>3, <1>4, <1>5, <1>6, <1>7, <2>1

ForeignKept == \A p \in Paths : page[p] = Foreign =>
                 page'[p] = Foreign \/ left'.accidents < left.accidents \/ "late" \in hurt'

\* While no device was at the pages, a manifest leads to a page of its source and a filed
\* note links to the page in its month, the one the manifest names; and whatever device was
\* there, neither ingest nor filing replaces or removes what it finds foreign when it looks
\* (projections.py write_projection, filing.py _file_source, sources.py _ingest_new).
THEOREM PagesAlwaysStand == Spec => PagesStand
<1> DEFINE J == Counted /\ Noted /\ ("foreign" \notin hurt => Leads)
<1>1. FInit => J
  <2> SUFFICES ASSUME FInit PROVE Counted /\ Noted /\ Leads
    OBVIOUS
  <2>4. Counted
    BY IngestAssumption DEF FInit, Init, Counted
  <2>1. att.pc = Idle /\ ~att.made /\ fil.pc = Idle /\ rec = Idle
    BY DEF FInit, Init, NoAttempt, NoFiling
  <2>2. \A s \in Sids : note[s] = NoNote /\ row[s] = None /\ ~journal[s].complete /\ man[s] = None
    BY DEF FInit, Init, NoPlan
  <2>3. \A p \in Paths : page[p] # Foreign
    BY ValuesAssumption DEF FInit, Init
  <2> QED
    BY <2>1, <2>2, <2>3, <2>4, Steps DEF Noted, Leads, PagesLead, AttemptLeads, FilingLeads, Whole, Linked,
       IsFiled, Filed, HoldsSource, NewSteps, CleanSteps, OldSteps, FilingPhases
<1>2. ASSUME Inv, J, [FNext]_vars PROVE J'
  <2>1. CASE UNCHANGED vars
    BY <1>2, <2>1 DEF Counted, Noted, Leads, PagesLead, AttemptLeads, FilingLeads, Whole, Linked, IsFiled, Filed,
       HoldsSource, Home, Mine, At, vars, ivars, fvars
  <2>2. CASE FNext
    BY <1>2, <2>2, CountedKept, NotedKept, LeadsKept, HurtGrows
  <2> QED
    BY <1>2, <2>1, <2>2
<1>3. Inv /\ J => ManifestLeadsToPage /\ FiledLeadsToPage
  <2> SUFFICES ASSUME Inv, Noted, Leads
               PROVE  /\ "debris" \notin hurt => \A s \in Sids : Whole(s) => Held(man[s].page, s) # None
                      /\ \A s \in Sids : row[s] # None /\ row[s].filed =>
                            note[s].link = s /\ man[s].page = s /\ Held(s, s) # None
    BY DEF ManifestLeadsToPage, FiledLeadsToPage
  <2>1. ASSUME NEW s \in Sids, Whole(s), note[s] # NoNote \/ "debris" \notin hurt
        PROVE  Held(man[s].page, s) # None
    BY <2>1, MineIsHeld DEF Leads, PagesLead, Inv
  <2>2. ASSUME NEW s \in Sids, row[s] # None, row[s].filed
        PROVE  note[s].link = s /\ man[s].page = s /\ Held(s, s) # None
    <3>1. note[s] # NoNote /\ Whole(s) /\ Home(s)
      BY <2>2 DEF Noted, IsFiled, Leads, FilingLeads, Inv, Hand, Known
    <3> QED
      BY <2>1, <3>1 DEF Home
  <2> QED
    BY <2>1, <2>2
<1>4. ASSUME Inv, J, [FNext]_vars PROVE [ForeignKept]_vars
  BY <1>4, ForeignStays DEF ForeignKept
<1>5. [][ForeignKept]_vars => ForeignIsLeftAlone
  BY DEF ForeignKept, ForeignIsLeftAlone
<1> QED
  BY <1>1, <1>2, <1>3, <1>4, <1>5, InvHolds, PTL DEF Spec, PagesStand
=============================================================================
