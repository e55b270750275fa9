---------------------------- MODULE Trash_proofs ----------------------------
(***************************************************************************)
(* Items, documents and the trash for any items, documents and handlers,   *)
(* whatever overtakes what: every document without a holder, and every     *)
(* file without a row, is on some handler's mind until it is gone, or was  *)
(* left half done (TrashInv), so that nothing else is left behind once     *)
(* they are done; and what is purged or deleted was in the trash and       *)
(* without a holder, unless the admin asked for it outright or a restore   *)
(* or a link crossed it (PurgeInv).                                        *)
(***************************************************************************)
EXTENDS Trash, FiniteSetTheorems, TLAPS

Jobs ==
  [at : {"idle", "next", "dir", "commit", "orphans", "drop", "files", "unlink", "count", "save", "link"},
   item : Items \union {"none"}, doc : Documents \union {"none"},
   docs : SUBSET Documents, todo : SUBSET Items, admin : BOOLEAN, permanent : BOOLEAN, shared : BOOLEAN]

\* What a handler will still look at, were no item to hold it.
Minds(j, d) ==
  \/ j.at = "count" /\ j.doc = d
  \/ j.at = "orphans" /\ d \in j.docs
  \/ j.at = "drop" /\ (j.doc = d \/ d \in j.docs)
  \/ j.at = "files" /\ d \in j.docs /\ d # j.doc

\* Whose file a handler has written or will delete.
Files(j, d) == j.at \in {"save", "files"} /\ j.doc = d

Uploads ==
  /\ \A c \in Clients : At(c, "save") => job[c].doc \in files \ docs /\ job[c].item \in Items
  /\ \A b, c \in Clients : At(b, "save") /\ At(c, "save") /\ job[b].doc = job[c].doc => b = c

\* A handler past its look-up knows its item, or its document.
Named(j) ==
  /\ j.at \in {"link", "dir", "commit"} => j.item \in Items
  /\ j.at \in {"unlink", "count"} => j.doc \in Documents
Knows == \A c \in Clients : Named(job[c])

\* What is being deleted had been written, and has no row by the time its
\* files go.
Drops ==
  /\ \A c \in Clients : job[c].at \in {"drop", "files"} => job[c].doc \in used
  /\ \A b, c \in Clients : At(b, "save") /\ job[c].at \in {"drop", "files"} => job[b].doc # job[c].doc
  /\ \A c \in Clients : At(c, "files") => job[c].doc \notin docs

\* A purge knows every document its item holds, but for one that came too late.
Lists == \A c \in Clients : job[c].at \in {"dir", "commit"} => Held(job[c].item) \subseteq job[c].docs \union spoilt

Minded == \A d \in docs \ spoilt : Holders(d) = {} => \E c \in Clients : Minds(job[c], d)
Filed == \A d \in files \ (docs \union spoilt) : \E c \in Clients : Files(job[c], d)

TrashInv == TrashTypeOK /\ Uploads /\ Knows /\ Drops /\ Lists /\ RowHasFile /\ Minded /\ Filed

-----------------------------------------------------------------------------
LEMMA JobsType == TrashTypeOK => job \in [Clients -> Jobs]
  BY DEF TrashTypeOK, Jobs

LEMMA IdleIsJob == Idle \in Jobs /\ Idle.at = "idle"
  BY DEF Idle, Jobs

\* A handler's step changes its own job only.
LEMMA JobStep ==
  ASSUME TrashTypeOK, NEW c \in Clients, NEW r \in Jobs, Do(c, r)
  PROVE  job' \in [Clients -> Jobs] /\ job'[c] = r /\ \A b \in Clients : b # c => job'[b] = job[b]
  BY JobsType DEF Do

LEMMA InitHolds == TrashInit => TrashInv
<1> SUFFICES ASSUME TrashInit PROVE TrashInv
  OBVIOUS
<1>1. job \in [Clients -> Jobs] /\ \A c \in Clients : job[c].at = "idle"
  BY IdleIsJob DEF TrashInit
<1>2. TrashTypeOK
  BY <1>1 DEF TrashInit, TrashTypeOK, Jobs
<1>3. QED BY <1>1, <1>2 DEF TrashInv, TrashInit, Uploads, Knows, Named, Drops, Lists, RowHasFile, Minded, Filed, At

\* Items go to the trash and come back; nothing else moves.
LEMMA ItemKeeps ==
  ASSUME TrashInv, NEW i \in Items, MoveToTrash(i) \/ Restore(i) \/ AddPhoto(i)
  PROVE  TrashInv'
<1>1. UNCHANGED <<docs, files, links, used, job, spoilt>> /\ crossed' \subseteq crossed \union Items
  BY DEF MoveToTrash, Restore, Crosses, AddPhoto
<1>2. item' \in [Items -> {"live", "trashed", "gone"}] /\ \A k \in Items : item'[k] = "gone" <=> item[k] = "gone"
  BY DEF MoveToTrash, Restore, AddPhoto, TrashInv, TrashTypeOK
<1>3. pictured' \subseteq Items /\ dirs' \subseteq Items
  BY DEF MoveToTrash, Restore, AddPhoto, TrashInv, TrashTypeOK
<1>4. TrashTypeOK'
  BY <1>1, <1>2, <1>3 DEF TrashInv, TrashTypeOK
<1>5. QED BY <1>1, <1>4
  DEF TrashInv, Uploads, Knows, Drops, Lists, RowHasFile, Minded, Filed, At, Held, Holders

\* A handler that takes up or lays down work, the rows and files as they were.
LEMMA JobKeeps ==
  ASSUME TrashInv, NEW c \in Clients, NEW r \in Jobs, Do(c, r),
         UNCHANGED <<item, docs, files, links, used, spoilt, crossed>>, pictured' \subseteq Items, dirs' \subseteq Items,
         r.at \notin {"save", "files"}, job[c].at \notin {"save", "files"},
         Named(r),
         r.at = "drop" => r.doc \in docs,
         r.at \in {"dir", "commit"} => Held(r.item) \subseteq r.docs \union spoilt,
         \A d \in docs \ spoilt : Holders(d) = {} /\ Minds(job[c], d) => Minds(r, d)
  PROVE  TrashInv'
<1>1. job' \in [Clients -> Jobs] /\ job'[c] = r /\ \A b \in Clients : b # c => job'[b] = job[b]
  BY JobStep DEF TrashInv
<1>2. TrashTypeOK'
  BY <1>1 DEF TrashInv, TrashTypeOK, Jobs
<1>3. Uploads' /\ Knows'
  BY <1>1 DEF TrashInv, Uploads, Knows, At
<1>4. Drops'
  <2>1. r.at = "drop" => r.doc \in used /\ \A b \in Clients : At(b, "save") => job[b].doc # r.doc
    BY DEF TrashInv, TrashTypeOK, Uploads
  <2>2. QED BY <1>1, <2>1 DEF TrashInv, Drops, At
<1>5. Lists'
  BY <1>1 DEF TrashInv, Lists, Held
<1>6. RowHasFile'
  BY DEF TrashInv, RowHasFile
<1>7. Minded'
  <2> SUFFICES ASSUME NEW d \in docs \ spoilt, Holders(d) = {} PROVE \E b \in Clients : Minds(job'[b], d)
    BY DEF Minded, Holders
  <2>1. PICK b \in Clients : Minds(job[b], d)
    BY DEF TrashInv, Minded
  <2>2. CASE b = c
    BY <1>1, <2>1, <2>2
  <2>3. CASE b # c
    BY <1>1, <2>1, <2>3
  <2>4. QED BY <2>2, <2>3
<1>8. Filed'
  BY <1>1 DEF TrashInv, Filed, Files
<1>9. QED BY <1>2, <1>3, <1>4, <1>5, <1>6, <1>7, <1>8 DEF TrashInv

\* What uploads and deletions rely on, when rows and files only go.
LEMMA OthersKeep ==
  ASSUME TrashInv, NEW c \in Clients, NEW r \in Jobs, job'[c] = r, \A b \in Clients : b # c => job'[b] = job[b],
         used' = used, docs' \subseteq docs, files' \subseteq files,
         \A d \in docs' : d \in files',
         r.at # "save",
         \A b \in Clients : At(b, "save") /\ b # c => job[b].doc \notin files \ files',
         Named(r),
         r.at \in {"drop", "files"} => r.doc \in used,
         r.at \in {"drop", "files"} => \A b \in Clients : At(b, "save") => job[b].doc # r.doc,
         r.at = "files" => r.doc \notin docs'
  PROVE  Uploads' /\ Knows' /\ Drops' /\ RowHasFile'
<1>1. \A b \in Clients : job'[b].at = "save" => b # c /\ job'[b] = job[b] /\ At(b, "save")
  BY DEF At
<1>2. Uploads'
  <2>1. ASSUME NEW b \in Clients, job'[b].at = "save" PROVE job'[b].doc \in files' \ docs' /\ job'[b].item \in Items
    BY <1>1, <2>1 DEF TrashInv, Uploads
  <2>2. ASSUME NEW a \in Clients, NEW b \in Clients, job'[a].at = "save", job'[b].at = "save", job'[a].doc = job'[b].doc
        PROVE  a = b
    BY <1>1, <2>2 DEF TrashInv, Uploads
  <2>3. QED BY <2>1, <2>2 DEF Uploads, At
<1>3. Knows'
  BY DEF TrashInv, Knows, Named, At
<1>4. Drops'
  <2>1. ASSUME NEW b \in Clients, job'[b].at \in {"drop", "files"}
        PROVE  job'[b].doc \in used /\ (\A a \in Clients : At(a, "save") => job[a].doc # job'[b].doc)
               /\ (job'[b].at = "files" => job'[b].doc \notin docs')
    <3>1. CASE b = c
      BY <2>1, <3>1
    <3>2. CASE b # c
      BY <2>1, <3>2 DEF TrashInv, Drops, At
    <3>3. QED BY <3>1, <3>2
  <2>2. QED BY <1>1, <2>1 DEF Drops, At
<1>5. RowHasFile'
  BY DEF RowHasFile
<1>6. QED BY <1>2, <1>3, <1>4, <1>5

-----------------------------------------------------------------------------
(* What is asked for.                                                      *)

LEMMA PurgeAsked ==
  ASSUME TrashInv, NEW c \in Clients, (\E S \in SUBSET Items : PurgeList(c, S)) \/ \E i \in Items : DeleteItem(c, i)
  PROVE  TrashInv'
<1>1. PICK r \in Jobs : r.at = "next" /\ job[c].at = "idle" /\ Do(c, r)
                       /\ UNCHANGED <<item, pictured, dirs, docs, files, links, used, spoilt, crossed>>
  <2>1. ASSUME NEW S \in SUBSET Items, PurgeList(c, S)
        PROVE  \E r \in Jobs : r.at = "next" /\ job[c].at = "idle" /\ Do(c, r)
                              /\ UNCHANGED <<item, pictured, dirs, docs, files, links, used, spoilt, crossed>>
    <3> DEFINE r == [Idle EXCEPT !.at = "next", !.todo = S, !.admin = TRUE]
    <3>1. r \in Jobs /\ r.at = "next"
      BY DEF Idle, Jobs
    <3>2. QED BY <2>1, <3>1 DEF PurgeList, Begin, At
  <2>2. ASSUME NEW i \in Items, DeleteItem(c, i)
        PROVE  \E r \in Jobs : r.at = "next" /\ job[c].at = "idle" /\ Do(c, r)
                              /\ UNCHANGED <<item, pictured, dirs, docs, files, links, used, spoilt, crossed>>
    <3>1. PICK permanent \in BOOLEAN :
            Begin(c, [Idle EXCEPT !.at = "next", !.todo = {i}, !.admin = TRUE, !.permanent = permanent])
      BY <2>2 DEF DeleteItem
    <3> DEFINE r == [Idle EXCEPT !.at = "next", !.todo = {i}, !.admin = TRUE, !.permanent = permanent]
    <3>2. r \in Jobs /\ r.at = "next"
      BY DEF Idle, Jobs
    <3>3. QED BY <2>2, <3>1, <3>2 DEF DeleteItem, Begin, At
  <2>3. QED BY <2>1, <2>2
<1>2. \A d \in docs \ spoilt : ~Minds(job[c], d)
  BY <1>1 DEF Minds
<1>3. QED BY <1>1, <1>2, JobKeeps DEF Named, TrashInv, TrashTypeOK

LEMMA DocumentAsked ==
  ASSUME TrashInv, NEW c \in Clients, NEW d \in Documents,
         DeleteDocument(c, d) \/ \E i \in Items : Link(c, i, d) \/ UnlinkDocument(c, i, d)
  PROVE  TrashInv'
<1>1. job[c].at = "idle" /\ UNCHANGED <<item, pictured, dirs, docs, files, links, used, spoilt, crossed>>
  BY DEF DeleteDocument, Link, UnlinkDocument, Begin, At
<1>2. \A e \in docs \ spoilt : ~Minds(job[c], e)
  BY <1>1 DEF Minds
<1>3. CASE DeleteDocument(c, d)
  <2> DEFINE r == [Idle EXCEPT !.at = "drop", !.doc = d, !.admin = TRUE, !.permanent = TRUE]
  <2>1. r \in Jobs /\ r.at = "drop" /\ r.doc = d
    BY DEF Idle, Jobs
  <2>2. Do(c, r) /\ d \in docs
    BY <1>3 DEF DeleteDocument, Begin
  <2>3. QED BY <1>1, <1>2, <2>1, <2>2, JobKeeps DEF Named, TrashInv, TrashTypeOK
<1>4. ASSUME NEW i \in Items, Link(c, i, d) PROVE TrashInv'
  <2> DEFINE r == [Idle EXCEPT !.at = "link", !.item = i, !.doc = d]
  <2>1. r \in Jobs /\ r.at = "link" /\ r.item = i
    BY DEF Idle, Jobs
  <2>2. Do(c, r)
    BY <1>4 DEF Link, Begin
  <2>3. QED BY <1>1, <1>2, <2>1, <2>2, JobKeeps DEF Named, TrashInv, TrashTypeOK
<1>5. ASSUME NEW i \in Items, UnlinkDocument(c, i, d) PROVE TrashInv'
  <2>1. PICK admin \in BOOLEAN : Do(c, [Idle EXCEPT !.at = "unlink", !.item = i, !.doc = d, !.admin = admin,
                                                    !.shared = Holders(d) # {i}])
    BY <1>5 DEF UnlinkDocument, Begin
  <2> DEFINE r == [Idle EXCEPT !.at = "unlink", !.item = i, !.doc = d, !.admin = admin,
                               !.shared = Holders(d) # {i}]
  <2>2. r \in Jobs /\ r.at = "unlink" /\ r.doc = d
    BY DEF Idle, Jobs
  <2>3. QED BY <1>1, <1>2, <2>1, <2>2, JobKeeps DEF Named, TrashInv, TrashTypeOK
<1>6. QED BY <1>3, <1>4, <1>5

\* The file is written first: it is nobody's yet, and on the uploader's mind.
LEMMA UploadKeeps ==
  ASSUME TrashInv, NEW c \in Clients, NEW i \in Items, NEW d \in Documents, UploadDocument(c, i, d)
  PROVE  TrashInv'
<1> DEFINE r == [Idle EXCEPT !.at = "save", !.item = i, !.doc = d]
<1>1. r \in Jobs /\ r.at = "save" /\ r.item = i /\ r.doc = d
  BY DEF Idle, Jobs
<1>2. Do(c, r) /\ job[c].at = "idle" /\ d \notin used /\ used' = used \union {d} /\ files' = files \union {d}
      /\ UNCHANGED <<item, pictured, dirs, docs, links, spoilt, crossed>>
  BY DEF UploadDocument, Begin, At
<1>3. job' \in [Clients -> Jobs] /\ job'[c] = r /\ \A b \in Clients : b # c => job'[b] = job[b]
  BY <1>1, <1>2, JobStep DEF TrashInv
<1> HIDE DEF r
<1>4. TrashTypeOK'
  BY <1>2, <1>3 DEF TrashInv, TrashTypeOK, Jobs
<1>5. d \notin docs /\ \A b \in Clients : At(b, "save") => job[b].doc # d
  BY <1>2 DEF TrashInv, TrashTypeOK, Uploads
<1>6. Uploads' /\ Knows'
  <2>1. \A b \in Clients : job'[b].at = "save" =>
          b = c \/ (job[b].at = "save" /\ job'[b] = job[b] /\ job[b].doc # d /\ job[b].doc \in files \ docs
                     /\ job[b].item \in Items)
    BY <1>1, <1>3, <1>5 DEF TrashInv, Uploads, At
  <2>2. job'[c].doc \in files' \ docs' /\ job'[c].item \in Items /\ files \subseteq files'
    BY <1>1, <1>2, <1>3, <1>5
  <2>3. Uploads'
    <3>1. ASSUME NEW b \in Clients, job'[b].at = "save" PROVE job'[b].doc \in files' \ docs' /\ job'[b].item \in Items
      BY <1>2, <2>1, <2>2, <3>1
    <3>2. ASSUME NEW a \in Clients, NEW b \in Clients,
                 job'[a].at = "save", job'[b].at = "save", job'[a].doc = job'[b].doc
          PROVE  a = b
      <4>1. a # c /\ b # c => a = b
        BY <2>1, <3>2 DEF TrashInv, Uploads, At
      <4>2. a = c <=> b = c
        BY <2>1, <1>1, <1>3, <3>2
      <4>3. QED BY <4>1, <4>2
    <3>3. QED BY <3>1, <3>2 DEF Uploads, At
  <2>4. Knows'
    BY <1>1, <1>3 DEF TrashInv, Knows, Named, At
  <2>5. QED BY <2>3, <2>4
<1>7. Drops'
  <2>1. \A b \in Clients : job'[b].at \in {"drop", "files"} => b # c /\ job'[b] = job[b] /\ job[b].doc \in used
    BY <1>1, <1>3 DEF TrashInv, Drops
  <2>2. ASSUME NEW a \in Clients, NEW b \in Clients, job'[a].at = "save", job'[b].at \in {"drop", "files"}
        PROVE  job'[a].doc # job'[b].doc
    <3>1. CASE a = c
      <4>1. job'[a].doc \notin used
        BY <1>1, <1>2, <1>3, <3>1
      <4>2. QED BY <2>1, <2>2, <4>1
    <3>2. CASE a # c
      BY <1>3, <2>1, <2>2, <3>2 DEF TrashInv, Drops, At
    <3>3. QED BY <3>1, <3>2
  <2>3. QED BY <1>2, <2>1, <2>2 DEF TrashInv, Drops, At
<1>8. Lists' /\ RowHasFile'
  BY <1>1, <1>2, <1>3 DEF TrashInv, Lists, Held, RowHasFile
<1>9. Minded'
  <2>1. \A e \in docs \ spoilt : ~Minds(job[c], e)
    BY <1>2 DEF Minds
  <2>2. QED BY <1>2, <1>3, <2>1 DEF TrashInv, Minded, Holders
<1>10. Filed'
  <2>1. \A e : ~Files(job[c], e)
    BY <1>2 DEF Files
  <2>2. Files(job'[c], d)
    BY <1>1, <1>3 DEF Files
  <2>3. QED BY <1>2, <1>3, <2>1, <2>2 DEF TrashInv, Filed
<1>11. QED BY <1>4, <1>6, <1>7, <1>8, <1>9, <1>10 DEF TrashInv

-----------------------------------------------------------------------------
(* A purge.                                                                *)

LEMMA PurgeItemKeeps ==
  ASSUME TrashInv, NEW c \in Clients, NEW i \in Items, PurgeItem(c, i)
  PROVE  TrashInv'
<1> DEFINE r == [job[c] EXCEPT !.at = "dir", !.item = i, !.docs = Held(i)]
<1>1. job[c].at = "next" /\ Do(c, r) /\ UNCHANGED <<item, pictured, dirs, docs, files, links, used, spoilt, crossed>>
  BY DEF PurgeItem, At
<1>2. r \in Jobs /\ r.at = "dir" /\ r.item = i /\ r.docs = Held(i)
  BY JobsType DEF TrashInv, Jobs, Held
<1>3. \A d \in docs \ spoilt : ~Minds(job[c], d)
  BY <1>1 DEF Minds
<1>4. QED BY <1>1, <1>2, <1>3, JobKeeps DEF Named, TrashInv, TrashTypeOK

LEMMA PurgeGoesOn ==
  ASSUME TrashInv, NEW c \in Clients, PurgeRaises(c) \/ PurgeDir(c) \/ PurgeNext(c)
  PROVE  TrashInv'
<1>1. CASE PurgeRaises(c)
  <2>1. job[c].at = "next" /\ Do(c, Idle) /\ UNCHANGED <<item, pictured, dirs, docs, files, links, used, spoilt, crossed>>
    BY <1>1 DEF PurgeRaises, At
  <2>2. \A d \in docs \ spoilt : ~Minds(job[c], d)
    BY <2>1 DEF Minds
  <2>3. QED BY <2>1, <2>2, IdleIsJob, JobKeeps DEF Named, TrashInv, TrashTypeOK
<1>2. CASE PurgeDir(c)
  <2> DEFINE r == [job[c] EXCEPT !.at = "commit"]
  <2>1. job[c].at = "dir" /\ Do(c, r) /\ dirs' \subseteq dirs
        /\ UNCHANGED <<item, pictured, docs, files, links, used, spoilt, crossed>>
    BY <1>2 DEF PurgeDir, Goes, At
  <2>2. r \in Jobs /\ r.at = "commit" /\ r.item = job[c].item /\ r.docs = job[c].docs
    BY JobsType DEF TrashInv, Jobs
  <2>3. \A d \in docs \ spoilt : ~Minds(job[c], d)
    BY <2>1 DEF Minds
  <2>4. Held(r.item) \subseteq r.docs \union spoilt
    BY <2>1, <2>2 DEF TrashInv, Lists
  <2>5. Named(r)
    BY <2>1, <2>2 DEF TrashInv, Knows, Named
  <2>6. QED BY <2>1, <2>2, <2>3, <2>4, <2>5, JobKeeps DEF TrashInv, TrashTypeOK
<1>3. CASE PurgeNext(c)
  <2>1. job[c].at = "orphans" /\ job[c].docs = {}
        /\ UNCHANGED <<item, pictured, dirs, docs, files, links, used, spoilt, crossed>>
    BY <1>3 DEF PurgeNext, At
  <2>2. PICK r \in Jobs : Do(c, r) /\ r.at \in {"idle", "next"}
    <3> DEFINE n == [job[c] EXCEPT !.at = "next", !.todo = @ \ {job[c].item}]
    <3>1. n \in Jobs /\ n.at = "next"
      BY JobsType DEF TrashInv, Jobs
    <3>2. QED BY <1>3, <3>1, IdleIsJob DEF PurgeNext
  <2>3. \A d \in docs \ spoilt : ~Minds(job[c], d)
    BY <2>1 DEF Minds
  <2>4. QED BY <2>1, <2>2, <2>3, JobKeeps DEF Named, TrashInv, TrashTypeOK
<1>4. QED BY <1>1, <1>2, <1>3

\* The item's row goes with its links: what it held alone is on the purge's list.
LEMMA PurgeCommitKeeps ==
  ASSUME TrashInv, NEW c \in Clients, PurgeCommit(c)
  PROVE  TrashInv'
<1> DEFINE i == job[c].item
           r == [job[c] EXCEPT !.at = "orphans"]
<1>1. job[c].at = "commit" /\ Do(c, r) /\ item' = [item EXCEPT ![i] = "gone"] /\ pictured' = pictured \ {i}
      /\ links' = {l \in links : l[1] # i} /\ UNCHANGED <<dirs, docs, files, used, spoilt, crossed>>
  BY DEF PurgeCommit, Goes, At, LinksOf
<1>2. r \in Jobs /\ r.at = "orphans" /\ r.docs = job[c].docs
  BY JobsType DEF TrashInv, Jobs
<1>3. job' \in [Clients -> Jobs] /\ job'[c] = r /\ \A b \in Clients : b # c => job'[b] = job[b]
  BY <1>1, <1>2, JobStep DEF TrashInv
<1> HIDE DEF r
<1>4. TrashTypeOK'
  <2>1. item' \in [Items -> {"live", "trashed", "gone"}] /\ \A k \in Items : k # i => item'[k] = item[k]
    BY <1>1 DEF TrashInv, TrashTypeOK
  <2>2. links' \subseteq {k \in Items : item'[k] # "gone"} \X docs
    BY <1>1, <2>1 DEF TrashInv, TrashTypeOK
  <2>3. QED BY <1>1, <1>3, <2>1, <2>2 DEF TrashInv, TrashTypeOK, Jobs
<1>5. Uploads' /\ Knows' /\ Drops' /\ RowHasFile'
  <2>1. \A e \in docs' : e \in files'
    BY <1>1 DEF TrashInv, RowHasFile
  <2>2. \A e \in docs' : e \in files'
    BY <1>1, <2>1 DEF TrashInv, RowHasFile
  <2>3. QED BY <1>1, <1>2, <1>3, <2>1, <2>2, OthersKeep DEF Named
<1>6. Lists'
  BY <1>1, <1>2, <1>3 DEF TrashInv, Lists, Held
<1>7. Minded'
  <2> SUFFICES ASSUME NEW d \in docs \ spoilt, Holders(d)' = {} PROVE \E b \in Clients : Minds(job'[b], d)
    BY <1>1 DEF Minded
  <2>1. CASE Holders(d) = {}
    <3>1. PICK b \in Clients : Minds(job[b], d)
      BY <2>1 DEF TrashInv, Minded
    <3>2. b # c
      BY <1>1, <3>1 DEF Minds
    <3>3. QED BY <1>3, <3>1, <3>2
  <2>2. CASE Holders(d) # {}
    <3>1. PICK k \in Items : <<k, d>> \in links
      BY <2>2 DEF Holders
    <3>2. <<k, d>> \notin links'
      BY <3>1 DEF Holders
    <3>3. k = i
      BY <1>1, <3>1, <3>2
    <3>4. d \in Documents
      BY DEF TrashInv, TrashTypeOK
    <3>5. d \in job[c].docs
      BY <1>1, <3>1, <3>3, <3>4 DEF TrashInv, Lists, Held
    <3>6. QED BY <1>2, <1>3, <3>5 DEF Minds
  <2>3. QED BY <2>1, <2>2
<1>8. Filed'
  BY <1>1, <1>2, <1>3 DEF TrashInv, Filed, Files
<1>9. QED BY <1>4, <1>5, <1>6, <1>7, <1>8 DEF TrashInv

\* A document is let go of only when it has a holder, or no row.
LEMMA OrphanLookKeeps ==
  ASSUME TrashInv, NEW c \in Clients, NEW d \in Documents, OrphanLook(c, d)
  PROVE  TrashInv'
<1>1. job[c].at = "orphans" /\ d \in job[c].docs
      /\ UNCHANGED <<item, pictured, dirs, docs, files, links, used, spoilt, crossed>>
  BY DEF OrphanLook, At
<1>2. CASE d \in docs /\ Holders(d) = {}
  <2> DEFINE r == [job[c] EXCEPT !.at = "drop", !.doc = d]
  <2>1. r \in Jobs /\ r.at = "drop" /\ r.doc = d /\ r.docs = job[c].docs
    BY JobsType DEF TrashInv, Jobs
  <2>2. Do(c, r)
    BY <1>2 DEF OrphanLook
  <2>3. \A e \in docs \ spoilt : Minds(job[c], e) => Minds(r, e)
    BY <1>1, <2>1 DEF Minds
  <2>4. QED BY <1>1, <1>2, <2>1, <2>2, <2>3, JobKeeps DEF Named, TrashInv, TrashTypeOK
<1>3. CASE ~(d \in docs /\ Holders(d) = {})
  <2> DEFINE r == [job[c] EXCEPT !.docs = @ \ {d}]
  <2>1. r \in Jobs /\ r.at = "orphans" /\ r.docs = job[c].docs \ {d}
    BY <1>1, JobsType DEF TrashInv, Jobs
  <2>2. Do(c, r)
    BY <1>3 DEF OrphanLook
  <2>3. \A e \in docs \ spoilt : Holders(e) = {} /\ Minds(job[c], e) => Minds(r, e)
    BY <1>1, <1>3, <2>1 DEF Minds
  <2>4. QED BY <1>1, <2>1, <2>2, <2>3, JobKeeps DEF Named, TrashInv, TrashTypeOK
<1>4. QED BY <1>2, <1>3

\* The row goes; its file is next.
LEMMA DropRowKeeps ==
  ASSUME TrashInv, NEW c \in Clients, DropRow(c)
  PROVE  TrashInv'
<1> DEFINE d == job[c].doc
           r == [job[c] EXCEPT !.at = "files"]
<1>1. job[c].at = "drop" /\ Do(c, r) /\ docs' = docs \ {d} /\ links' = {l \in links : l[2] # d}
      /\ UNCHANGED <<item, pictured, dirs, files, used, spoilt, crossed>>
  BY DEF DropRow, Goes, At, LinksOf
<1>2. r \in Jobs /\ r.at = "files" /\ r.doc = d /\ r.docs = job[c].docs
  BY JobsType DEF TrashInv, Jobs
<1>3. job' \in [Clients -> Jobs] /\ job'[c] = r /\ \A b \in Clients : b # c => job'[b] = job[b]
  BY <1>1, <1>2, JobStep DEF TrashInv
<1> HIDE DEF r
<1>4. TrashTypeOK'
  BY <1>1, <1>3 DEF TrashInv, TrashTypeOK, Jobs
<1>5. Uploads' /\ Knows' /\ RowHasFile' /\ Drops'
  <2>1. d \in used /\ \A b \in Clients : At(b, "save") => job[b].doc # d
    BY <1>1 DEF TrashInv, Drops
  <2>2. \A e \in docs' : e \in files'
    BY <1>1 DEF TrashInv, RowHasFile
  <2>3. QED BY <1>1, <1>2, <1>3, <2>1, <2>2, OthersKeep DEF Named
<1>7. Lists'
  BY <1>1, <1>2, <1>3 DEF TrashInv, Lists, Held
<1>8. Minded'
  <2> SUFFICES ASSUME NEW e \in docs \ spoilt, e # d, Holders(e)' = {} PROVE \E b \in Clients : Minds(job'[b], e)
    BY <1>1 DEF Minded
  <2>1. Holders(e) = {}
    BY <1>1 DEF Holders
  <2>2. PICK b \in Clients : Minds(job[b], e)
    BY <2>1 DEF TrashInv, Minded
  <2>3. CASE b = c
    BY <1>1, <1>2, <1>3, <2>2, <2>3 DEF Minds
  <2>4. CASE b # c
    BY <1>3, <2>2, <2>4
  <2>5. QED BY <2>3, <2>4
<1>9. Filed'
  <2> SUFFICES ASSUME NEW e \in files \ (docs' \union spoilt) PROVE \E b \in Clients : Files(job'[b], e)
    BY <1>1 DEF Filed
  <2>1. CASE e = d
    BY <1>2, <1>3, <2>1 DEF Files
  <2>2. CASE e # d
    <3>1. PICK b \in Clients : Files(job[b], e)
      BY <1>1, <2>2 DEF TrashInv, Filed
    <3>2. b # c
      BY <1>1, <3>1 DEF Files
    <3>3. QED BY <1>3, <3>1, <3>2
  <2>3. QED BY <2>1, <2>2
<1>10. QED BY <1>4, <1>5, <1>7, <1>8, <1>9 DEF TrashInv

LEMMA DropFilesKeeps ==
  ASSUME TrashInv, NEW c \in Clients, DropFiles(c)
  PROVE  TrashInv'
<1> DEFINE d == job[c].doc
           r == [job[c] EXCEPT !.at = "orphans", !.docs = @ \ {job[c].doc}]
<1>1. job[c].at = "files" /\ Do(c, r) /\ files' = files \ {d}
      /\ UNCHANGED <<item, pictured, dirs, docs, links, used, spoilt, crossed>>
  BY DEF DropFiles, At
<1>2. r \in Jobs /\ r.at = "orphans" /\ r.docs = job[c].docs \ {d}
  BY JobsType DEF TrashInv, Jobs
<1>3. job' \in [Clients -> Jobs] /\ job'[c] = r /\ \A b \in Clients : b # c => job'[b] = job[b]
  BY <1>1, <1>2, JobStep DEF TrashInv
<1> HIDE DEF r
<1>4. TrashTypeOK'
  BY <1>1, <1>3 DEF TrashInv, TrashTypeOK, Jobs
<1>5. Uploads' /\ Knows' /\ Drops' /\ RowHasFile'
  <2>1. d \notin docs /\ \A b \in Clients : At(b, "save") => job[b].doc # d
    BY <1>1 DEF TrashInv, Drops, At
  <2>2. \A e \in docs' : e \in files'
    BY <1>1, <2>1 DEF TrashInv, RowHasFile
  <2>3. QED BY <1>1, <1>2, <1>3, <2>1, <2>2, OthersKeep DEF Named
<1>6. Lists'
  BY <1>1, <1>2, <1>3 DEF TrashInv, Lists, Held
<1>7. Minded'
  <2> SUFFICES ASSUME NEW e \in docs \ spoilt, Holders(e) = {} PROVE \E b \in Clients : Minds(job'[b], e)
    BY <1>1 DEF Minded, Holders
  <2>1. PICK b \in Clients : Minds(job[b], e)
    BY DEF TrashInv, Minded
  <2>2. CASE b = c
    BY <1>1, <1>2, <1>3, <2>1, <2>2 DEF Minds
  <2>3. CASE b # c
    BY <1>3, <2>1, <2>3
  <2>4. QED BY <2>2, <2>3
<1>8. Filed'
  <2> SUFFICES ASSUME NEW e \in files \ (docs \union spoilt), e # d PROVE \E b \in Clients : Files(job'[b], e)
    BY <1>1 DEF Filed
  <2>1. PICK b \in Clients : Files(job[b], e)
    BY DEF TrashInv, Filed
  <2>2. b # c
    BY <2>1 DEF Files
  <2>3. QED BY <1>3, <2>1, <2>2
<1>9. QED BY <1>4, <1>5, <1>6, <1>7, <1>8 DEF TrashInv

-----------------------------------------------------------------------------
(* Uploads, links and unlinks.                                             *)

\* A link more to an item: what its purge has not listed came too late.
LEMMA ListsStay ==
  ASSUME TrashInv, NEW c \in Clients, job'[c] = Idle, \A b \in Clients : b # c => job'[b] = job[b],
         job[c].item \in Items, links' = links \union {<<job[c].item, job[c].doc>>},
         spoilt' = spoilt \union TooLate(c)
  PROVE  Lists'
<1> SUFFICES ASSUME NEW b \in Clients, job'[b].at \in {"dir", "commit"}, NEW e \in Documents,
                    <<job'[b].item, e>> \in links'
             PROVE  e \in job'[b].docs \union spoilt'
  BY DEF Lists, Held
<1>1. b # c /\ job'[b] = job[b]
  BY IdleIsJob
<1>2. CASE <<job[b].item, e>> \in links
  BY <1>1, <1>2 DEF TrashInv, Lists, Held
<1>3. CASE <<job[b].item, e>> = <<job[c].item, job[c].doc>>
  <2>1. Listed(job[c].item) /\ e = job[c].doc
    BY <1>1, <1>3 DEF Listed
  <2>2. QED BY <2>1 DEF TooLate
<1>4. QED BY <1>1, <1>2, <1>3

\* The row comes with its link.
LEMMA UploadCommitKeeps ==
  ASSUME TrashInv, NEW c \in Clients, UploadCommit(c)
  PROVE  TrashInv'
<1> DEFINE d == job[c].doc
           i == job[c].item
<1>1. job[c].at = "save" /\ Do(c, Idle) /\ item[i] # "gone"
      /\ spoilt' = spoilt \union TooLate(c)
      /\ docs' = docs \union {d} /\ links' = links \union {<<i, d>>}
      /\ UNCHANGED <<item, pictured, dirs, files, used, crossed>>
  BY DEF UploadCommit, Spoils, At
<1>2. job' \in [Clients -> Jobs] /\ job'[c] = Idle /\ \A b \in Clients : b # c => job'[b] = job[b]
  BY <1>1, IdleIsJob, JobStep DEF TrashInv
<1>3. d \in files \ docs /\ i \in Items /\ \A b \in Clients : b # c /\ At(b, "save") => job[b].doc # d
  BY <1>1 DEF TrashInv, Uploads, At
<1>4. \A b \in Clients : job[b].at \in {"drop", "files"} => job[b].doc # d
  BY <1>1 DEF TrashInv, Drops, At
<1>5. TrashTypeOK'
  <2>1. links' \subseteq {k \in Items : item[k] # "gone"} \X docs'
    BY <1>1, <1>3 DEF TrashInv, TrashTypeOK
  <2>2. TooLate(c) \subseteq Documents
    BY <1>3 DEF TrashInv, TrashTypeOK, TooLate
  <2>3. QED BY <1>1, <1>2, <1>3, <2>1, <2>2 DEF TrashInv, TrashTypeOK, Jobs
<1>6. Uploads' /\ Knows' /\ Drops'
  BY <1>1, <1>2, <1>3, <1>4, IdleIsJob DEF TrashInv, Uploads, Knows, Named, Drops, At
<1>7. Lists'
  BY <1>1, <1>2, <1>3, ListsStay
<1>8. RowHasFile'
  BY <1>1, <1>3 DEF TrashInv, RowHasFile
<1>9. Minded'
  <2> SUFFICES ASSUME NEW e \in (docs \union {d}) \ spoilt, Holders(e)' = {} PROVE \E b \in Clients : Minds(job'[b], e)
    BY <1>1, Zenon DEF Minded
  <2>1. e # d
    BY <1>1, <1>3 DEF Holders
  <2>2. Holders(e) = {}
    BY <1>1 DEF Holders
  <2>3. PICK b \in Clients : Minds(job[b], e)
    BY <2>1, <2>2 DEF TrashInv, Minded
  <2>4. b # c
    BY <1>1, <2>3 DEF Minds
  <2>5. QED BY <1>2, <2>3, <2>4
<1>10. Filed'
  <2> SUFFICES ASSUME NEW e \in files \ (docs \union spoilt), e # d PROVE \E b \in Clients : Files(job'[b], e)
    BY <1>1 DEF Filed
  <2>1. PICK b \in Clients : Files(job[b], e)
    BY DEF TrashInv, Filed
  <2>2. b # c
    BY <2>1 DEF Files
  <2>3. QED BY <1>2, <2>1, <2>2
<1>11. QED BY <1>5, <1>6, <1>7, <1>8, <1>9, <1>10 DEF TrashInv

\* The file goes again: no row was written, and nobody else's is taken.
LEMMA UploadFailsKeeps ==
  ASSUME TrashInv, NEW c \in Clients, UploadFails(c)
  PROVE  TrashInv'
<1> DEFINE d == job[c].doc
<1>1. job[c].at = "save" /\ Do(c, Idle) /\ files' = files \ {d}
      /\ UNCHANGED <<item, pictured, dirs, docs, links, used, spoilt, crossed>>
  BY DEF UploadFails, At
<1>2. job' \in [Clients -> Jobs] /\ job'[c] = Idle /\ \A b \in Clients : b # c => job'[b] = job[b]
  BY <1>1, IdleIsJob, JobStep DEF TrashInv
<1>3. d \notin docs /\ \A b \in Clients : b # c /\ At(b, "save") => job[b].doc # d
  BY <1>1 DEF TrashInv, Uploads, At
<1>4. TrashTypeOK'
  BY <1>1, <1>2 DEF TrashInv, TrashTypeOK, Jobs
<1>5. Uploads' /\ Knows' /\ Drops' /\ RowHasFile'
  <2>1. \A e \in docs' : e \in files'
    BY <1>1, <1>3 DEF TrashInv, RowHasFile
  <2>2. \A b \in Clients : At(b, "save") /\ b # c => job[b].doc \notin files \ files'
    BY <1>1, <1>3
  <2>3. QED BY <1>1, <1>2, <2>1, <2>2, IdleIsJob, OthersKeep DEF Named
<1>6. Lists'
  BY <1>1, <1>2, IdleIsJob DEF TrashInv, Lists, Held
<1>7. Minded'
  <2>1. \A e : ~Minds(job[c], e)
    BY <1>1 DEF Minds
  <2>2. QED BY <1>1, <1>2, <2>1 DEF TrashInv, Minded, Holders
<1>8. Filed'
  <2> SUFFICES ASSUME NEW e \in files \ (docs \union spoilt), e # d PROVE \E b \in Clients : Files(job'[b], e)
    BY <1>1 DEF Filed
  <2>1. PICK b \in Clients : Files(job[b], e)
    BY DEF TrashInv, Filed
  <2>2. b # c
    BY <2>1 DEF Files
  <2>3. QED BY <1>2, <2>1, <2>2
<1>9. QED BY <1>4, <1>5, <1>6, <1>7, <1>8 DEF TrashInv

\* A link more.
LEMMA LinkCommitKeeps ==
  ASSUME TrashInv, NEW c \in Clients, LinkCommit(c)
  PROVE  TrashInv'
<1>1. job[c].at = "link" /\ Do(c, Idle) /\ UNCHANGED <<item, pictured, dirs, docs, files, used>>
  BY DEF LinkCommit, At
<1>2. \A e : ~Minds(job[c], e) /\ ~Files(job[c], e)
  BY <1>1 DEF Minds, Files
<1>3. CASE item[job[c].item] # "gone" /\ job[c].doc \in docs
  <2> DEFINE d == job[c].doc
             i == job[c].item
  <2>1. links' = links \union {<<i, d>>} /\ i \in Items /\ spoilt' = spoilt \union TooLate(c)
    BY <1>1, <1>3 DEF LinkCommit, Spoils, TrashInv, Knows, Named
  <2>c. crossed' \subseteq crossed \union {d} /\ TooLate(c) \subseteq {d} /\ d \in Documents
    BY <1>3 DEF LinkCommit, Crosses, TooLate, TrashInv, TrashTypeOK
  <2>2. job' \in [Clients -> Jobs] /\ job'[c] = Idle /\ \A b \in Clients : b # c => job'[b] = job[b]
    BY <1>1, IdleIsJob, JobStep DEF TrashInv
  <2>3. TrashTypeOK'
    <3>1. links' \subseteq {k \in Items : item[k] # "gone"} \X docs
      BY <1>3, <2>1 DEF TrashInv, TrashTypeOK
    <3>2. QED BY <1>1, <2>1, <2>2, <2>c, <3>1 DEF TrashInv, TrashTypeOK, Jobs
  <2>4. Uploads' /\ Knows' /\ Drops' /\ RowHasFile'
    <3>1. \A e \in docs' : e \in files'
      BY <1>1 DEF TrashInv, RowHasFile
    <3>2. QED BY <1>1, <2>2, <3>1, IdleIsJob, OthersKeep DEF Named
  <2>5. Lists'
    BY <2>1, <2>2, ListsStay
  <2>6. Minded'
    <3>1. \A e \in docs : Holders(e)' = {} => Holders(e) = {}
      BY <2>1 DEF Holders
    <3>2. QED BY <1>1, <1>2, <2>1, <2>2, <3>1 DEF TrashInv, Minded
  <2>7. Filed'
    BY <1>1, <1>2, <2>1, <2>2 DEF TrashInv, Filed
  <2>8. QED BY <2>3, <2>4, <2>5, <2>6, <2>7 DEF TrashInv
<1>4. CASE ~(item[job[c].item] # "gone" /\ job[c].doc \in docs)
  <2>1. UNCHANGED <<links, spoilt, crossed>>
    BY <1>4 DEF LinkCommit
  <2>2. QED BY <1>1, <1>2, <2>1, IdleIsJob, JobKeeps DEF Named, TrashInv, TrashTypeOK
<1>5. QED BY <1>3, <1>4

\* A link less: the document is counted again by the handler that took it.
LEMMA UnlinkCommitKeeps ==
  ASSUME TrashInv, NEW c \in Clients, UnlinkCommit(c)
  PROVE  TrashInv'
<1> DEFINE d == job[c].doc
           l == <<job[c].item, job[c].doc>>
           r == [job[c] EXCEPT !.at = "count"]
<1>1. job[c].at = "unlink" /\ UNCHANGED <<item, pictured, dirs, docs, files, used, spoilt, crossed>>
  BY DEF UnlinkCommit, At
<1>2. \A e : ~Minds(job[c], e) /\ ~Files(job[c], e)
  BY <1>1 DEF Minds, Files
<1>3. CASE l \in links
  <2>1. links' = links \ {l} /\ Do(c, r)
    BY <1>3 DEF UnlinkCommit, Goes
  <2>2. r \in Jobs /\ r.at = "count" /\ r.doc = d
    BY JobsType DEF TrashInv, Jobs
  <2>3. job' \in [Clients -> Jobs] /\ job'[c] = r /\ \A b \in Clients : b # c => job'[b] = job[b]
    BY <2>1, <2>2, JobStep DEF TrashInv
  <2> HIDE DEF r
  <2>4. TrashTypeOK'
    BY <1>1, <2>1, <2>3 DEF TrashInv, TrashTypeOK, Jobs
  <2>5. Uploads' /\ Knows' /\ Drops' /\ RowHasFile'
    <3>1. \A e \in docs' : e \in files'
      BY <1>1 DEF TrashInv, RowHasFile
    <3>2. Named(r)
      BY <1>1, <2>2 DEF TrashInv, Knows, Named
    <3>3. QED BY <1>1, <2>2, <2>3, <3>1, <3>2, OthersKeep
  <2>6. Lists'
    BY <1>1, <2>1, <2>2, <2>3 DEF TrashInv, Lists, Held
  <2>7. Minded'
    <3> SUFFICES ASSUME NEW e \in docs \ spoilt, Holders(e)' = {} PROVE \E b \in Clients : Minds(job'[b], e)
      BY <1>1 DEF Minded
    <3>1. CASE e = d
      BY <2>2, <2>3, <3>1 DEF Minds
    <3>2. CASE e # d
      <4>1. Holders(e) = {}
        BY <2>1, <3>2 DEF Holders
      <4>2. PICK b \in Clients : Minds(job[b], e)
        BY <4>1 DEF TrashInv, Minded
      <4>3. QED BY <1>2, <2>3, <4>2
    <3>3. QED BY <3>1, <3>2
  <2>8. Filed'
    BY <1>1, <1>2, <2>3 DEF TrashInv, Filed
  <2>9. QED BY <2>4, <2>5, <2>6, <2>7, <2>8 DEF TrashInv
<1>4. CASE l \notin links
  <2>1. links' = links /\ Do(c, Idle)
    BY <1>4 DEF UnlinkCommit
  <2>2. QED BY <1>1, <1>2, <2>1, IdleIsJob, JobKeeps DEF Named, TrashInv, TrashTypeOK
<1>5. QED BY <1>3, <1>4

\* With none left, the document is deleted.
LEMMA UnlinkCountKeeps ==
  ASSUME TrashInv, NEW c \in Clients, UnlinkCount(c)
  PROVE  TrashInv'
<1> DEFINE d == job[c].doc
           r == [job[c] EXCEPT !.at = "drop", !.item = "none"]
<1>1. job[c].at = "count" /\ UNCHANGED <<item, pictured, dirs, docs, files, links, used, spoilt, crossed>>
  BY DEF UnlinkCount, At
<1>2. \A e \in docs : Minds(job[c], e) => e = d
  BY <1>1 DEF Minds
<1>3. CASE Holders(d) = {} /\ d \in docs
  <2>1. Do(c, r)
    BY <1>3 DEF UnlinkCount
  <2>2. r \in Jobs /\ r.at = "drop" /\ r.doc = d
    BY JobsType DEF TrashInv, Jobs
  <2> HIDE DEF r
  <2>3. \A e \in docs \ spoilt : Minds(job[c], e) => Minds(r, e)
    BY <1>2, <2>2 DEF Minds
  <2>4. QED BY <1>1, <1>3, <2>1, <2>2, <2>3, JobKeeps DEF Named, TrashInv, TrashTypeOK
<1>4. CASE ~(Holders(d) = {} /\ d \in docs)
  <2>1. Do(c, Idle)
    BY <1>4 DEF UnlinkCount
  <2>2. \A e \in docs \ spoilt : Holders(e) = {} => ~Minds(job[c], e)
    BY <1>2, <1>4
  <2>3. QED BY <1>1, <2>1, <2>2, IdleIsJob, JobKeeps DEF Named, TrashInv, TrashTypeOK
<1>5. QED BY <1>3, <1>4

\* What a handler that is cut short had on its mind is what it leaves.
LEMMA CutShortKeeps ==
  ASSUME TrashInv, NEW c \in Clients, CutShort(c)
  PROVE  TrashInv'
<1>1. Do(c, Idle) /\ spoilt' = spoilt \union HalfDone(job[c])
      /\ UNCHANGED <<item, pictured, dirs, docs, files, links, used, crossed>>
  BY DEF CutShort, Spoils
<1>2. job' \in [Clients -> Jobs] /\ job'[c] = Idle /\ \A b \in Clients : b # c => job'[b] = job[b]
  BY <1>1, IdleIsJob, JobStep DEF TrashInv
<1>3. job[c] \in Jobs
  BY JobsType DEF TrashInv
<1>4. \A e : Minds(job[c], e) \/ Files(job[c], e) => e \in HalfDone(job[c])
  BY <1>3 DEF Minds, Files, HalfDone, Jobs
<1>5. TrashTypeOK'
  <2>1. HalfDone(job[c]) \subseteq Items \union Documents
    <3>1. job[c].docs \subseteq Documents
      BY <1>3 DEF Jobs
    <3>2. job[c].at = "commit" => job[c].item \in Items
      BY DEF TrashInv, Knows, Named
    <3>3. job[c].at \in {"drop", "files", "save", "count"} => job[c].doc \in Documents
      BY DEF TrashInv, TrashTypeOK, Uploads, Drops, Knows, Named, At
    <3>4. QED BY <3>1, <3>2, <3>3 DEF HalfDone
  <2>2. QED BY <1>1, <1>2, <2>1 DEF TrashInv, TrashTypeOK, Jobs
<1>6. Uploads' /\ Knows' /\ Drops' /\ RowHasFile'
  <2>1. \A e \in docs' : e \in files'
    BY <1>1 DEF TrashInv, RowHasFile
  <2>2. QED BY <1>1, <1>2, <2>1, IdleIsJob, OthersKeep DEF Named
<1>7. Lists'
  BY <1>1, <1>2, IdleIsJob DEF TrashInv, Lists, Held
<1>8. Minded'
  BY <1>1, <1>2, <1>4 DEF TrashInv, Minded, Holders
<1>9. Filed'
  BY <1>1, <1>2, <1>4 DEF TrashInv, Filed
<1>10. QED BY <1>5, <1>6, <1>7, <1>8, <1>9 DEF TrashInv

-----------------------------------------------------------------------------
LEMMA TrashStep ==
  ASSUME TrashInv, [TrashNext]_trash
  PROVE  TrashInv'
<1>1. CASE UNCHANGED trash
  BY <1>1 DEF trash, TrashInv, TrashTypeOK, Uploads, Knows, Drops, Lists, RowHasFile, Minded, Filed, At, Held, Holders
<1>2. ASSUME NEW i \in Items, MoveToTrash(i) \/ Restore(i) \/ AddPhoto(i)
      PROVE  TrashInv'
  BY <1>2, ItemKeeps
<1>3. ASSUME NEW c \in Clients, Asked(c)
      PROVE  TrashInv'
  BY <1>3, PurgeAsked, DocumentAsked, UploadKeeps DEF Asked
<1>4. ASSUME NEW c \in Clients, Step(c)
      PROVE  TrashInv'
  BY <1>4, PurgeItemKeeps, PurgeGoesOn, PurgeCommitKeeps, OrphanLookKeeps, DropRowKeeps, DropFilesKeeps,
     UploadCommitKeeps, UploadFailsKeeps, LinkCommitKeeps, UnlinkCommitKeeps, UnlinkCountKeeps DEF Step
<1>5. ASSUME NEW c \in Clients, CutShort(c)
      PROVE  TrashInv'
  BY <1>5, CutShortKeeps
<1>6. QED BY <1>1, <1>2, <1>3, <1>4, <1>5 DEF TrashNext

\* Every row, file and link without an owner is on some handler's mind.
THEOREM TrashInvHolds == TrashSpec => []TrashInv
<1>1. TrashInv /\ [TrashNext]_trash => TrashInv'
  BY TrashStep
<1>2. QED BY InitHolds, <1>1, PTL DEF TrashSpec

\* The rows, links and files are of the items and documents there are, and
\* every link is of an item that exists to a document that exists.
THEOREM TrashTypeHolds == TrashSpec => []TrashTypeOK
<1>1. TrashInv => TrashTypeOK
  BY DEF TrashInv
<1>2. QED BY <1>1, TrashInvHolds, PTL

\* A document row always has its file, however uploads, purges and deletions
\* are interleaved.
THEOREM RowsHaveFiles == TrashSpec => []RowHasFile
<1>1. TrashInv => RowHasFile
  BY DEF TrashInv
<1>2. QED BY <1>1, TrashInvHolds, PTL

\* "the file goes when no item holds it" (routers/documents.py): once the
\* handlers are done, no document is without a holder and no file without a
\* row, but those of a handler that was cut short.
THEOREM NothingStays == TrashSpec => []NothingLeftBehind
<1>1. TrashInv => NothingLeftBehind
  <2> SUFFICES ASSUME TrashInv, \A c \in Clients : At(c, "idle"), NEW d \in Documents \ spoilt
               PROVE  (d \in files <=> d \in docs) /\ (d \in docs => Holders(d) # {})
    BY DEF NothingLeftBehind
  <2>1. \A c \in Clients : ~Minds(job[c], d) /\ ~Files(job[c], d)
    BY DEF At, Minds, Files
  <2>2. d \in docs => d \in files
    BY DEF TrashInv, RowHasFile
  <2>3. d \in files => d \in docs
    BY <2>1 DEF TrashInv, Filed
  <2>4. d \in docs => Holders(d) # {}
    BY <2>1 DEF TrashInv, Minded
  <2>5. QED BY <2>2, <2>3, <2>4
<1>2. QED BY <1>1, TrashInvHolds, PTL

-----------------------------------------------------------------------------
(* What may be deleted, and by whom.                                         *)

\* Only the admin purges, and who unlinks, deletes or counts is the admin, or
\* had counted another holder.
Asks(j) ==
  /\ j.admin \/ (j.todo = {} /\ ~j.permanent)
  /\ j.at \in {"unlink", "count", "orphans", "drop", "files"} => j.shared \/ j.admin
  /\ j.at \in {"dir", "commit"} => j.item \in j.todo
Asking == \A c \in Clients : Asks(job[c])

\* What is to be purged is in the trash, or gone, unless it was asked for, or
\* taken out since.
Sparing == \A c \in Clients : job[c].permanent \/ \A i \in job[c].todo \ crossed : item[i] # "live"

\* A document being deleted has no holder, unless it is deleted outright, or
\* was linked since.
Letting ==
  \A c \in Clients : At(c, "drop") => Holders(job[c].doc) = {} \/ job[c].permanent \/ job[c].doc \in crossed

PurgeInv == Asking /\ Sparing /\ Letting /\ TrashedIsWhole

LEMMA InitPurge == TrashInit => PurgeInv
  BY DEF TrashInit, PurgeInv, Asking, Asks, Sparing, Letting, TrashedIsWhole, At, Idle

\* Items go to the trash and come back, and get photos.
LEMMA ItemSpares ==
  ASSUME TrashInv, PurgeInv, NEW i \in Items, MoveToTrash(i) \/ Restore(i) \/ AddPhoto(i)
  PROVE  PurgeInv'
<1>1. UNCHANGED <<links, job, spoilt>> /\ crossed \subseteq crossed'
  BY DEF MoveToTrash, Restore, Crosses, AddPhoto
<1>2. Asking' /\ Letting'
  BY <1>1 DEF PurgeInv, Asking, Letting, At, Holders
<1>3. Sparing'
  <2> SUFFICES ASSUME NEW c \in Clients, ~job[c].permanent, NEW k \in job[c].todo, k \notin crossed', item'[k] = "live"
               PROVE  FALSE
    BY <1>1 DEF Sparing
  <2>1. item[k] # "live" /\ k \in Items
    BY <1>1, JobsType DEF PurgeInv, Sparing, TrashInv, Jobs
  <2>2. Restore(i) /\ k = i
    BY <2>1 DEF MoveToTrash, Restore, AddPhoto, TrashInv, TrashTypeOK
  <2>3. QED BY <2>2 DEF Restore, Crosses
<1>4. TrashedIsWhole'
  BY <1>1 DEF PurgeInv, TrashedIsWhole, MoveToTrash, Restore, AddPhoto, At
<1>5. QED BY <1>2, <1>3, <1>4 DEF PurgeInv

\* A handler takes up other work, the items as they were.
LEMMA WorkSpares ==
  ASSUME TrashInv, PurgeInv, NEW c \in Clients, NEW r \in Jobs, Do(c, r), UNCHANGED <<item, pictured>>,
         spoilt \subseteq spoilt', crossed \subseteq crossed', dirs' = dirs,
         Asks(r),
         \/ r.todo \subseteq job[c].todo /\ r.permanent = job[c].permanent
         \/ r.permanent
         \/ \A i \in r.todo : item[i] # "live",
         r.at = "drop" => Holders(r.doc)' = {} \/ r.permanent,
         \A b \in Clients, d \in Documents :
           At(b, "drop") /\ job[b].doc = d /\ Holders(d) = {} => Holders(d)' = {} \/ d \in crossed',
         At(c, "commit") => job[c].item \in spoilt'
  PROVE  PurgeInv'
<1>1. job'[c] = r /\ \A b \in Clients : b # c => job'[b] = job[b]
  BY JobStep DEF TrashInv
<1>2. Asking'
  BY <1>1 DEF PurgeInv, Asking
<1>3. Sparing'
  BY <1>1 DEF PurgeInv, Sparing
<1>4. Letting'
  <2>1. \A b \in Clients : At(b, "drop") => job[b].doc \in Documents
    BY DEF TrashInv, Drops, TrashTypeOK, At
  <2>2. QED BY <1>1, <2>1 DEF PurgeInv, Letting, At, Holders
<1>5. TrashedIsWhole'
  BY <1>1 DEF PurgeInv, TrashedIsWhole, At
<1>6. QED BY <1>2, <1>3, <1>4, <1>5 DEF PurgeInv

\* New work: nothing of it is purged but from the trash, or as asked for.
Begins(r) ==
  /\ r \in Jobs /\ Asks(r) /\ (r.permanent \/ \A i \in r.todo : item[i] # "live")
  /\ r.at = "drop" => r.permanent

LEMMA AskedSpares ==
  ASSUME TrashInv, PurgeInv, NEW c \in Clients, Asked(c)
  PROVE  PurgeInv'
<1>1. job[c].at = "idle" /\ UNCHANGED <<item, pictured, dirs, links, spoilt, crossed>>
  BY DEF Asked, PurgeList, DeleteItem, DeleteDocument, UploadDocument, Link, UnlinkDocument, Begin, At
<1>2. \A d : Holders(d)' = Holders(d)
  BY <1>1 DEF Holders
<1>3. ASSUME NEW r, Begins(r), Do(c, r) PROVE PurgeInv'
  BY <1>1, <1>2, <1>3, WorkSpares DEF Begins, At
<1>4. ASSUME NEW S \in SUBSET Items, PurgeList(c, S) PROVE PurgeInv'
  <2> DEFINE r == [Idle EXCEPT !.at = "next", !.todo = S, !.admin = TRUE]
  <2>1. Do(c, r)
    BY <1>4 DEF PurgeList, Begin
  <2>2. \A i \in S : item[i] # "live"
    BY <1>4 DEF PurgeList
  <2>3. Begins(r)
    BY <2>2 DEF Begins, Idle, Jobs, Asks
  <2>4. QED BY <1>3, <2>1, <2>3
<1>5. ASSUME NEW i \in Items, DeleteItem(c, i) PROVE PurgeInv'
  <2>1. PICK permanent \in BOOLEAN :
          /\ permanent \/ item[i] = "trashed"
          /\ Begin(c, [Idle EXCEPT !.at = "next", !.todo = {i}, !.admin = TRUE, !.permanent = permanent])
    BY <1>5 DEF DeleteItem
  <2> DEFINE r == [Idle EXCEPT !.at = "next", !.todo = {i}, !.admin = TRUE, !.permanent = permanent]
  <2>2. Begins(r)
    BY <2>1 DEF Begins, Idle, Jobs, Asks
  <2>3. QED BY <1>3, <2>1, <2>2 DEF Begin
<1>6. ASSUME NEW d \in Documents, DeleteDocument(c, d) PROVE PurgeInv'
  <2> DEFINE r == [Idle EXCEPT !.at = "drop", !.doc = d, !.admin = TRUE, !.permanent = TRUE]
  <2>1. Begins(r)
    BY DEF Begins, Idle, Jobs, Asks
  <2>2. QED BY <1>3, <1>6, <2>1 DEF DeleteDocument, Begin
<1>7. ASSUME NEW i \in Items, NEW d \in Documents, UploadDocument(c, i, d) PROVE PurgeInv'
  <2> DEFINE r == [Idle EXCEPT !.at = "save", !.item = i, !.doc = d]
  <2>1. Begins(r)
    BY DEF Begins, Idle, Jobs, Asks
  <2>2. QED BY <1>3, <1>7, <2>1 DEF UploadDocument, Begin
<1>8. ASSUME NEW i \in Items, NEW d \in Documents, Link(c, i, d) PROVE PurgeInv'
  <2> DEFINE r == [Idle EXCEPT !.at = "link", !.item = i, !.doc = d]
  <2>1. Begins(r)
    BY DEF Begins, Idle, Jobs, Asks
  <2>2. QED BY <1>3, <1>8, <2>1 DEF Link, Begin
<1>9. ASSUME NEW i \in Items, NEW d \in Documents, UnlinkDocument(c, i, d) PROVE PurgeInv'
  <2>1. PICK admin \in BOOLEAN :
          /\ Cardinality(Holders(d)) <= 1 => admin
          /\ Begin(c, [Idle EXCEPT !.at = "unlink", !.item = i, !.doc = d, !.admin = admin,
                                  !.shared = Holders(d) # {i}])
    BY <1>9 DEF UnlinkDocument
  <2>2. Holders(d) # {i} \/ admin
    BY <2>1, FS_Singleton
  <2>3. PICK shared \in BOOLEAN : shared = (Holders(d) # {i})
    OBVIOUS
  <2> DEFINE r == [Idle EXCEPT !.at = "unlink", !.item = i, !.doc = d, !.admin = admin, !.shared = shared]
  <2>4. Begins(r)
    BY <2>2, <2>3 DEF Begins, Idle, Jobs, Asks
  <2>5. QED BY <1>3, <2>1, <2>3, <2>4 DEF Begin
<1>10. QED BY <1>4, <1>5, <1>6, <1>7, <1>8, <1>9 DEF Asked

\* The work there was, or the rest of it.
GoesOn(c, r) ==
  /\ r \in Jobs /\ Asks(r) /\ r.todo \subseteq job[c].todo
  /\ r.permanent = job[c].permanent \/ r.todo = {}
  /\ r.at = "drop" => Holders(r.doc) = {}

\* Nothing is left to do.
LEMMA IdleGoesOn ==
  ASSUME NEW c PROVE GoesOn(c, Idle)
  BY DEF GoesOn, Idle, Jobs, Asks

LEMMA RestSpares ==
  ASSUME TrashInv, PurgeInv, NEW c \in Clients, NEW r, GoesOn(c, r), Do(c, r), UNCHANGED <<item, pictured, dirs>>,
         links' \subseteq links, spoilt \subseteq spoilt', crossed \subseteq crossed', At(c, "commit") => job[c].item \in spoilt'
  PROVE  PurgeInv'
<1>1. \A d : Holders(d) = {} => Holders(d)' = {}
  BY DEF Holders
<1>2. QED BY <1>1, WorkSpares DEF GoesOn

\* Going on with a purge, or with the deletion of a document.
LEMMA RestOfPurge ==
  ASSUME TrashInv, PurgeInv, NEW c \in Clients,
         (\E i \in Items : PurgeItem(c, i)) \/ PurgeRaises(c) \/ (\E d \in Documents : OrphanLook(c, d))
           \/ PurgeNext(c) \/ DropFiles(c) \/ UploadFails(c) \/ UnlinkCount(c) \/ CutShort(c)
           \/ DropRow(c) \/ UnlinkCommit(c)
  PROVE  PurgeInv'
<1>1. UNCHANGED <<item, pictured, dirs>> /\ links' \subseteq links /\ spoilt \subseteq spoilt' /\ crossed \subseteq crossed'
  BY DEF PurgeItem, PurgeRaises, OrphanLook, PurgeNext, DropFiles, UploadFails, UnlinkCount, CutShort, Spoils,
         DropRow, UnlinkCommit
<1>2. At(c, "commit") => job[c].item \in spoilt'
  BY DEF PurgeItem, PurgeRaises, OrphanLook, PurgeNext, DropFiles, UploadFails, UnlinkCount, CutShort,
         DropRow, UnlinkCommit, Spoils, HalfDone, At
<1>3. ASSUME NEW r, GoesOn(c, r), Do(c, r) PROVE PurgeInv'
  BY <1>1, <1>2, <1>3, RestSpares
<1> DEFINE j == job[c]
<1>4. j \in Jobs /\ Asks(j)
  BY JobsType DEF TrashInv, PurgeInv, Asking
<1>5. CASE Do(c, Idle)
  BY <1>3, <1>5, IdleGoesOn
<1>6. ASSUME NEW i \in Items, PurgeItem(c, i) PROVE PurgeInv'
  <2> DEFINE r == [j EXCEPT !.at = "dir", !.item = i, !.docs = Held(i)]
  <2>1. GoesOn(c, r)
    BY <1>4, <1>6 DEF GoesOn, PurgeItem, Held, Jobs, Asks
  <2>2. QED BY <1>3, <1>6, <2>1 DEF PurgeItem
<1>7. ASSUME NEW d \in Documents, OrphanLook(c, d) PROVE PurgeInv'
  <2>1. CASE Holders(d) = {} /\ d \in docs
    <3> DEFINE r == [j EXCEPT !.at = "drop", !.doc = d]
    <3>1. GoesOn(c, r)
      BY <1>4, <1>7, <2>1 DEF GoesOn, Jobs, Asks, OrphanLook, At
    <3>2. QED BY <1>3, <1>7, <2>1, <3>1 DEF OrphanLook
  <2>2. CASE ~(Holders(d) = {} /\ d \in docs)
    <3> DEFINE r == [j EXCEPT !.docs = @ \ {d}]
    <3>1. GoesOn(c, r)
      BY <1>4, <1>7 DEF GoesOn, OrphanLook, At, Jobs, Asks
    <3>2. QED BY <1>3, <1>7, <2>2, <3>1 DEF OrphanLook
  <2>3. QED BY <2>1, <2>2
<1>8. CASE PurgeNext(c)
  <2> DEFINE r == [j EXCEPT !.at = "next", !.todo = @ \ {j.item}]
  <2>1. GoesOn(c, r)
    BY <1>4 DEF GoesOn, Jobs, Asks
  <2>2. QED BY <1>3, <1>5, <1>8, <2>1 DEF PurgeNext
<1>9. CASE DropFiles(c)
  <2> DEFINE r == [j EXCEPT !.at = "orphans", !.docs = @ \ {j.doc}]
  <2>1. GoesOn(c, r)
    BY <1>4, <1>9 DEF GoesOn, Jobs, Asks, DropFiles, At
  <2>2. QED BY <1>3, <1>9, <2>1 DEF DropFiles
<1>10. CASE UnlinkCount(c)
  <2> DEFINE r == [j EXCEPT !.at = "drop", !.item = "none"]
  <2>1. Holders(j.doc) = {} => GoesOn(c, r)
    BY <1>4, <1>10 DEF GoesOn, Jobs, Asks, UnlinkCount, At
  <2>2. QED BY <1>3, <1>5, <1>10, <2>1 DEF UnlinkCount
<1>11. CASE DropRow(c)
  <2> DEFINE r == [j EXCEPT !.at = "files"]
  <2>1. GoesOn(c, r)
    BY <1>4, <1>11 DEF GoesOn, Jobs, Asks, DropRow, At
  <2>2. QED BY <1>3, <1>11, <2>1 DEF DropRow, Goes
<1>12. CASE UnlinkCommit(c)
  <2> DEFINE r == [j EXCEPT !.at = "count"]
  <2>1. GoesOn(c, r)
    BY <1>4, <1>12 DEF GoesOn, Jobs, Asks, UnlinkCommit, At
  <2>2. QED BY <1>3, <1>5, <1>12, <2>1 DEF UnlinkCommit, Goes
<1>13. QED BY <1>5, <1>6, <1>7, <1>8, <1>9, <1>10, <1>11, <1>12 DEF PurgeRaises, UploadFails, CutShort

\* The photo directory, and then the row.
LEMMA PurgeDirSpares ==
  ASSUME TrashInv, PurgeInv, NEW c \in Clients, PurgeDir(c)
  PROVE  PurgeInv'
<1>1. job[c].at = "dir" /\ dirs' = dirs \ {job[c].item} /\ UNCHANGED <<item, pictured, links, spoilt, crossed>>
  BY DEF PurgeDir, At
<1>2. job' \in [Clients -> Jobs] /\ job'[c] = [job[c] EXCEPT !.at = "commit"] /\ \A b \in Clients : b # c => job'[b] = job[b]
  BY JobsType DEF PurgeDir, Goes, Do, TrashInv, Jobs
<1>3. job[c] \in Jobs
  BY JobsType DEF TrashInv
<1>4. /\ job'[c].at = "commit" /\ job'[c].item = job[c].item /\ job'[c].todo = job[c].todo
      /\ job'[c].admin = job[c].admin /\ job'[c].permanent = job[c].permanent
  BY <1>2, <1>3 DEF Jobs
<1>5. Asking' /\ Sparing'
  <2>1. Asking'
    BY <1>1, <1>2, <1>4 DEF PurgeInv, Asking, Asks
  <2>2. \A b \in Clients : job'[b].todo = job[b].todo /\ job'[b].permanent = job[b].permanent
    BY <1>2, <1>4
  <2>3. Sparing'
    BY <1>1, <2>2 DEF PurgeInv, Sparing
  <2>4. QED BY <2>1, <2>3
<1>6. Letting'
  <2>1. \A b \in Clients : At(b, "drop")' => job'[b] = job[b]
    BY <1>2, <1>4 DEF At
  <2>2. \A d : Holders(d)' = Holders(d)
    BY <1>1 DEF Holders
  <2>3. QED BY <1>1, <2>1, <2>2 DEF PurgeInv, Letting, At
<1>7. TrashedIsWhole'
  <2>1. SUFFICES ASSUME NEW i \in pictured \ spoilt, i \notin dirs'
                 PROVE  \E b \in Clients : job'[b].at = "commit" /\ job'[b].item = i
    BY <1>1 DEF TrashedIsWhole, At
  <2>2. CASE i = job[c].item
    BY <1>4, <2>2
  <2>3. CASE i # job[c].item
    <3>1. PICK b \in Clients : job[b].at = "commit" /\ job[b].item = i
      BY <1>1, <2>1, <2>3 DEF PurgeInv, TrashedIsWhole, At
    <3>2. b # c
      BY <1>1, <3>1
    <3>3. QED BY <1>2, <3>1, <3>2
  <2>4. QED BY <2>2, <2>3
<1>8. QED BY <1>5, <1>6, <1>7 DEF PurgeInv

LEMMA PurgeCommitSpares ==
  ASSUME TrashInv, PurgeInv, NEW c \in Clients, PurgeCommit(c)
  PROVE  PurgeInv'
<1>1. /\ job[c].at = "commit" /\ item' = [item EXCEPT ![job[c].item] = "gone"] /\ pictured' = pictured \ {job[c].item}
      /\ links' \subseteq links /\ UNCHANGED <<dirs, spoilt, crossed>>
  BY DEF PurgeCommit, At
<1>2. job' \in [Clients -> Jobs] /\ job'[c] = [job[c] EXCEPT !.at = "orphans"] /\ \A b \in Clients : b # c => job'[b] = job[b]
  BY JobsType DEF PurgeCommit, Goes, Do, TrashInv, Jobs
<1>3. job[c] \in Jobs
  BY JobsType DEF TrashInv
<1>4. /\ job'[c].at = "orphans" /\ job'[c].todo = job[c].todo
      /\ job'[c].admin = job[c].admin /\ job'[c].permanent = job[c].permanent
  BY <1>2, <1>3 DEF Jobs
<1>5. Asking'
  BY <1>1, <1>2, <1>4 DEF PurgeInv, Asking, Asks
<1>6. \A i \in Items : item'[i] = item[i] \/ item'[i] = "gone"
  BY <1>1 DEF TrashInv, TrashTypeOK
<1>7. Sparing'
  <2>1. \A b \in Clients : job'[b].todo = job[b].todo /\ job'[b].permanent = job[b].permanent /\ job[b].todo \subseteq Items
    BY <1>2, <1>4, JobsType DEF TrashInv, Jobs
  <2>2. QED BY <1>1, <1>6, <2>1 DEF PurgeInv, Sparing
<1>8. Letting'
  BY <1>1, <1>2, <1>4 DEF PurgeInv, Letting, At, Holders
<1>9. TrashedIsWhole'
  BY <1>1, <1>2, <1>4 DEF PurgeInv, TrashedIsWhole, At
<1>10. QED BY <1>5, <1>7, <1>8, <1>9 DEF PurgeInv

\* A link to a document that is being deleted crosses its deletion.
LEMMA LinksCome ==
  ASSUME TrashInv, PurgeInv, NEW c \in Clients, UploadCommit(c) \/ LinkCommit(c)
  PROVE  PurgeInv'
<1>1. /\ UNCHANGED <<item, pictured, dirs>> /\ Do(c, Idle) /\ ~At(c, "commit")
      /\ spoilt \subseteq spoilt' /\ crossed \subseteq crossed'
  BY DEF UploadCommit, LinkCommit, Spoils, Crosses, At
<1>2. Idle \in Jobs /\ Asks(Idle) /\ Idle.todo = {} /\ Idle.at = "idle"
  BY DEF Idle, Jobs, Asks
<1>3. ASSUME NEW b \in Clients, NEW d \in Documents, At(b, "drop"), job[b].doc = d
      PROVE  Holders(d)' = Holders(d) \/ d \in crossed'
  <2> SUFFICES ASSUME d \notin crossed' PROVE Holders(d)' = Holders(d)
    OBVIOUS
  <2>1. \A i \in Items : <<i, d>> \in links' <=> <<i, d>> \in links
    <3>1. CASE UploadCommit(c)
      BY <1>3, <3>1 DEF UploadCommit, TrashInv, Drops, At
    <3>2. CASE LinkCommit(c)
      <4>1. Dropping(d)
        BY <1>3 DEF Dropping
      <4>2. QED BY <3>2, <4>1 DEF LinkCommit, Crosses
    <3>3. QED BY <3>1, <3>2
  <2>2. QED BY <2>1 DEF Holders
<1>4. QED BY <1>1, <1>2, <1>3, WorkSpares

LEMMA PurgeStep ==
  ASSUME TrashInv, PurgeInv, [TrashNext]_trash
  PROVE  PurgeInv'
<1>1. CASE UNCHANGED trash
  BY <1>1 DEF trash, PurgeInv, Asking, Sparing, Letting, TrashedIsWhole, At, Holders
<1>2. ASSUME NEW i \in Items, MoveToTrash(i) \/ Restore(i) \/ AddPhoto(i) PROVE PurgeInv'
  BY <1>2, ItemSpares
<1>3. ASSUME NEW c \in Clients, Asked(c) PROVE PurgeInv'
  BY <1>3, AskedSpares
<1>4. ASSUME NEW c \in Clients, Step(c) \/ CutShort(c) PROVE PurgeInv'
  BY <1>4, RestOfPurge, PurgeDirSpares, PurgeCommitSpares, LinksCome DEF Step
<1>5. QED BY <1>1, <1>2, <1>3, <1>4 DEF TrashNext

THEOREM PurgeInvHolds == TrashSpec => []PurgeInv
<1>1. TrashInv /\ PurgeInv /\ [TrashNext]_trash => PurgeInv'
  BY PurgeStep
<1>2. QED BY InitPurge, <1>1, TrashInvHolds, PTL DEF TrashSpec

\* Only three steps take an item, a document or a link away.
LEMMA Removals ==
  ASSUME TrashInv, TrashNext
  PROVE  \/ docs \subseteq docs' /\ links \subseteq links' /\ \A i \in Items : item[i] = "live" => item'[i] # "gone"
         \/ \E c \in Clients : PurgeCommit(c) \/ DropRow(c) \/ UnlinkCommit(c)
<1>1. ASSUME NEW i \in Items, MoveToTrash(i) \/ Restore(i) \/ AddPhoto(i)
      PROVE  docs' = docs /\ links' = links /\ \A k \in Items : item[k] = "live" => item'[k] # "gone"
  BY <1>1 DEF MoveToTrash, Restore, AddPhoto, TrashInv, TrashTypeOK
<1>2. ASSUME NEW c \in Clients, Asked(c) PROVE UNCHANGED <<docs, links, item>>
  BY <1>2 DEF Asked, PurgeList, DeleteItem, DeleteDocument, UploadDocument, Link, UnlinkDocument
<1>3. ASSUME NEW c \in Clients, CutShort(c) PROVE UNCHANGED <<docs, links, item>>
  BY <1>3 DEF CutShort
<1>4. ASSUME NEW c \in Clients, Step(c), ~(PurgeCommit(c) \/ DropRow(c) \/ UnlinkCommit(c))
      PROVE  docs \subseteq docs' /\ links \subseteq links' /\ item' = item
  <2>1. CASE UploadCommit(c) \/ LinkCommit(c) \/ UploadFails(c) \/ UnlinkCount(c) \/ DropFiles(c)
    BY <2>1 DEF UploadCommit, LinkCommit, UploadFails, UnlinkCount, DropFiles
  <2>2. CASE PurgeRaises(c) \/ PurgeDir(c) \/ PurgeNext(c)
    BY <2>2 DEF PurgeRaises, PurgeDir, PurgeNext
  <2>3. ASSUME NEW i \in Items, PurgeItem(c, i) PROVE UNCHANGED <<docs, links, item>>
    BY <2>3 DEF PurgeItem
  <2>4. ASSUME NEW d \in Documents, OrphanLook(c, d) PROVE UNCHANGED <<docs, links, item>>
    BY <2>4 DEF OrphanLook
  <2>5. QED BY <1>4, <2>1, <2>2, <2>3, <2>4 DEF Step
<1>5. QED BY <1>1, <1>2, <1>3, <1>4 DEF TrashNext, TrashInv, TrashTypeOK

\* An item in the trash has its photos to come out with, for as long as it is
\* there and no purge of it is under way (routers/items.py).
THEOREM TrashStaysWhole == TrashSpec => []TrashedIsWhole
<1>1. PurgeInv => TrashedIsWhole
  BY DEF PurgeInv
<1>2. QED BY <1>1, PurgeInvHolds, PTL

\* A document that an item holds, trashed items included, is deleted outright,
\* or because a link crossed its deletion (routers/documents.py); a purge, an
\* unlink and a deletion that nothing crosses take none.
THEOREM HeldDocumentsStay == TrashSpec => HeldIsKept
<1>1. ASSUME TrashInv, PurgeInv, TrashNext, NEW d \in docs \ docs'
      PROVE  \/ Holders(d) = {} \/ d \in crossed
             \/ \E c \in Clients : At(c, "drop") /\ job[c].doc = d /\ job[c].permanent
  <2>1. PICK c \in Clients : DropRow(c)
    BY <1>1, Removals DEF PurgeCommit, UnlinkCommit
  <2>2. At(c, "drop") /\ job[c].doc = d
    BY <1>1, <2>1 DEF DropRow
  <2>3. QED BY <1>1, <2>2 DEF PurgeInv, Letting
<1>2. TrashInv /\ PurgeInv /\ [TrashNext]_trash =>
        [\A d \in docs \ docs' :
           \/ Holders(d) = {} \/ d \in crossed
           \/ \E c \in Clients : At(c, "drop") /\ job[c].doc = d /\ job[c].permanent]_trash
  BY <1>1
<1>3. QED BY <1>2, TrashInvHolds, PurgeInvHolds, PTL DEF TrashSpec, HeldIsKept

\* A live item is purged only where that was asked for, or where it was taken
\* out of the trash while a purge had it in its list (services/trash.py).
THEOREM TrashIsPurged == TrashSpec => OnlyTrashIsPurged
<1>1. ASSUME TrashInv, PurgeInv, TrashNext, NEW i \in Items, item[i] = "live", item'[i] = "gone"
      PROVE  i \in crossed \/ \E c \in Clients : At(c, "commit") /\ job[c].item = i /\ job[c].permanent
  <2>1. PICK c \in Clients : PurgeCommit(c)
    BY <1>1, Removals DEF DropRow, UnlinkCommit
  <2>2. At(c, "commit") /\ job[c].item = i
    BY <1>1, <2>1 DEF PurgeCommit, TrashInv, TrashTypeOK
  <2>3. i \in job[c].todo
    BY <1>1, <2>2 DEF PurgeInv, Asking, Asks, At
  <2>4. QED BY <1>1, <2>2, <2>3 DEF PurgeInv, Sparing
<1>2. TrashInv /\ PurgeInv /\ [TrashNext]_trash =>
        [\A i \in Items : item[i] = "live" /\ item'[i] = "gone" =>
           i \in crossed \/ \E c \in Clients : At(c, "commit") /\ job[c].item = i /\ job[c].permanent]_trash
  BY <1>1
<1>3. QED BY <1>2, TrashInvHolds, PurgeInvHolds, PTL DEF TrashSpec, OnlyTrashIsPurged

\* A document's last link is removed by the admin, or by a request that had
\* counted another holder (routers/documents.py), however purges, unlinks and
\* deletions overtake one another.
THEOREM LastLinkIsAdmins == TrashSpec => AdminEndsDocuments
<1>1. ASSUME TrashInv, PurgeInv, TrashNext, NEW d \in docs, Holders(d) # {}, Holders(d)' = {}
      PROVE  \E c \in Clients : job'[c] # job[c] /\ (job[c].admin \/ (job[c].doc = d /\ job[c].shared))
  <2>1. PICK k \in Items : <<k, d>> \in links
    BY <1>1 DEF Holders
  <2>2. <<k, d>> \notin links'
    BY <1>1 DEF Holders
  <2>3. PICK c \in Clients : PurgeCommit(c) \/ DropRow(c) \/ UnlinkCommit(c)
    BY <1>1, <2>1, <2>2, Removals
  <2>4. job \in [Clients -> Jobs] /\ Asks(job[c])
    BY <1>1, JobsType DEF TrashInv, PurgeInv, Asking
  <2>5. CASE PurgeCommit(c)
    <3>1. job[c].admin
      BY <2>4, <2>5 DEF PurgeCommit, At, Asks
    <3>2. job'[c].at = "orphans" /\ job[c].at = "commit"
      BY <2>4, <2>5 DEF PurgeCommit, At, Goes, Do, Jobs
    <3>3. QED BY <3>1, <3>2
  <2>6. CASE DropRow(c)
    <3>1. job[c].doc = d
      BY <2>1, <2>2, <2>6 DEF DropRow, LinksOf
    <3>2. job[c].admin \/ job[c].shared
      BY <2>4, <2>6 DEF DropRow, Asks, At
    <3>3. job'[c].at = "files" /\ job[c].at = "drop"
      BY <2>4, <2>6 DEF DropRow, At, Goes, Do, Jobs
    <3>4. QED BY <3>1, <3>2, <3>3
  <2>7. CASE UnlinkCommit(c)
    <3>1. <<job[c].item, job[c].doc>> = <<k, d>> /\ links' = links \ {<<k, d>>}
      BY <2>1, <2>2, <2>7 DEF UnlinkCommit
    <3>2. job[c].item = k /\ job[c].doc = d
      BY <3>1
    <3>3. job[c].admin \/ job[c].shared
      BY <2>4, <2>7 DEF UnlinkCommit, Asks, At
    <3>4. job'[c].at = "count" /\ job[c].at = "unlink"
      BY <2>1, <2>4, <2>7, <3>2 DEF UnlinkCommit, At, Goes, Do, Jobs
    <3>5. QED BY <3>2, <3>3, <3>4
  <2>8. QED BY <2>3, <2>5, <2>6, <2>7
<1>2. TrashInv /\ PurgeInv /\ [TrashNext]_trash =>
        [\A d \in docs : Holders(d) # {} /\ Holders(d)' = {} => 
           \E c \in Clients : job'[c] # job[c] /\ (job[c].admin \/ (job[c].doc = d /\ job[c].shared))]_trash
  BY <1>1
<1>3. QED BY <1>2, TrashInvHolds, PurgeInvHolds, PTL DEF TrashSpec, AdminEndsDocuments
=============================================================================
