------------------------------- MODULE Trash --------------------------------
(***************************************************************************)
(* Items, the trash, and the documents items hold (services/trash.py,      *)
(* routers/trash.py, routers/documents.py, and delete and restore of       *)
(* routers/items.py).  Rows change in transactions; files do not, and a    *)
(* handler goes from one to the other in several steps, each one the other *)
(* handlers (worker threads, and the hourly purge) can come between.       *)
(***************************************************************************)
EXTENDS Naturals, FiniteSets

CONSTANTS
  Items, Documents,
  Clients,    \* handlers at work at one time
  MaxMess     \* bound: with that many rows left half done or crossed, none is crossed any more

ASSUME TrashAssumption == "none" \notin Items \union Documents /\ MaxMess \in Nat

VARIABLES
  item,      \* the row of each item
  pictured,    \* the items with photo rows
  dirs,      \* the items with a photo directory
  docs,      \* the document rows
  files,     \* the documents whose file is on the volume
  links,     \* item_documents
  used,      \* document ids ever given out
  job,       \* what each handler is at
  spoilt,    \* what handlers left half done: cut short, or overtaken by an upload or a link
  crossed    \* items restored while a purge had them in its list, documents
             \* linked between the count of their links and their deletion

trash == <<item, pictured, dirs, docs, files, links, used, job, spoilt, crossed>>

Idle == [at |-> "idle", item |-> "none", doc |-> "none", docs |-> {}, todo |-> {},
         admin |-> FALSE, permanent |-> FALSE, shared |-> FALSE]

TrashTypeOK ==
  /\ item \in [Items -> {"live", "trashed", "gone"}]
  /\ pictured \subseteq Items /\ dirs \subseteq Items
  /\ docs \subseteq used /\ files \subseteq used /\ used \subseteq Documents
  /\ links \subseteq {i \in Items : item[i] # "gone"} \X docs
  /\ job \in [Clients ->
       [at : {"idle", "next", "dir", "commit", "orphans", "drop", "files", "unlink", "count", "save", "link"},
        item : Items \union {"none"}, doc : Documents \union {"none"},
        docs : SUBSET Documents, todo : SUBSET Items, admin : BOOLEAN, permanent : BOOLEAN, shared : BOOLEAN]]
  /\ spoilt \subseteq Items \union Documents /\ crossed \subseteq Items \union Documents

TrashInit ==
  /\ item = [i \in Items |-> "live"]
  /\ pictured = {} /\ dirs = {} /\ docs = {} /\ files = {} /\ links = {} /\ used = {}
  /\ job = [c \in Clients |-> Idle] /\ spoilt = {} /\ crossed = {}

Holders(d) == {i \in Items : <<i, d>> \in links}
Held(i) == {d \in Documents : <<i, d>> \in links}
Listed(i) == \E c \in Clients : job[c].at \in {"dir", "commit"} /\ job[c].item = i
LinksOf(S, D) == {l \in links : l[1] \in S \/ l[2] \in D}

At(c, s) == job[c].at = s
Do(c, r) == job' = [job EXCEPT ![c] = r]
Goes(c, s) == Do(c, [job[c] EXCEPT !.at = s])
Begin(c, r) == At(c, "idle") /\ Do(c, r)
Bounded(set) == set = {} \/ Cardinality(spoilt \union crossed) < MaxMess
Spoils(set) == Bounded(set) /\ spoilt' = spoilt \union set
Crosses(set) == Bounded(set) /\ crossed' = crossed \union set

-----------------------------------------------------------------------------
\* One transaction each: to the trash, out of it, and a first photo.
MoveToTrash(i) ==
  /\ item[i] = "live" /\ item' = [item EXCEPT ![i] = "trashed"]
  /\ UNCHANGED <<pictured, dirs, docs, files, links, used, job, spoilt, crossed>>

Restore(i) ==
  /\ item[i] = "trashed" /\ item' = [item EXCEPT ![i] = "live"]
  /\ Crosses({k \in {i} : \E c \in Clients : i \in job[c].todo})
  /\ UNCHANGED <<pictured, dirs, docs, files, links, used, job, spoilt>>

AddPhoto(i) ==
  /\ item[i] = "live"
  /\ pictured' = pictured \union {i} /\ dirs' = dirs \union {i}
  /\ UNCHANGED <<item, docs, files, links, used, job, spoilt, crossed>>

-----------------------------------------------------------------------------
\* purge: of a list read from the trash (by the admin, or hourly), or of one
\* item asked for by DELETE, live only with ?permanent=true.
PurgeList(c, S) ==
  /\ S # {} /\ \A i \in S : item[i] = "trashed"
  /\ Begin(c, [Idle EXCEPT !.at = "next", !.todo = S, !.admin = TRUE])
  /\ UNCHANGED <<item, pictured, dirs, docs, files, links, used, spoilt, crossed>>

DeleteItem(c, i) ==
  /\ item[i] # "gone"
  /\ \E permanent \in BOOLEAN :
       /\ permanent \/ item[i] = "trashed"
       /\ Begin(c, [Idle EXCEPT !.at = "next", !.todo = {i}, !.admin = TRUE, !.permanent = permanent])
  /\ UNCHANGED <<item, pictured, dirs, docs, files, links, used, spoilt, crossed>>

\* The item's documents are listed before anything is deleted.
PurgeItem(c, i) ==
  /\ At(c, "next") /\ i \in job[c].todo
  /\ Do(c, [job[c] EXCEPT !.at = "dir", !.item = i, !.docs = Held(i)])
  /\ UNCHANGED <<item, pictured, dirs, docs, files, links, used, spoilt, crossed>>

\* Its row went meanwhile: refreshing it raises, and the rest is not purged.
PurgeRaises(c) ==
  /\ At(c, "next") /\ \E i \in job[c].todo : item[i] = "gone"
  /\ Do(c, Idle)
  /\ UNCHANGED <<item, pictured, dirs, docs, files, links, used, spoilt, crossed>>

\* The photo directory goes before the transaction that deletes the row.
PurgeDir(c) ==
  /\ At(c, "dir") /\ Goes(c, "commit")
  /\ dirs' = dirs \ {job[c].item}
  /\ UNCHANGED <<item, pictured, docs, files, links, used, spoilt, crossed>>

PurgeCommit(c) ==
  /\ At(c, "commit") /\ Goes(c, "orphans")
  /\ item' = [item EXCEPT ![job[c].item] = "gone"]
  /\ pictured' = pictured \ {job[c].item}
  /\ links' = links \ LinksOf({job[c].item}, {})
  /\ UNCHANGED <<dirs, docs, files, used, spoilt, crossed>>

\* delete_orphan_documents: count the links, delete the row, delete the files.
OrphanLook(c, d) ==
  /\ At(c, "orphans") /\ d \in job[c].docs
  /\ Do(c, IF d \in docs /\ Holders(d) = {}
             THEN [job[c] EXCEPT !.at = "drop", !.doc = d]
             ELSE [job[c] EXCEPT !.docs = @ \ {d}])
  /\ UNCHANGED <<item, pictured, dirs, docs, files, links, used, spoilt, crossed>>

PurgeNext(c) ==
  /\ At(c, "orphans") /\ job[c].docs = {}
  /\ Do(c, IF job[c].todo \subseteq {job[c].item} THEN Idle
           ELSE [job[c] EXCEPT !.at = "next", !.todo = @ \ {job[c].item}])
  /\ UNCHANGED <<item, pictured, dirs, docs, files, links, used, spoilt, crossed>>

DropRow(c) ==
  /\ At(c, "drop") /\ Goes(c, "files")
  /\ docs' = docs \ {job[c].doc}
  /\ links' = links \ LinksOf({}, {job[c].doc})
  /\ UNCHANGED <<item, pictured, dirs, files, used, spoilt, crossed>>

DropFiles(c) ==
  /\ At(c, "files")
  /\ files' = files \ {job[c].doc}
  /\ Do(c, [job[c] EXCEPT !.at = "orphans", !.docs = @ \ {job[c].doc}])
  /\ UNCHANGED <<item, pictured, dirs, docs, links, used, spoilt, crossed>>

-----------------------------------------------------------------------------
\* upload_document: the file first, then the row and its link.
UploadDocument(c, i, d) ==
  /\ item[i] = "live" /\ d \notin used /\ used' = used \union {d}
  /\ Begin(c, [Idle EXCEPT !.at = "save", !.item = i, !.doc = d])
  /\ files' = files \union {d}
  /\ UNCHANGED <<item, pictured, dirs, docs, links, spoilt, crossed>>

\* To an item whose documents a purge has listed, it comes too late: the purge
\* takes its link and leaves the document.
TooLate(c) == {d \in {job[c].doc} : Listed(job[c].item)}

UploadCommit(c) ==
  /\ At(c, "save") /\ item[job[c].item] # "gone" /\ Do(c, Idle)
  /\ Spoils(TooLate(c))
  /\ docs' = docs \union {job[c].doc}
  /\ links' = links \union {<<job[c].item, job[c].doc>>}
  /\ UNCHANGED <<item, pictured, dirs, files, used, crossed>>

\* Mutant of UploadFails: the files stay when the commit raises.
UploadFailsLeaving(c) ==
  /\ At(c, "save") /\ Do(c, Idle)
  /\ UNCHANGED <<item, pictured, dirs, docs, files, links, used, spoilt, crossed>>

\* The commit raises (the item was purged, say): the files are deleted.
UploadFails(c) ==
  /\ At(c, "save") /\ Do(c, Idle)
  /\ files' = files \ {job[c].doc}
  /\ UNCHANGED <<item, pictured, dirs, docs, links, used, spoilt, crossed>>

Link(c, i, d) ==
  /\ item[i] = "live" /\ d \in docs /\ <<i, d>> \notin links
  /\ Begin(c, [Idle EXCEPT !.at = "link", !.item = i, !.doc = d])
  /\ UNCHANGED <<item, pictured, dirs, docs, files, links, used, spoilt, crossed>>

Dropping(d) == \E c \in Clients : At(c, "drop") /\ job[c].doc = d

LinkCommit(c) ==
  /\ At(c, "link") /\ Do(c, Idle)
  /\ IF item[job[c].item] # "gone" /\ job[c].doc \in docs
       THEN /\ links' = links \union {<<job[c].item, job[c].doc>>}
            /\ Crosses({d \in {job[c].doc} : Dropping(d)})
            /\ Spoils(TooLate(c))
       ELSE UNCHANGED <<links, spoilt, crossed>>
  /\ UNCHANGED <<item, pictured, dirs, docs, files, used>>

\* unlink_document: removing the last link needs the admin, as counted here.
UnlinkDocument(c, i, d) ==
  /\ item[i] = "live" /\ <<i, d>> \in links
  /\ \E admin \in BOOLEAN :
       /\ Cardinality(Holders(d)) <= 1 => admin
       /\ Begin(c, [Idle EXCEPT !.at = "unlink", !.item = i, !.doc = d, !.admin = admin,
                                !.shared = Holders(d) # {i}])
  /\ UNCHANGED <<item, pictured, dirs, docs, files, links, used, spoilt, crossed>>

\* A link that is already gone raises.
UnlinkCommit(c) ==
  /\ At(c, "unlink")
  /\ LET l == <<job[c].item, job[c].doc>> IN
     IF l \in links
       THEN links' = links \ {l} /\ Goes(c, "count")
       ELSE Do(c, Idle) /\ UNCHANGED links
  /\ UNCHANGED <<item, pictured, dirs, docs, files, used, spoilt, crossed>>

\* Mutant of UnlinkCount: items in the trash, hidden from the ORM, do not count.
UnlinkCountShown(c) ==
  /\ At(c, "count")
  /\ IF (\A i \in Holders(job[c].doc) : item[i] # "live") /\ job[c].doc \in docs
       THEN Do(c, [job[c] EXCEPT !.at = "drop", !.item = "none"])
       ELSE Do(c, Idle)
  /\ UNCHANGED <<item, pictured, dirs, docs, files, links, used, spoilt, crossed>>

\* Counted again, trash included: with none left the document is deleted.
UnlinkCount(c) ==
  /\ At(c, "count")
  /\ IF Holders(job[c].doc) = {} /\ job[c].doc \in docs
       THEN Do(c, [job[c] EXCEPT !.at = "drop", !.item = "none"])
       ELSE Do(c, Idle)
  /\ UNCHANGED <<item, pictured, dirs, docs, files, links, used, spoilt, crossed>>

DeleteDocument(c, d) ==
  /\ d \in docs
  /\ Begin(c, [Idle EXCEPT !.at = "drop", !.doc = d, !.admin = TRUE, !.permanent = TRUE])
  /\ UNCHANGED <<item, pictured, dirs, docs, files, links, used, spoilt, crossed>>

\* A handler is cut short: its commit raises, or the process stops.  What it
\* had begun is not gone back to: files of a row that is kept or that was never
\* written, documents that no item holds.
HalfDone(j) ==
  CASE j.at = "commit" -> {j.item}
    [] j.at = "orphans" -> j.docs
    [] j.at \in {"drop", "files"} -> j.docs \union {j.doc}
    [] j.at \in {"save", "count"} -> {j.doc}
    [] OTHER -> {}

CutShort(c) ==
  /\ ~At(c, "idle")
  /\ Do(c, Idle)
  /\ Spoils(HalfDone(job[c]))
  /\ UNCHANGED <<item, pictured, dirs, docs, files, links, used, crossed>>

-----------------------------------------------------------------------------
Asked(c) ==
  \/ \E S \in SUBSET Items : PurgeList(c, S)
  \/ \E i \in Items : DeleteItem(c, i)
  \/ \E d \in Documents : DeleteDocument(c, d)
  \/ \E i \in Items, d \in Documents : UploadDocument(c, i, d) \/ Link(c, i, d) \/ UnlinkDocument(c, i, d)

Step(c) ==
  \/ \E i \in Items : PurgeItem(c, i)
  \/ \E d \in Documents : OrphanLook(c, d)
  \/ PurgeRaises(c) \/ PurgeDir(c) \/ PurgeCommit(c) \/ PurgeNext(c) \/ DropRow(c) \/ DropFiles(c)
  \/ UploadCommit(c) \/ UploadFails(c) \/ LinkCommit(c) \/ UnlinkCommit(c) \/ UnlinkCount(c)

TrashNext ==
  \/ \E i \in Items : MoveToTrash(i) \/ Restore(i) \/ AddPhoto(i)
  \/ \E c \in Clients : Asked(c) \/ Step(c) \/ CutShort(c)

TrashSpec == TrashInit /\ [][TrashNext]_trash

-----------------------------------------------------------------------------
(* Properties.                                                             *)

\* A document row always has its file: it is written before the row is
\* committed, and deleted only once no row can name it.
RowHasFile == docs \subseteq files

\* Whatever the handlers did meanwhile, once they are done nothing is left
\* behind: "the file goes when no item holds it" (routers/documents.py:147),
\* and an upload that failed is cleaned up.  Left are the files and rows of a
\* handler that was cut short, and a document that came too late (spoilt).
NothingLeftBehind ==
  (\A c \in Clients : At(c, "idle")) =>
    \A d \in Documents \ spoilt : (d \in files <=> d \in docs) /\ (d \in docs => Holders(d) # {})

\* An item in the trash can be taken out "as it was" (routers/items.py:1083),
\* its photos included, for as long as it is listed there (and no purge of it
\* was cut short).
TrashedIsWhole ==
  \A i \in pictured \ spoilt :
    i \in dirs \/ \E c \in Clients : At(c, "commit") /\ job[c].item = i

\* A document that an item holds, trashed items included, is deleted by a
\* request to delete it outright, or because a link came between the count of
\* its links and its deletion; by nothing else (trash.delete_orphan_documents,
\* routers/documents.py).
HeldIsKept ==
  [][\A d \in docs \ docs' :
       \/ Holders(d) = {} \/ d \in crossed
       \/ \E c \in Clients : At(c, "drop") /\ job[c].doc = d /\ job[c].permanent]_trash

\* "the file goes only when no item holds it any more (or it's deleted
\* outright)" (routers/documents.py:4).
OnlyUnheldGoes ==
  [][\A d \in docs \ docs' :
       Holders(d) = {} \/ \E c \in Clients : At(c, "drop") /\ job[c].doc = d /\ job[c].permanent]_trash

\* The last link of a document is removed by a request of the admin's, or by
\* one that had counted another holder, which went meanwhile
\* (routers/documents.py:155); never by any other.
AdminEndsDocuments ==
  [][\A d \in docs : Holders(d) # {} /\ Holders(d)' = {} =>
       \E c \in Clients : job'[c] # job[c] /\ (job[c].admin \/ (job[c].doc = d /\ job[c].shared))]_trash

\* An item that is live is purged by a request that asked for it to be deleted
\* permanently, or because it was taken out of the trash when a purge had it in
\* its list; by nothing else (trash.purge).
OnlyTrashIsPurged ==
  [][\A i \in Items : item[i] = "live" /\ item'[i] = "gone" =>
       i \in crossed \/ \E c \in Clients : At(c, "commit") /\ job[c].item = i /\ job[c].permanent]_trash

\* "Deleting from the trash (or emptying it, or the automatic clear-out after
\* `trash_retention_days`) is the only permanent step" (services/trash.py:3):
\* what was taken out of the trash is not purged from it.
RestoredStays ==
  [][\A i \in Items : item[i] = "live" /\ item'[i] = "gone" =>
       \E c \in Clients : At(c, "commit") /\ job[c].item = i /\ job[c].permanent]_trash
=============================================================================
