----------------------------- MODULE EditProfile -----------------------------
(***************************************************************************)
(* The profile document of one user and the edit pages over it             *)
(* (edit_profile_page.dart).  Save starts updateUserInformation without    *)
(* awaiting it and shows the profile page at once, so several saves of one *)
(* page, or of several pages, run at the same time.                        *)
(*                                                                         *)
(* The three text fields are one value.  A picture URL is named by the     *)
(* picture it served when it was issued: all uploads of a user overwrite   *)
(* one object of the storage, which voids the URLs issued before.          *)
(***************************************************************************)
EXTENDS Naturals

CONSTANTS
    Texts,       \* what a user may type that is not empty
    BlankText,   \* the one of them that is only spaces
    Pictures,
    Pages,       \* edit pages, each opened once
    Saves,       \* taps on Save Changes (bounds them)
    None,        \* null; also: no page
    EmptyText    \* '', as a text and as a URL

ASSUME NamesAssumption ==
    /\ BlankText \in Texts /\ EmptyText \notin Texts
    /\ {None, EmptyText} \cap Pictures = {} /\ None # EmptyText

VARIABLES
    doc,       \* users/<uid>: the texts and profilePictureUrl
    stored,    \* the object profile_pics/<uid>.jpg
    page,      \* the edit pages: life cycle, _fetchUserData, and their fields
    save,      \* running calls of updateUserInformation
    since      \* history: what was in the storage since each save's own upload

vars == <<doc, stored, page, save, since>>

AnyText == Texts \cup {EmptyText}
AnyUrl  == Pictures \cup {None, EmptyText}

PageRecs == [life: {"unopened", "mounted", "disposed"}, fetching: BOOLEAN, text: AnyText,
             image: Pictures \cup {None}, imageURL2: AnyUrl]
SaveRecs == [pc: {"none", "upload", "getUrl", "setState", "update", "done", "lost", "failed"},
             page: Pages \cup {None}, text: AnyText,
             image: Pictures \cup {None}, url: AnyUrl]

TypeOK ==
    /\ doc \in [text: AnyText, url: AnyUrl]
    /\ stored \in Pictures \cup {None}
    /\ page \in [Pages -> PageRecs]
    /\ save \in [Saves -> SaveRecs]
    /\ since \in [Saves -> SUBSET Pictures]

\* trim()
Trim(text) == IF text = BlankText THEN EmptyText ELSE text

\* A profile as the registration leaves it has no picture, and texts missing.
Init ==
    /\ doc \in [text: AnyText \ {BlankText}, url: {None}]
    /\ stored = None
    /\ page = [p \in Pages |-> [life |-> "unopened", fetching |-> FALSE, text |-> EmptyText,
                                image |-> None, imageURL2 |-> None]]
    /\ save = [s \in Saves |-> [pc |-> "none", page |-> None, text |-> EmptyText,
                                image |-> None, url |-> None]]
    /\ since = [s \in Saves |-> {}]

------------------------------------------------------------------------------
OpenPage(p) ==
    /\ page[p].life = "unopened"
    /\ page' = [page EXCEPT ![p].life = "mounted", ![p].fetching = TRUE]
    /\ UNCHANGED <<doc, stored, save, since>>

\* The answer overwrites whatever was typed meanwhile; on a page that is gone it
\* changes nothing any more.
FetchUserData(p) ==
    /\ page[p].fetching
    /\ page' = [page EXCEPT ![p] =
          IF @.life = "mounted"
          THEN [@ EXCEPT !.fetching = FALSE, !.text = doc.text,
                         !.imageURL2 = IF doc.url = None THEN EmptyText ELSE doc.url]
          ELSE [@ EXCEPT !.fetching = FALSE]]
    /\ UNCHANGED <<doc, stored, save, since>>

FetchFails(p) ==
    /\ page[p].fetching
    /\ page' = [page EXCEPT ![p].fetching = FALSE]
    /\ UNCHANGED <<doc, stored, save, since>>

Type(p) ==
    /\ page[p].life = "mounted"
    /\ \E text \in AnyText : page' = [page EXCEPT ![p].text = text]
    /\ UNCHANGED <<doc, stored, save, since>>

ChangeProfilePhoto(p) ==
    /\ page[p].life = "mounted"
    /\ \E picture \in Pictures : page' = [page EXCEPT ![p].image = picture]
    /\ UNCHANGED <<doc, stored, save, since>>

LeavePage(p) ==
    /\ page[p].life = "mounted"
    /\ page' = [page EXCEPT ![p].life = "disposed"]
    /\ UNCHANGED <<doc, stored, save, since>>

------------------------------------------------------------------------------
\* Mutant: the upload is started but not awaited.
SaveChanges_NoAwait(p, s) ==
    /\ page[p].life = "mounted" /\ page[p].text # EmptyText
    /\ save[s].pc = "none"
    /\ save' = [save EXCEPT ![s] =
          [pc |-> "update", page |-> p, text |-> Trim(page[p].text), image |-> page[p].image,
           url |-> IF page[p].image # None THEN page[p].image ELSE page[p].imageURL2]]
    /\ UNCHANGED <<doc, stored, page, since>>

\* The validators refuse '' before it is trimmed.
SaveChanges(p, s) ==
    /\ page[p].life = "mounted" /\ page[p].text # EmptyText
    /\ save[s].pc = "none"
    /\ save' = [save EXCEPT ![s] =
          [pc |-> IF page[p].image # None THEN "upload" ELSE "update",
           page |-> p, text |-> Trim(page[p].text), image |-> page[p].image,
           url |-> page[p].imageURL2]]
    /\ UNCHANGED <<doc, stored, page, since>>

Advance(s, pc) == save' = [save EXCEPT ![s].pc = pc]

PutFile(s) ==
    /\ save[s].pc = "upload"
    /\ stored' = save[s].image
    /\ since' = [t \in Saves |-> IF t = s \/ since[t] # {} THEN since[t] \cup {save[s].image}
                                 ELSE {}]
    /\ Advance(s, "getUrl")
    /\ UNCHANGED <<doc, page>>

\* Mutant: the upload's own result is taken for the URL.
GetDownloadURL_NoImage(s) ==
    /\ save[s].pc = "getUrl"
    /\ save' = [save EXCEPT ![s].pc = "setState", ![s].url = s]
    /\ UNCHANGED <<doc, stored, page, since>>

\* The URL of what is stored now, which another save may have replaced.
GetDownloadURL(s) ==
    /\ save[s].pc = "getUrl"
    /\ save' = [save EXCEPT ![s].pc = "setState", ![s].url = stored]
    /\ UNCHANGED <<doc, stored, page, since>>

\* setState throws on a page that is gone, and the update is never sent.
SetImageURL(s) ==
    /\ save[s].pc = "setState"
    /\ Advance(s, IF page[save[s].page].life = "mounted" THEN "update" ELSE "lost")
    /\ UNCHANGED <<doc, stored, page, since>>

\* Mutant: the update is skipped once the page is gone.
UpdateDoc_IfMounted(s) ==
    /\ save[s].pc = "update"
    /\ IF page[save[s].page].life = "mounted"
       THEN Advance(s, "done") /\ doc' = [text |-> save[s].text, url |-> save[s].url]
       ELSE Advance(s, "lost") /\ UNCHANGED doc
    /\ UNCHANGED <<stored, page, since>>

UpdateDoc(s) ==
    /\ save[s].pc = "update"
    /\ doc' = [text |-> save[s].text, url |-> save[s].url]
    /\ Advance(s, "done")
    /\ UNCHANGED <<stored, page, since>>

SaveStep(s) == PutFile(s) \/ GetDownloadURL(s) \/ SetImageURL(s) \/ UpdateDoc(s)

\* An awaited call of the backend throws.
SaveFails(s) ==
    /\ save[s].pc \in {"upload", "getUrl", "update"}
    /\ Advance(s, "failed")
    /\ UNCHANGED <<doc, stored, page, since>>

Next ==
    \/ \E p \in Pages :
          \/ OpenPage(p) \/ FetchUserData(p) \/ FetchFails(p)
          \/ Type(p) \/ ChangeProfilePhoto(p) \/ LeavePage(p)
    \/ \E p \in Pages, s \in Saves : SaveChanges(p, s)
    \/ \E s \in Saves : SaveStep(s) \/ SaveFails(s)

Spec == Init /\ [][Next]_vars

\* The backend answers, which it does while the user of the saves stays logged in;
\* nobody has to open, leave or type anything.
FairSpec == Spec /\ \A s \in Saves : WF_vars(SaveStep(s))

------------------------------------------------------------------------------
\* The picture of the profile is one that was uploaded before, however many saves run
\* and however often an old URL is written back; and a save that brought a picture of
\* its own never writes a URL older than its own upload, only that of its picture or of
\* one that another save has stored since.
PictureWasUploaded ==
    /\ doc.url \in Pictures => \E s \in Saves : doc.url \in since[s]
    /\ \A s \in Saves : save[s].pc = "done" /\ save[s].image # None => save[s].url \in since[s]

\* A save whose calls do not fail is written, on a page that is left as on one
\* that stays, while its user stays logged in; the one exception is a save with a new
\* picture whose page is left.
SaveCompletes ==
    \A s \in Saves : save[s].pc \notin {"none", "lost", "failed"} ~>
        \/ save[s].pc \in {"done", "failed"}
        \/ save[s].image # None /\ page[save[s].page].life = "disposed"

=============================================================================
