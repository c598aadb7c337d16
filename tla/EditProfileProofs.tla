-------------------------- MODULE EditProfileProofs --------------------------
(***************************************************************************)
(* Theorems about EditProfile for any texts, pictures, pages and saves.    *)
(* A URL travels from the storage to a save, from there to the document,   *)
(* from the document to the pages that fetch it, and back: IInv follows it *)
(* along the whole way.                                                    *)
(***************************************************************************)
EXTENDS EditProfile, TLAPS

(* A URL of a picture is of one that was uploaded. *)
Uploaded(url) == url \in Pictures => \E s \in Saves : url \in since[s]

(* An unused slot has no picture, one that uploads has; after its upload, a save
   carries what was in the storage since. *)
Carries(s) ==
    /\ save[s].pc = "none" => save[s].image = None
    /\ save[s].pc \in {"upload", "getUrl", "setState"} => save[s].image # None
    /\ save[s].pc = "getUrl" => since[s] # {}
    /\ since[s] # {} => stored \in since[s]
    /\ save[s].pc \in {"setState", "update", "done"} /\ save[s].image # None =>
          save[s].url \in since[s]

SaveState == \A s \in Saves : Carries(s)

(* Whatever is stored, or held as a URL anywhere, was uploaded. *)
UrlsAreUploaded ==
    /\ Uploaded(doc.url)
    /\ Uploaded(stored)
    /\ \A p \in Pages : Uploaded(page[p].imageURL2)
    /\ \A s \in Saves : Uploaded(save[s].url)

IInv == TypeOK /\ SaveState /\ UrlsAreUploaded

------------------------------------------------------------------------------
(* Nothing is stored and no URL is held at first. *)
LEMMA InitInv == Init => IInv
<1> SUFFICES ASSUME Init PROVE IInv
  OBVIOUS
<1> USE NamesAssumption DEF Init
<1>1. TypeOK
  BY DEF TypeOK, PageRecs, SaveRecs, AnyText, AnyUrl
<1>2. SaveState
  BY DEF SaveState, Carries
<1>3. UrlsAreUploaded
  BY DEF UrlsAreUploaded, Uploaded
<1>4. QED
  BY <1>1, <1>2, <1>3 DEF IInv

------------------------------------------------------------------------------
(* What the steps of a page and of a save do to the URLs that are held. *)

(* The storage is never emptied, and what it had is remembered. *)
LEMMA PicturesStay ==
  ASSUME TypeOK, [Next]_vars
  PROVE  \A s \in Saves : since[s] \subseteq since'[s]
<1>1. CASE UNCHANGED since
  BY <1>1
<1>2. ASSUME NEW s \in Saves, PutFile(s)
      PROVE  \A t \in Saves : since[t] \subseteq since'[t]
  BY <1>2 DEF PutFile, TypeOK
<1>3. QED
  BY <1>1, <1>2
     DEF Next, SaveStep, vars, OpenPage, FetchUserData, FetchFails, Type, ChangeProfilePhoto,
         LeavePage, SaveChanges, GetDownloadURL, SetImageURL, UpdateDoc, SaveFails

(* So a picture that was uploaded once counts as uploaded for good. *)
LEMMA UploadedStays ==
  ASSUME TypeOK, [Next]_vars, NEW url, Uploaded(url)
  PROVE  url \in Pictures => \E s \in Saves : url \in since'[s]
  BY PicturesStay DEF Uploaded

------------------------------------------------------------------------------
(* Every step keeps every variable in its type. *)
LEMMA TypeStep == TypeOK /\ SaveState /\ [Next]_vars => TypeOK'
<1> SUFFICES ASSUME TypeOK, SaveState, [Next]_vars PROVE TypeOK'
  OBVIOUS
<1> USE NamesAssumption DEF TypeOK
<1>1. ASSUME NEW p \in Pages, NEW r \in PageRecs, page' = [page EXCEPT ![p] = r],
             UNCHANGED <<doc, stored, save, since>>
      PROVE  TypeOK'
  BY <1>1
<1>2. ASSUME NEW s \in Saves, NEW r \in SaveRecs, save' = [save EXCEPT ![s] = r],
             UNCHANGED page, doc' \in [text: AnyText, url: AnyUrl],
             stored' \in Pictures \cup {None}, since' \in [Saves -> SUBSET Pictures]
      PROVE  TypeOK'
  BY <1>2
<1>3. ASSUME NEW p \in Pages, OpenPage(p) \/ FetchFails(p) \/ LeavePage(p) PROVE TypeOK'
  <2>1. page[p] \in PageRecs
    OBVIOUS
  <2>2. \E r \in PageRecs : page' = [page EXCEPT ![p] = r]
    BY <1>3, <2>1 DEF OpenPage, FetchFails, LeavePage, PageRecs
  <2>3. QED
    BY <1>3, <1>1, <2>2 DEF OpenPage, FetchFails, LeavePage
<1>4. ASSUME NEW p \in Pages, FetchUserData(p) PROVE TypeOK'
  <2>1. page[p] \in PageRecs
    OBVIOUS
  <2>2. CASE page[p].life = "mounted"
    <3> DEFINE url == IF doc.url = None THEN EmptyText ELSE doc.url
    <3>1. [page[p] EXCEPT !.fetching = FALSE, !.text = doc.text, !.imageURL2 = url] \in PageRecs
      BY <2>1 DEF PageRecs, AnyUrl
    <3>2. QED
      BY <1>4, <1>1, <2>2, <3>1 DEF FetchUserData
  <2>3. CASE page[p].life # "mounted"
    <3>1. [page[p] EXCEPT !.fetching = FALSE] \in PageRecs
      BY <2>1 DEF PageRecs
    <3>2. QED
      BY <1>4, <1>1, <2>3, <3>1 DEF FetchUserData
  <2>4. QED
    BY <2>2, <2>3
<1>5. ASSUME NEW p \in Pages, Type(p) \/ ChangeProfilePhoto(p) PROVE TypeOK'
  <2>1. page[p] \in PageRecs
    OBVIOUS
  <2>2. \E r \in PageRecs : page' = [page EXCEPT ![p] = r]
    BY <1>5, <2>1 DEF Type, ChangeProfilePhoto, PageRecs
  <2>3. QED
    BY <1>5, <1>1, <2>2 DEF Type, ChangeProfilePhoto
<1>6. ASSUME NEW p \in Pages, NEW s \in Saves, SaveChanges(p, s) PROVE TypeOK'
  <2>1. page[p] \in PageRecs /\ Trim(page[p].text) \in AnyText
    BY DEF PageRecs, Trim, AnyText
  <2>2. [pc |-> IF page[p].image # None THEN "upload" ELSE "update",
         page |-> p, text |-> Trim(page[p].text), image |-> page[p].image,
         url |-> page[p].imageURL2] \in SaveRecs
    BY <2>1 DEF PageRecs, SaveRecs
  <2>3. QED
    BY <1>6, <1>2, <2>2 DEF SaveChanges
<1>7. ASSUME NEW s \in Saves, NEW pc, Advance(s, pc),
             pc \in {"getUrl", "update", "lost", "done", "failed"}
      PROVE  \E r \in SaveRecs : save' = [save EXCEPT ![s] = r]
  <2>1. save[s] \in SaveRecs
    OBVIOUS
  <2>2. QED
    BY <1>7, <2>1 DEF Advance, SaveRecs
<1>8. ASSUME NEW s \in Saves, PutFile(s) PROVE TypeOK'
  <2>1. save[s].image \in Pictures
    BY <1>8 DEF PutFile, SaveState, Carries, SaveRecs
  <2>2. QED
    BY <1>8, <1>7, <1>2, <2>1 DEF PutFile
<1>9. ASSUME NEW s \in Saves, GetDownloadURL(s) PROVE TypeOK'
  <2>1. save[s] \in SaveRecs /\ stored \in AnyUrl
    BY DEF AnyUrl
  <2>2. \E r \in SaveRecs : save' = [save EXCEPT ![s] = r]
    BY <1>9, <2>1 DEF GetDownloadURL, SaveRecs
  <2>3. QED
    BY <1>9, <1>2, <2>2 DEF GetDownloadURL
<1>10. ASSUME NEW s \in Saves, SetImageURL(s) \/ SaveFails(s) PROVE TypeOK'
  BY <1>10, <1>7, <1>2 DEF SetImageURL, SaveFails
<1>11. ASSUME NEW s \in Saves, UpdateDoc(s) PROVE TypeOK'
  <2>1. doc' \in [text: AnyText, url: AnyUrl]
    BY <1>11 DEF UpdateDoc, SaveRecs
  <2>2. QED
    BY <1>11, <1>7, <1>2, <2>1 DEF UpdateDoc
<1>12. CASE UNCHANGED vars
  BY <1>12 DEF vars
<1>13. QED
  BY <1>3, <1>4, <1>5, <1>6, <1>8, <1>9, <1>10, <1>11, <1>12 DEF Next, SaveStep

(* A save has what its next call needs, and what it carries is no older than its upload. *)
LEMMA SaveStateStep == TypeOK /\ SaveState /\ [Next]_vars => SaveState'
<1> SUFFICES ASSUME TypeOK, SaveState, [Next]_vars PROVE SaveState'
  OBVIOUS
<1> USE NamesAssumption DEF TypeOK, SaveRecs, SaveState, Carries, Advance
<1>2. ASSUME NEW p \in Pages, NEW s \in Saves, SaveChanges(p, s) PROVE SaveState'
  BY <1>2 DEF SaveChanges
<1>3. ASSUME NEW s \in Saves, PutFile(s) PROVE SaveState'
  <2>1. save[s].pc = "upload" /\ stored' = save[s].image /\ save' = [save EXCEPT ![s].pc = "getUrl"]
    BY <1>3 DEF PutFile
  <2>2. save[s].image # None /\ save'[s].pc = "getUrl" /\ save'[s].image = save[s].image
    BY <2>1
  <2>3. \A t \in Saves : t # s => save'[t] = save[t]
    BY <2>1
  <2>4. ASSUME NEW t \in Saves PROVE Carries(t)'
    <3>1. CASE t = s
      <4>1. stored' \in since'[s]
        BY <1>3, <2>1 DEF PutFile
      <4>2. QED
        BY <2>2, <3>1, <4>1
    <3>2. CASE t # s /\ since[t] = {}
      <4>1. since'[t] = {}
        BY <1>3, <3>2 DEF PutFile
      <4>2. Carries(t)
        OBVIOUS
      <4>3. QED
        BY <2>3, <3>2, <4>1, <4>2
    <3>3. CASE t # s /\ since[t] # {}
      <4>1. stored' \in since'[t] /\ \A url \in since[t] : url \in since'[t]
        BY <1>3, <2>1, <3>3 DEF PutFile
      <4>2. Carries(t)
        OBVIOUS
      <4>3. QED
        BY <2>3, <3>3, <4>1, <4>2
    <3>4. QED
      BY <3>1, <3>2, <3>3
  <2>5. QED
    BY <2>4
<1>4. ASSUME NEW s \in Saves, GetDownloadURL(s) PROVE SaveState'
  BY <1>4 DEF GetDownloadURL
<1>5. ASSUME NEW s \in Saves, SetImageURL(s) \/ UpdateDoc(s) \/ SaveFails(s) PROVE SaveState'
  <2>1. UNCHANGED <<stored, since>>
    BY <1>5 DEF SetImageURL, UpdateDoc, SaveFails
  <2>2. \A t \in Saves : /\ save'[t].url = save[t].url /\ save'[t].image = save[t].image
                         /\ t # s => save'[t].pc = save[t].pc
    BY <1>5 DEF SetImageURL, UpdateDoc, SaveFails
  <2>3. \/ save[s].pc = "setState" /\ save'[s].pc \in {"update", "lost"}
        \/ save[s].pc = "update" /\ save'[s].pc = "done"
        \/ save'[s].pc = "failed"
    BY <1>5 DEF SetImageURL, UpdateDoc, SaveFails
  <2>4. ASSUME NEW t \in Saves PROVE Carries(t)'
    <3>1. Carries(t)
      OBVIOUS
    <3>2. CASE t = s
      <4>1. CASE save'[s].pc = "failed"
        BY <2>1, <2>2, <3>1, <3>2, <4>1
      <4>2. CASE save'[s].pc # "failed"
        <5>1. /\ save[t].pc \in {"setState", "update"}
              /\ save'[t].pc \in {"update", "lost", "done"}
          BY <2>3, <3>2, <4>2
        <5>2. QED
          BY <2>1, <2>2, <3>1, <5>1
      <4>3. QED
        BY <4>1, <4>2
    <3>3. CASE t # s
      <4>1. save'[t].pc = save[t].pc
        BY <2>2, <3>3
      <4>2. QED
        BY <2>1, <2>2, <3>1, <4>1
    <3>4. QED
      BY <3>2, <3>3
  <2>5. QED
    BY <2>4
<1>6. CASE UNCHANGED <<stored, save, since>>
  BY <1>6
<1>7. QED
  BY <1>2, <1>3, <1>4, <1>5, <1>6
     DEF Next, SaveStep, vars, OpenPage, FetchUserData, FetchFails, Type,
         ChangeProfilePhoto, LeavePage

(* A URL is only ever copied, from the storage or from another place. *)
LEMMA UrlsStep == IInv /\ [Next]_vars => UrlsAreUploaded'
<1> SUFFICES ASSUME IInv, [Next]_vars PROVE UrlsAreUploaded'
  OBVIOUS
<1> DEFINE Held == {doc.url, stored} \cup {page[p].imageURL2 : p \in Pages}
                                    \cup {save[s].url : s \in Saves}
<1> USE NamesAssumption DEF IInv, TypeOK, PageRecs, SaveRecs, Advance
<1>1. ASSUME NEW url \in Held \cup {None, EmptyText} PROVE Uploaded(url)'
  BY <1>1, UploadedStays DEF UrlsAreUploaded, Uploaded
<1>2. ASSUME NEW p \in Pages,
             OpenPage(p) \/ FetchFails(p) \/ Type(p) \/ ChangeProfilePhoto(p) \/ LeavePage(p)
      PROVE  UrlsAreUploaded'
  <2>1. /\ UNCHANGED <<doc, stored, save, since>>
        /\ \A q \in Pages : page'[q].imageURL2 = page[q].imageURL2
    BY <1>2, SMTT(30) DEF OpenPage, FetchFails, Type, ChangeProfilePhoto, LeavePage
  <2>2. QED
    BY <1>1, <2>1 DEF UrlsAreUploaded
<1>3. ASSUME NEW p \in Pages, FetchUserData(p) PROVE UrlsAreUploaded'
  <2>1. /\ UNCHANGED <<doc, stored, save, since>>
        /\ \A q \in Pages : page'[q].imageURL2 \in {page[q].imageURL2, doc.url, EmptyText}
    BY <1>3 DEF FetchUserData
  <2>2. QED
    BY <1>1, <2>1 DEF UrlsAreUploaded
<1>4. ASSUME NEW p \in Pages, NEW s \in Saves, SaveChanges(p, s) PROVE UrlsAreUploaded'
  <2>1. /\ UNCHANGED <<doc, stored, page>>
        /\ \A t \in Saves : save'[t].url \in {save[t].url, page[p].imageURL2}
    BY <1>4 DEF SaveChanges
  <2>2. QED
    BY <1>1, <2>1 DEF UrlsAreUploaded
<1>5. ASSUME NEW s \in Saves, PutFile(s) PROVE UrlsAreUploaded'
  <2>1. /\ UNCHANGED <<doc, page>> /\ stored' \in since'[s]
        /\ \A t \in Saves : save'[t].url = save[t].url
    BY <1>5 DEF PutFile
  <2>2. Uploaded(stored)'
    BY <2>1 DEF Uploaded
  <2>3. QED
    BY <1>1, <2>1, <2>2 DEF UrlsAreUploaded
<1>6. ASSUME NEW s \in Saves, GetDownloadURL(s) PROVE UrlsAreUploaded'
  <2>1. /\ UNCHANGED <<doc, stored, page>>
        /\ \A t \in Saves : save'[t].url \in {save[t].url, stored}
    BY <1>6 DEF GetDownloadURL
  <2>2. QED
    BY <1>1, <2>1 DEF UrlsAreUploaded
<1>7. ASSUME NEW s \in Saves, SetImageURL(s) \/ UpdateDoc(s) \/ SaveFails(s)
      PROVE  UrlsAreUploaded'
  <2>1. /\ UNCHANGED <<stored, page>> /\ doc'.url \in {doc.url, save[s].url}
        /\ \A t \in Saves : save'[t].url = save[t].url
    BY <1>7 DEF SetImageURL, UpdateDoc, SaveFails
  <2>2. QED
    BY <1>1, <2>1 DEF UrlsAreUploaded
<1>8. CASE UNCHANGED vars
  BY <1>1, <1>8 DEF UrlsAreUploaded, vars
<1>9. QED
  BY <1>2, <1>3, <1>4, <1>5, <1>6, <1>7, <1>8 DEF Next, SaveStep

(* IInv is an invariant. *)
LEMMA Invariance == Spec => []IInv
<1>1. IInv /\ [Next]_vars => IInv'
  BY TypeStep, SaveStateStep, UrlsStep DEF IInv
<1>2. QED
  BY <1>1, InitInv, PTL DEF Spec

------------------------------------------------------------------------------
(* The document, the storage, the pages and the saves stay in their types,  *)
(* so that the storage only ever holds a picture some page had chosen.      *)
THEOREM TypeCorrect == Spec => []TypeOK
  BY Invariance, PTL DEF IInv

(* However late and in whatever order the saves of however many pages come  *)
(* to their update, and however often they write back an old imageURL2, the *)
(* picture of the profile is one that putFile stored; and the URL of a save *)
(* with a picture of its own is not older than that picture's upload.       *)
THEOREM PictureWasUploadedHolds == Spec => []PictureWasUploaded
<1>1. IInv => PictureWasUploaded
  <2> SUFFICES ASSUME IInv PROVE PictureWasUploaded
    OBVIOUS
  <2>1. doc.url \in Pictures => \E s \in Saves : doc.url \in since[s]
    BY DEF IInv, UrlsAreUploaded, Uploaded
  <2>2. ASSUME NEW s \in Saves, save[s].pc = "done" /\ save[s].image # None
        PROVE  save[s].url \in since[s]
    BY <2>2 DEF IInv, SaveState, Carries
  <2>3. QED
    BY <2>1, <2>2 DEF PictureWasUploaded
<1>2. QED
  BY Invariance, <1>1, PTL

=============================================================================
