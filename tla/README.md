# Udhar: models and proofs

Udhar is a Flutter app over Firebase (Auth, Firestore, Storage) and the Razorpay
gateway. Users enter their credit cards and rents, see what they owe, pay it in
one payment and look at their transactions; an admin looks at users and their
bills. There is no server code of the project's own: every page reads and writes
Firestore directly, with one `await` after another. What is hard in this program
is therefore all in the gaps between awaits: another tap, another page, another
device, a callback, a failed call or a dead app may come in between.

The project's own code is in `code/lib` (51 Dart files, about 7000 lines); paths
below are relative to it. `code/ios/Pods` holds the libraries the iOS app is linked
with, copied in by CocoaPods: nearly all of the repository's 625 000 lines of C and
C++. One of them does decide what an `await` of the app means, the Firestore client
(`FirebaseFirestoreInternal`), and its writing and reading halves are modelled;
paths into it are relative to `code/ios/Pods/FirebaseFirestoreInternal/Firestore/core/src`.
`code/firestore.rules` allows everything, so no rule of the backend
protects an invariant; `code/storage.rules` denies every upload, and the models
assume the rules that the upload code needs.

## The system's parts

| Part | State | Operations | Talks to |
|---|---|---|---|
| Payment page (`screens/payments.dart`) | `totalBalance` of the page; `balance` of each Card and Rent document; `Transactions` | `initState`, `_fetchBalance`, `makePayment`, three gateway callbacks | Firestore, Razorpay, every page that adds bills |
| Registration (`screens/signup_screen.dart`, `screens/otp_verification_page.dart`) | text fields, Auth accounts, current user, profile document, `verificationId` | submit, the dialogs, send and resend a code, type a code, link the phone | Firebase Auth, Firestore |
| Navigation and session (`main.dart`, `splash_screen.dart`, `login_screen.dart`, `forgot_password.dart`, `nav_bar.dart`, the app bars and button rows, `admin_home.dart`, `admin_nav.dart`) | the Navigator stack, the current user | splash, login, logout, reset, all buttons that open pages, back | every page |
| Profile editing (`screens/edit_profile_page.dart`, `screens/profile_page.dart`) | fields, chosen image, `imageURL2`; profile document; one stored picture | fetch, type, choose, save (upload, URL, update) | Firestore, Storage |
| Card and rent entry (`screens/add_card.dart`, `add_rent.dart`, `display_cards.dart`, `rent_page.dart`) | form fields, due date, autopay switch | validate and store, toggle autopay | Firestore |
| Admin desk (`admin/view_data.dart`, `admin_model.dart`; `user_detailed.dart` is not reached) | bills read once, amounts to pay | load, pay a tile | Firestore, Razorpay |
| Searchable lists (`screens/transactions.dart`, `admin/view_users.dart`, `admin/admin_payment.dart`) | fetched list and filtered list | fetch, search, filter, sort | Firestore |
| Balance displays (`widgets/home_page/*`) | amount due, fetched once | fetch | Firestore |
| Static and demonstration pages | none | none | none |
| Firestore client, writes (`core/sync_engine.cc`, `local/local_store.cc`, `local/leveldb_mutation_queue.cc`, `remote/remote_store.cc`, `remote/stream.cc`, `remote/write_stream.cc`) | mutation queue of each user (on disk), pending callbacks, write pipeline, write stream | write, handshake, acknowledge, refuse, fail and back off, idle, change of user, launch | every awaited write of the pages; the backend |
| Firestore client, reads (`api/query_core.cc`, `core/event_manager.cc`, `core/query_listener.cc`, `core/view.cc`, `remote/remote_event.cc`, `remote/online_state_tracker.cc` and the above) | views, listeners, cache and resume tokens, target states, watch stream, online state and its timer | get, listen, stop listening, watch changes, snapshots, failures, timeouts | every get and stream of the pages; the backend |
| Other pods (gRPC, BoringSSL, abseil, ...) | | | the Firestore client |

What makes each part correct, and where that is hard:

* **Payment page.** The gateway must be opened with what is owed now; the log
  must show what was charged; what was charged, and only that, must be cleared,
  once. Hard because the total is a copy, `makePayment` does not await its own
  fetch, the callbacks come at any time and outlive the page, the success
  handler has five awaits, bills are added elsewhere, and nothing resumes a
  handler whose app died.
* **Registration.** A success dialog must mean that account and profile exist;
  an account must have a profile; a phone must be linked to the account that
  registered it, and only after a code went out to it. Hard because there are
  two awaits, fields and buttons stay live meanwhile, several codes may be under
  way, and the backend may sign the phone in by itself.
* **Navigation.** A page must show the data of the logged-in user, and the user
  must not be left without a page. Hard because late calls act on whatever page
  is on top by then.
* **Profile.** The picture in the profile must have been uploaded, and a save
  must not undo another. Hard because saves are not awaited and write back
  values read long before.
* **Admin desk.** What an old page shows must not mislead: a bill it shows as
  settled must be, and with the receipt. Hard because three collections are read
  one after the other while the user pays.
* **Entry forms.** What was accepted must be stored once the add returns, with the
  date the user saw, and shown by the list that opens. Hard because forms stay
  live and filled.
* **Amounts due and lists of payments** are copies read once. What they leave out
  must be settled, and have a receipt on a list opened later; a search must select
  from all that was fetched. Hard because two collections are read one after the
  other while payments clear them, and a search may come before the list.
* **Firestore client, writes.** An await of a write must return for that write, after
  it was applied, in the order of its queue, and only a refused write may
  fail. Hard because responses carry no batch id, batch ids are given again, the
  pipeline is sent again after every reconnect, requests of a dead connection may
  still arrive, and launches and sign-ins replace the queue under all this.
* **Firestore client, reads.** A `get()` must return, and what it returns as not from
  the cache must not be older than the call. Hard because listens of one collection
  by several pages overlap, their answers are told apart by counting only, and the
  client moves between online, offline and unknown by a timer and by failures.

## Modules

Each component module has its constants with named assumptions, one action per
handler or awaited step, `Spec`, a fair version `FairSpec` where something must
eventually happen, and its properties. An `MC` module adds only the symmetry or the value of a constant function.
Definitions called `X_Something` next to `X`, marked "Mutant", are plausible bugs
of `X`; they are no part of the specifications. Each has a property that breaks
when it takes the place of `X` (`PROJECT.json`, "mutants").

### PaymentForm

The payment page over the bills of one user, on any number of pages (which may be
on different devices). Code and model correspond as follows.

| Code | Model |
|---|---|
| `balance` of a document | `balance[b]`: `"none"` (no document), `"owed"`, `"garbled"` (a rent text that `double.parse` refuses), `"free"` (a rent entered as a text that parses to 0), `"zero"` (cleared: `'0'`, written by a batch) |
| `users/<uid>/Transactions` | `transactions`, of records [payment, amount] |
| `_PaymentFormState`, `totalBalance` | `page[f]`, `totalBalance[f]` |
| a running `_fetchBalance` | `fetch[c]` with `pc` at the await it waits for and the total so far |
| Razorpay and the options it was opened with | `checkout[p]`, `charge[p]` |
| a running `_handlePaymentSuccess` | `handler[p]` with `pc`, the amount it logs, the documents it has listed |

**An amount is the set of bills it was added up from.** So a charge is comparable
with what is owed, "charged twice" is an intersection, and sums of doubles, which
no property is about, are left out. `FetchCards` and `FetchRents` are two actions
because the collections are read by two awaited calls; the same for the
handler's log, two reads and two batches. A batch is atomic in Firestore and in the
model. `SetTotal` has two outcomes on a page that is gone: `setState` assigns in a
release build, throws in a debug build. Callbacks are never unregistered, so
they run on a popped page; only `KillDevice` loses them. `settled[f]` is history: what had been
cleared when page f was opened.

The rent form asks for a text that is not empty and for nothing else (add_rent.dart:174). So
a rent may be at 0 without any payment; the code cannot tell such a bill from a cleared one,
but the properties must, and `"free"` is there for them. A negative amount, and a
text like `NaN`, are read as numbers and count as `"owed"`: as sets go, they are bills that a
total includes. That a negative one makes the total smaller, and that `NaN` makes it no
number, is arithmetic that the abstraction leaves out.

### Dues and QuietPaymentForm

`Dues` is what the README of the program promises ("Users pay monthly dues
through one single payment", "Log and track all payments"): bills fall due, one
payment takes all that is due, and a receipt says what it took. The page does
not implement it in general (see the findings below). `QuietPaymentForm`
restricts the users and the gateway, not the page, to the conditions under which
it does: one user with one page at a time, no bill added while a page is open, PayNow tapped
when nothing is under way, and a gateway slower than the fetch. The refinement
mapping takes `taken` to the captured checkouts with what each was opened with (`Taken`, from
`charge`), `due` to the bills that are owed and not among these, and `receipts` to the log.
So a charge that is not exactly what is due, a bill charged twice, and a log entry that
differs from the charge each break it.

### SignUp

The sign-up page, the OTP pages it opens, the accounts and profiles. `field` are
the live text fields (they may change at any step); `signUp[a]` is the call that
the a-th tap started, `otpPage[a]` the page its success dialog opened,
`request[r]` a running `verifyPhoneNumber`, `verify` the running calls of `verifyOTP`, of
which one page may have several, since the button stays enabled.
Firebase Auth is external: an account is created once per email, `request` may
end in a text message, an error or an automatic sign-in, a link needs the right
code and a phone and an account that are still free. `SignInOrOut` stands for
the login and logout pages, which can be reached while all this goes on.

The write of the profile is three steps: `SetProfile` builds the document from the fields as
they are after the first await and puts it in the queue of whoever is logged in (`by`);
`SaveProfile` and `SaveProfileFails` are the answer, which finds its await only while that user is the
current one; `ProfileArrives` is a write that was sent before its user left and is stored
all the same, while the await stays as it is (see `WritePipeline`, and
`core/sync_engine.cc:263`). `LeavePage` pops the sign-up page and opens the next one: its
running calls keep the fields it had (`form`), and end unseen, because `showDialog` throws on a
page that is gone (signup_screen.dart:303), and again in the catch clause (:359). There is
one sign-up page at a time.

### Navigation

The Navigator stack, the current user and the calls that navigate or show a dialog after an
await: splash, login, registration, verification, logout and reset. The `...Targets` sets list
where each page's buttons lead. Dialogs, the date picker among them, are routes of the same
stack: the success dialogs of the registration and the verification, whose OK leads on
(`ConfirmSignUp`, `ConfirmLink`), and all others, whose OK is a `Back`.
`pushReplacement` and `pop` act on the route on top, be it a dialog, also
when their own page is further down (`ReplaceTop`, `PopTop`); if it has left the
stack, they may still act or throw (`Lost`), because the page may still be in
its exit transition and a release build does not check. The two awaits of the registration are one
here (`SignUp` has them apart), and the pages that `AddCards` and `AddRent` open after their add are
opened from the form, as if nothing had been pushed over it meanwhile.

### EditProfile

The profile document, the one stored picture and the edit pages over them. Saves
are not awaited by the page, so several run at once (`save[s]`). The three texts
are one value. A URL is named by the picture it was issued for; all
uploads of a user overwrite one object. `since[s]` is history: the pictures that were in the
storage at or after the upload of save s.

### AdminDesk

`AdminDesk` composes `PaymentForm` with the admin's pages of the same user: its
next-state relation is a step of either with the other unchanged. `desk[d]` is a
`ViewData` page with the await that `getData` waits for, the balances it has read
(`seen`) and the transactions it has read (`receipts`); `tilePay[p]` is a checkout
of a tile. An admin's payment changes nothing but the checkout: the three
callbacks of `Tile2` only show a message.

### BillEntry

The forms `AddCards` and `AddRentScreen` and the lists they open. `form[f]` has
the fields (the texts as one value, the due date as shown and as it will be
stored), `submit[s]` a running submit, `stored` the documents, named by the
submit that added them, and `list[s]` the list that submit s opened: a list of
rents is read once, a list of cards listens.

### AccountViews

The same payment page composed with what a user sees beside it: `display[d]` is an
amount due (`BalanceCard`, and the copy of the same code on the profile page) with
the await its `_fetchBalance` waits for, `listPage[l]` a `TransactionsPage`. In the code
`filteredUsers` and the fetched list are one object until the first search, and
`getUsers` fills it in place: `alias` says whether they still are. A text in the
search field is the set of payments whose ids contain it. `issued`, `settled`,
`matches` and `early` are history: what existed and what the user had seen when a
page was opened, and what was searched last. `view_users.dart` is the same code over
user documents.

### WriteService and WritePipeline

`WriteService` is what the pages take an awaited write for: the writes of a user are
applied in the order they were issued, `ok` means applied, only a write the rules
refuse gets `error` and it was never applied, and an accepted write outlives the app,
its caller does not. `WritePipeline` is the client that implements it. The client
runs on one serial worker queue (`util/async_queue.h`), so each handler is one step
with all it calls.

| Code | Model |
|---|---|
| LevelDB mutation queue, `next_batch_id_` | `queue[u]`, `nextId` (`LoadNextBatchIdFromDb` gives ids again) |
| `mutation_callbacks_` | `callbacks[u]`; `answer[b]` is what the awaiting caller saw |
| `write_pipeline_`, `kMaxPendingWrites` | `pipeline`, `MaxPending` |
| `state_`, `handshake_complete_`, `idleness_timer_` of the write stream | `stream`, `handshake`, `idle` |
| the connection | `wire` and `responses`, and `stray`: what the closed connection before had already sent |

`Relaunch` kills and starts the app; `HandleCredentialChange` is a login, a logout or
a new token; `StreamFails` a transient error. The backend handles the requests of a
connection in order and ends it at the first write it refuses. The refinement mapping
takes `pending` to the persisted queue and `applied` to the set of applied writes: a
write sent twice is applied twice, and the service does not say that it is not.

### WatchPipeline

A `get()` is a listener that is removed after its first acceptable snapshot; a page
with a `StreamBuilder` is one that stays. `view[q]` is the view of a query (absent,
from the cache, synced), `target[q]` its `TargetState` in the change aggregator with
`outstanding_responses_`, `online`, `timer` and `failed` the online state tracker.
The documents of a query are one value, the number of the last commit that changed
them: all the properties ask is how old what is shown is. The app deletes no
document, so limbo resolution and existence filters do not occur.

### The proof modules

| Module | Theorems about |
|---|---|
| `PaymentFormProofs` | `PaymentForm`, and the refinement of `Dues` by `QuietPaymentForm` |
| `PaymentReadersProofs` | the two compositions with it, `AdminDesk` and `AccountViews` |
| `EditProfileProofs`, `BillEntryProofs`, `SignUpProofs`, `NavigationProofs` | the component of that name |
| `WatchPipelineProofs` | `WatchPipeline` |
| `WritePipelineProofs` | `WritePipeline`, and the refinement of `WriteService` by it |

Each states the inductive invariant in named parts, proves one lemma per part that
every step keeps it, and ends in the theorems; see "What is proved".

## Runs

| Run | Instance | What it shows |
|---|---|---|
| `pay_safety` | 2 pages, 2 payments, 1 card, 1 rent, 1 running fetch, faults | `SettledWhenDone`: a handler that ran to its end has cleared all its payment was charged for. `ClearedNeedsLog`: nothing is cleared unless a captured payment is on the log (a rent entered as 0 was not cleared). `LoggedOnce`: one log entry per payment, and it precedes clearing. `SettledIsNotCharged`: a page never charges a bill that was cleared before the page was opened, whatever fetches, callbacks and handlers of older pages still run. |
| `pay_quiet` | 2 cards, 1 rent, 2 pages, 2 payments, no faults | `ImplementsDues`: under the conditions above the page implements `Dues`: what the gateway takes is exactly what is due, nothing is taken twice, the log of a payment is what was taken |
| `pay_stale_charge` | violation | the gateway is opened with the total the page has, its initial 0.0 or that of an earlier fetch |
| `desk` | the payment page with 1 page, 1 payment, 1 card, 1 rent, faults; 1 admin page, 1 tile payment | `NoButtonMeansSettled`: a tile that shows 0 is right for good, however old. `ZeroHasReceipt`: a page that shows a bill that was cleared also shows a transaction of a captured payment, because it reads in the opposite order to the one the handler writes in. `CapturedIsSettled`: a captured payment is eventually logged and its bills cleared, also on a popped page, unless a call of its handler fails or its device dies. |
| `views` | the same payment page; 1 amount due, 1 list | `LeftOutIsSettled`: a bill that was there when the page was opened and is not in the amount due was cleared by a payment's batches, or entered as 0. `SettledHasReceipt`: who saw a bill that was entered with an amount left out and opens the list after that finds a captured payment on it. `ListIsSelection`: the list shows what the last search selects from all that was fetched; only a search before the arrival shows nothing, until the next one. |
| `writes` | 3 writes, 1 of them refused, 2 users, a pipeline of 2, 2 faults | `ImplementsService`: an await of a write means what `WriteService` says, over reconnects, lost and late requests, launches and changes of user. `QueueDrains`: a persisted write is resolved in the end, unless its user leaves. `AnswerIsForFront`: a response, which names no batch, is for the front of the pipeline. `CallbackIsOwn`: a caller is never answered for another write, although ids are reused. `PipelineIsHeadOfQueue`: the assertions of the client hold. |
| `watch` | 2 gets and 1 stream of one collection, 1 commit elsewhere, 1 fault | `GetIsAnswered`: every get returns, online or offline. `GetIsFresh`: a get that opens its view and is not answered from the cache is not older than its call. `OutstandingIsExact`: the count that tells overlapping listens apart is exact. `TokenIsHonest`: no resume token without its documents. `TrackerIsConsistent`: the assertions about timer, failures and stream hold. |
| `entry` | 1 card form, 1 rent form, 2 submits, 2 dates | `ListShowsSubmitted`: the list a submit opens has its document. `DueDateIsShown`: a rent is stored with the date the form showed, or none. `AcceptedIsStored`: an accepted submit is stored, also when the form is left. |
| `signup` | 2 taps, 2 requests, an ordinary and the admin email, a short and a good phone, 2 links at once, faults | `SuccessIsSaved`: success means account and profile exist. `OneWriterPerAccount`: repeated taps never give one account two writers. `LinkedIsTexted`: a linked phone was sent a code. `SubmitIsAnswered`: a submit ends in a dialog, unless its page is left or somebody else logs in while its write is queued. |
| `signup_no_profile` | violation | a signed-in user without a profile document |
| `nav` | 2 users, 2 waiting calls, depth 4 | `PagesRestOnSignIn`: every page of a user rests on that user's home page, every admin page on the admin page. `OnlyResetBlanks`: only the password reset can empty the stack. Both with dialogs and late calls at any place. |
| `profile` | 1 page, 2 saves, 2 pictures, a real and a blank text | `PictureWasUploaded`: the picture in the profile was in the storage after the upload of some save, and a save with a picture of its own writes no URL from before its own upload. `SaveCompletes`: a save is written although nobody awaits it, except one with a picture whose page is left. |

**Bounds.** Pages, payments, taps, requests and saves are slots used once; nothing
in the code depends on their number, and every hazard listed is a race between two
of them, so two suffice, and one bill of each collection suffices where the
collections are what is distinguished. One running fetch is enough for `pay_safety`, because a
fetch started by one page, or by a tap before, can outlive what started it; the
run of `pay_stale_charge` has two. `MaxDepth` 4 admits a home page, a drawer, a
page and one above it, which is enough for two calls to be started from
different depths, and for a dialog to appear on each (859 266 states). In `signup` (317 684 states), two
links at once, `MaxLinks`, are what a race takes. `profile` has one page: a late fetch or save of the same page
shows all that a second one would (221 342 states). `pay_safety` has 1 807 943 states, `pay_quiet` 69 989. `desk` and `views` keep the payment page at one
payment, since their pages compare one clearing with one log entry; with one payment
on the list a search can still match all, nothing, or come first. (An instance of
`AccountViews` with two payments ran to ten million states without an error before
it was stopped.)

In `writes` (55 372 states), three writes are what it takes: one in flight, one behind it in the pipeline
and one beyond its limit of two (the code's is ten; the code compares with it only),
with a refused one at any place among them, of either user. Two faults admit a
failure after a failure, a launch after a lost answer, and a user who leaves and
comes back. `stray` keeps the requests of the last closed connection only: those of
an earlier one that are still on their way by then are taken for lost.
In `watch` (182 068 states), two gets and a stream of one collection give
every overlap of a listen with the answers to an earlier one; one commit tells old
from new; one fault at any point takes the stream through failure, backoff and
restart. Instances with two collections and a third get (1.4 to 1.6 million states)
hold the invariants too; collections share the stream and the timer, nothing else.
`views` has 1 478 176 states, `desk` 178 256.

Slots get used up, so these systems do stop in the model; that is why the pay, desk, views, entry, profile, writes and watch runs do not
check for deadlock. `Navigation` and `SignUp` never stop.

**Symmetry** is used in the runs without fairness only.

**Fairness.** `FairSpec` asks that a call which waits for the backend is answered,
with a result or an error, and that the event loop then runs the continuation
(weak fairness per call: a continuation that is ready stays ready, and Dart's
event loop starves none). An answer finds its await only while the user of the write is logged
in: `SignUp` has the user and says so in `Answerable`, so that `SubmitIsAnswered` excepts the
submit whose user has changed; `PaymentForm`, `EditProfile` and `BillEntry` have no users, and
their `FairSpec` assumes that the one they are about stays. Nobody has to open a page, type, tap or leave, and the
gateway never has to answer. `FairSpec` of the two pipelines asks that the worker
queue runs what it was given and its timers fire (`ClientStep`: weak fairness for the
disjunction is enough, since each client step uses something up), and that the backend
answers on a connection that stays open. Failures, launches and sign-ins are bounded
and need not happen; without the bound nothing would drain.

## What is proved

Each theorem holds for every value of the constants that the named assumptions
admit: any sets of bills, pages, payments, texts, users and reads, any number of
running calls, with or without faults. In the pages' modules no set need be finite.

| Module | Theorem | Statement |
|---|---|---|
| `PaymentFormProofs` | `TypeCorrect` | `Spec => []TypeOK` |
| | `SettledWhenDoneHolds` | `Spec => []SettledWhenDone` |
| | `ClearedNeedsLogHolds` | `Spec => []ClearedNeedsLog` |
| | `LoggedOnceHolds` | `Spec => []LoggedOnce` |
| | `SettledIsNotChargedHolds` | `Spec => []SettledIsNotCharged` |
| | `QuietImplementsDues` | without faults, `QuietSpec => ImplementsDues` |
| | `BilledOnceHolds` | without faults, `QuietSpec => []BilledOnce` |
| `PaymentReadersProofs` | `DeskImplementsPaymentForm` | `DeskSpec => Spec` |
| | `DeskTypeCorrect` | `DeskSpec => []DeskTypeOK` |
| | `NoButtonMeansSettledHolds` | `DeskSpec => []NoButtonMeansSettled` |
| | `ZeroHasReceiptHolds` | `DeskSpec => []ZeroHasReceipt` |
| | `ViewsImplementPaymentForm` | `ViewsSpec => Spec` |
| | `ViewsTypeCorrect` | `ViewsSpec => []ViewsTypeOK` |
| | `LeftOutIsSettledHolds` | `ViewsSpec => []LeftOutIsSettled` |
| | `SettledHasReceiptHolds` | `ViewsSpec => []SettledHasReceipt` |
| | `ListIsSelectionHolds` | `ViewsSpec => []ListIsSelection` |
| `EditProfileProofs` | `TypeCorrect` | `Spec => []TypeOK` |
| | `PictureWasUploadedHolds` | `Spec => []PictureWasUploaded` |
| `BillEntryProofs` | `TypeCorrect` | `Spec => []TypeOK` |
| | `ListShowsSubmittedHolds` | `Spec => []ListShowsSubmitted` |
| | `DueDateIsShownHolds` | `Spec => []DueDateIsShown` |
| `SignUpProofs` | `TypeCorrect` | `Spec => []TypeOK` |
| | `SuccessIsSavedHolds` | `Spec => []SuccessIsSaved` |
| | `OneWriterPerAccountHolds` | `Spec => []OneWriterPerAccount` |
| | `LinkedIsTextedHolds` | `Spec => []LinkedIsTexted` |
| `NavigationProofs` | `TypeCorrect` | `Spec => []TypeOK` |
| | `PagesRestOnSignInHolds` | `Spec => []PagesRestOnSignIn` |
| | `OnlyResetBlanksHolds` | `Spec => OnlyResetBlanks` |
| `WatchPipelineProofs` | `TypeCorrect` | `Spec => []TypeOK` |
| | `TrackerIsConsistentHolds` | `Spec => []TrackerIsConsistent` |
| | `OutstandingIsExactHolds` | `Spec => []OutstandingIsExact` |
| | `TokenIsHonestHolds` | `Spec => []TokenIsHonest` |
| | `GetIsFreshHolds` | `Spec => []GetIsFresh` |
| `WritePipelineProofs` | `TypeCorrect` | `Spec => []TypeOK` |
| | `PipelineIsHeadOfQueueHolds` | `Spec => []PipelineIsHeadOfQueue` |
| | `AnswerIsForFrontHolds` | `Spec => []AnswerIsForFront` |
| | `CallbackIsOwnHolds` | `Spec => []CallbackIsOwn` |
| | `ServiceIsImplemented` | `Spec => ImplementsService` |
| | `AnswersAreTrueHolds` | `Spec => []AnswersAreTrue` |
| | `AppliedInOrderHolds` | `Spec => []AppliedInOrder` |

So each safety property of a run, the refinements included, is a theorem. Three
theorems state a property that no run has, because it follows from a refinement that
one has: `BilledOnce` (no bill is charged by two captured payments) from `Dues`,
`AnswersAreTrue` (`ok` means applied, `error` means refused and never applied) and
`AppliedInOrder` (no queued write is applied before one that was issued earlier by the
same user) from `WriteService`.

### Assumptions

* `BillsAssumption`: a card is not a rent; they are documents of different
  collections. `NoFormAssumption`, `NamesAssumption` (of `EditProfile`, `BillEntry` and
  `SignUp`), `NoneAssumption`: the values that stand for "none" are not among the
  real ones, nor a blank text among the others; in `SignUp` also, that the number of links at
  once is bounded by any number. `FaultsAssumption`: a flag.
* `~Faults` (no call fails and no device dies) is a hypothesis of the two theorems about
  `QuietSpec` and of nothing else: it is part of what "quiet" means. A page with a fault
  does not implement `Dues`.
* `DepthAssumption`: the bound on the Navigator stack is positive. It may be any
  number, so what is proved is true of the unbounded stack of the code.
* `ReadsAssumption`, `BoundsAssumption` of `WatchPipeline`: each read has a query, and
  the number of commits and faults is bounded by any number. `FiniteAssumption`:
  an app has finitely many queries and reads. It is needed: a snapshot sends one message per
  changed query, and the count of outstanding requests is the size of a set.
* `WritePipeline`: `BadAssumption`, the refused writes are writes; `MessagesAssumption`,
  the handshake and the refusal of a connection are not; `MaxPendingAssumption`, the
  pipeline has room for one; `MaxFaultsAssumption`, the bound on disturbances is any number.
  `FiniteAssumption`, the app issues finitely many writes, serves `TypeOK`, which bounds ids by
  the number of writes; that number is arbitrary.

### The payment page and what reads it

None of these invariants is inductive alone. `SettledWhenDone` speaks of handlers
that are done; to get there one must know how far each handler is, which
`Progress` says: once it has listed the cards, the cards it was charged for are
among them; once it has committed them they are at zero; then the same for the
rents. Listing reaches every charged bill only because a charge counts bills that
exist, and that is true only because every total, of a page or of a running
fetch, does (`TotalsAreIssued`). It stays at zero because no action reopens
a bill. `SettledIsNotCharged` needs `SettledState`: what was cleared when a page was opened is
cleared for good, and neither the page's total nor the sum of any fetch started for it nor a
charge of it holds such a bill; a fetch sums only what is owed at the moment it reads, and is
started after its page was opened. `ClearedNeedsLog` and `LoggedOnce` need `LogState`: a handler runs, and an
entry exists, only for a captured payment with a non-empty charge, and an entry
exists only for a handler that is past its first step. `OpenedByForms` gives each
checkout a page, without which the types of the totals are not kept. `IInv` is
the conjunction; one lemma per conjunct goes through the actions.

The readers' theorems rest on two facts about every step of `PaymentForm`: an issued
balance stays or becomes zero (`KeptStep`), and a captured payment keeps what it
was charged for (`CapturedStep`). With the first, a zero that was read stays one;
with both, a receipt that explained it still does. That there is a receipt when the
transactions are read is `ClearedNeedsLog` of the payment page, which holds in the
compositions because they implement `PaymentForm` (`DeskImplementsPaymentForm`,
`ViewsImplementPaymentForm`). `DeskInv` adds `NoButtonMeansSettled`, `SeenIsCleared` (a bill that a page read as cleared is
cleared; a rent entered as 0 has no receipt, so the two must be told apart) and `Explained`, which
is `ZeroHasReceipt` from the moment the transactions were read. `ViewsInv` says of an
amount due how far it has summed (`SumState`: of the bills that had an amount,
`Charged`, what the first read left out among the cards was cleared, then all of it), of a list that what its user had seen settled still is and
is explained by what was fetched (`ReceiptState`), and which of the three forms the
filtered list has (`SearchState`). That a card never holds a text `double.parse` refuses
or reads as 0 (`CardsAreNumbers`) is what makes the first sum complete.

`QuietInv` is the invariant under which the page implements `Dues`. At most one page
and one payment are active (`OnePage`, `OnePayment`); a fetch never runs beside a handler
(`FetchState`); outside of clearing the page shows nothing or all that is owed
(`TotalState`), so the gateway is opened with all or nothing (`ChargeState`); and what a
handler has logged but not cleared is exactly what is owed (`ClearState`). For the mapping one
more conjunct follows what the gateway takes (`PaidState`): a captured payment has its handler
ahead of it, running or done; until it is on the log its charge is nothing or all that is owed; and what is
on the log was taken with the same amount. When every captured payment has been logged, what was
taken is what is on the log (`AllLogged`). Each step then maps to one of `Dues`: the capture is `Take`, because
a bill counts as due until the gateway took it, the log entry is `Record`, and the
two batches that clear afterwards are stutters.

### The other pages

* `EditProfile`: a picture's URL travels from the storage through a save into the document
  and from there through a page into another save. `UrlsAreUploaded` says of all four places what
  `PictureWasUploaded` says of the document. `Carries` follows one save: from its upload on, what the
  storage holds is in its `since`, so that the URL it asks for is none from before.
* `BillEntry`: `SubmitState` ties a document to the submit that added it (its list can only
  open when it is stored), `DatesAgree` carries the date through form, submit and
  document.
* `SignUp`: `AttemptState` says what a call has done at each of its awaits (an account
  before the profile, a profile before the dialog, the dialog before the OTP page); a call whose page was left has
the fields the page had by then;
  `RequestState` and `PageState` that a `verificationId`, and a code that was proven, come
  with a message of the same page. `SuccessIsSaved` and `LinkedIsTexted` follow.
* `Navigation`: `Resting` gives every page of the stack the page it rests on, at its own
  position or below it. Every action pushes, pops or replaces the route on top (`ConfirmLink` does two of
  these) and nothing further down, a button leads to a page with the same root as its own, and what replaces
  the top is an open page, a dialog or a root. So it holds at any depth.

### The read path of the Firestore client

`GetIsFresh` needs the most. A waiting get is resolved by a snapshot, and a snapshot is
believed when the target is current and nothing is outstanding. Along this path:

* `Closed`: without an open stream there are no messages and no target states, so a new
  connection starts from nothing. `ViewState`: a query has a view as long as someone
  listens, and a get that waits has one that is not synced.
* `Exact` is `OutstandingIsExact` over named sets: append and removal of one message
  change the counts by one (`HitsAppend`, `HitsTail`). So the count is zero just when no
  request or answer is on its way (`NothingPending`), and what comes next is of the last listen.
  `Bounded`, for `TypeOK`: each request belongs to a read that began or ended.
* `PastState`: no document, token or message is of a commit still to come. `DocsOrdered`: the
  documents of a query arrive in the order of their commits.
* `WireState`: the last request for a query that is listened to is a listen, and one whose token
  covers the last commit is sent only with the document in the cache; once the wire is empty, what the backend has
  sent covers what it took as known (`Arrives`: it is in the cache, in the target,
  or among the responses that count).
* `SnapshotState`: before a snapshot that will be believed comes every document that it
  stands for, and every one that a waiting get must not miss.

`TokenIsHonest` follows where a snapshot stores its version as token: all documents it stands
for have arrived by then, and `DocsOrdered` puts the last of them in the target. `GetIsFresh` follows where it raises the view.

The proof found one mistake in the model: the cases that say how a message changes a
target overlapped, so that TLC took the first one and the prover could not
know which. They are disjoint now, in the order the code tests them.

### The write path of the Firestore client

None of the four invariants is inductive alone. `AnswerIsForFront` is about the first
response, but what arrives next depends on all that is in flight; `CallbackIsOwn` must survive
a counter of ids that a launch or a change of user sets back. What carries them:

* `IdsAreCounted`: the next id is at most one more than the writes issued so far. An id
  is new among what is queued, though not new, because `LoadNextBatchIdFromDb` looks at the
  queues of all users.
* `QueueIsOrdered` and `QueuedOnce`: the entries of a queue have increasing ids below the next
  one, and no write is in two places. `RemoveMutationBatch` looks for an id and the fill for the
  first id above the last in the pipeline; on ordered queues these are the front
  (`DequeueFront`) and the next position (`NextFollows`, `RefillFacts`), so the pipeline stays
  a prefix of the queue.
* `ConnectionState`: a connection that is not open has nothing in flight; before the
  handshake is done there is the handshake only; after it, the unread responses followed by
  the unserved requests are the pipeline, position by position. A response is its write's,
  and the write is applied, or it is the refusal, which is the last. Each way to lose a connection
  empties both, which is why a response of an old one is never taken for the
  front of the new one.
* `StrayState`: a late request of the last connection that the backend would still serve
  is for a write that was applied already, or for one whose predecessors in its queue
  are all applied or among the late requests before it. It must hold across
  dequeues and new writes (`OrderGrows`, `OrderWithoutFront`) and when a connection is given up
  (`AbandonOrder`).

The invariant splits in three (`QueueInv`, `ConnectionInv`, `StrayInv`), each kept by every step
(`QueueStep`, `ConnectionStep`, `StrayStep`) with the others as hypotheses. `Refill` and
`Dequeue` are stated over positions and the first match, which is what the LevelDB iterator
does, and not over a selection by a predicate.

The refinement takes the steps one by one (`ServiceStep`):

| Step of `WritePipeline` | Step of `WriteService` | because |
|---|---|---|
| `WriteMutations` | `Accept` | the queue grows at its end |
| `OnWriteStreamMutationResult` | `Confirm` | the response is the front's, and it is applied (`ConnectionState`) |
| `HandlePermanentWriteError` | `Refuse` | the refusal is of the front (`AnswerIsForFront`) |
| `ServeWrite` | `Apply`, or nothing for a refused one | the responses before it are of all the writes before it |
| `ServeStray` | `Apply`, or nothing if it was applied or is refused | `StrayState` |
| `Relaunch` | `Forget` | the queue is on disk, the callers are not |
| all others | nothing | |

That a caller who waits has a callback, and only that one (`CallbackIsOwn`), is what makes the
answer of `NotifyUser` the answer of `Resolve` (`NotifyFacts`, `Resolves`).

### What remains with model checking

* `CapturedIsSettled`, `SubmitIsAnswered`, `SaveCompletes`, `AcceptedIsStored`,
  `QueueDrains` and `GetIsAnswered`: liveness under fairness is beyond the prover, and so
  is `ENABLED`. These are all the liveness properties of the runs.
* The two findings: TLC shows them by a behaviour, and a theorem cannot.

## Where the code and its documentation disagree

Two disagreements are runs of their own, which find the behaviour; `PROJECT.json`,
"findings", quotes the lines.

* `pay_stale_charge`: `makePayment` (payments.dart:148) does not await the fetch.
* `signup_no_profile`: the profile write may fail after the account was created,
  and a retry is refused.

The models show more of the kind, which have no run. Two are about somebody's data:
`verifyOTP` links the phone to the user who is signed in by then
(otp_verification_page.dart:225), not, as its comment says (:209), to the account the
page is about; and a save without a new picture writes back `imageURL2`, a copy from
when the page was opened (edit_profile_page.dart:77), which undoes a picture that
another save has just stored. One is in the Firestore client: when a get was answered
offline, the removal of its listener sets the online state to `Unknown` while the stream
is starting or in its backoff (`RemoteStore::StopListening`). The next get starts no
timer, because the stream counts as started, so that it waits for the backend or for a
failure of the stream, however long, and not for the ten seconds of
`kOnlineStateTimeout`. `GetIsAnswered` holds because one of the two comes.

The others are consequences of the same gaps: `totalBalance` is reset after five awaits
(payments.dart:78) and PayNow stays enabled, so a second tap charges the same bills; the
logged amount is the total at callback time (payments.dart:46); a bill
added after the charge is cleared uncharged (payments.dart:58); the wallet
callback records nothing (payments.dart:96); the profile takes the email field as
it is after the account was created (signup_screen.dart:297); a phone marked as
too short is accepted, since the fields have no validators
(signup_screen.dart:209); a submit whose page is left, or whose user is replaced while the profile is
written, ends without any dialog (signup_screen.dart:293); a rent may be entered as 0, negative or as no
number at all (add_rent.dart:174); the reset pops a page that has nothing below it
(forgot_password.dart:69); logout replaces the page on top only, so the pages of
the previous user come back (nav_bar.dart:280); a tile pays the amount it was
loaded with (view_data.dart:345); picking the same date again stores none
(add_rent.dart:65); saving without a picture stores `''`
(edit_profile_page.dart:51); a blank text is saved as `''`
(edit_profile_page.dart:222).

## What is not modelled

* Static and demonstration pages (settings, notifications, plots, quick view, the
  Razorpay demo): fixed content, or code no page leads to.
* The platform projects, and the pods other than the Firestore client: gRPC, BoringSSL,
  abseil, nanopb and the like are libraries of other projects, copied in by a build
  tool. They have no state that a property of this app is about, and most of their
  lines are tables, generated messages and cryptography. Since nearly all C and C++
  lines of the repository are theirs, the mapped share of those lines stays small
  whatever is modelled of the app.
* Of the Firestore client, what the app never calls or never meets: transactions,
  aggregates, bundles, deletes (and with them limbo resolution and existence filters),
  waiting for pending writes, terminating, garbage collection of the cache, listens that
  the backend rejects (the rules allow every read), and the effect of a pending write on
  the local views. The models of the pages take a read for a read of the backend.
* The two halves of the client are not composed with the pages. What the client may do to
  a page's write is covered there all the same: a write of an app that died is
  delivered at the next launch (`QueueDrains`), which in `PaymentForm` is a handler that takes
  its step late and dies right after it; and an await of a user who logged out stays
  unanswered, which is a handler that takes no step. `CapturedIsSettled`, `SaveCompletes` and
  `AcceptedIsStored` assume that this does not happen: the user of the payment, the save or the
  form stays logged in until the answer. `SubmitIsAnswered` does not assume it, since the
  registration changes the user itself; it excepts such a submit by name.
* `admin/admin_payment.dart`: sorts and filters four payments written in its source.
* Layout, wording, streams shown as they come, the arithmetic of doubles (the amount in
  paise is `totalBalance * 100`).
* The debounce timer of the OTP field, which feeds an error text only; the handler
  given to `catchError` there, which leads to a second dialog.
* The autopay switch, which nothing reads or stores.

## Plan

Every component is modelled or listed above as left out, and every safety property and
refinement of a run is proved. What could follow:

1. Liveness: the runs are its only evidence. A larger instance of `desk` or `signup` costs
   more than it tells; a ranking argument, stated as an invariant per fair action, would be
   the next step that a prover could follow.
2. A composition of `WriteService` with a page, where a call of the page's handler is one
   accepted write: it would show in one run what "What is not modelled" argues in words.
   `WriteService` is small enough for that, and `ServiceIsImplemented` then
   replaces the whole client.
3. An abstract specification for the reads (what a `get()` promises, as `GetIsFresh` and
   `GetIsAnswered` together) that `WatchPipeline` implements, for the same purpose.
