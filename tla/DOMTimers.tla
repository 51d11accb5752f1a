------------------------------- MODULE DOMTimers -------------------------------
(***************************************************************************)
(* Suspension of script timers.  The port has given SuspendableTimer two   *)
(* independent reasons: the general one, for modal dialogs, the debugger   *)
(* and the page cache, and one for windows behind another window.  All     *)
(* pages are of one group and have one frame each.  Of suspending a        *)
(* document only its timers are modelled, not its parser, tasks, scripts   *)
(* and animations.  Times are left out: an active timer may fire.          *)
(***************************************************************************)
EXTENDS Naturals, Sequences

CONSTANTS
    ScriptTimers, Pages, Docs,
    NoDoc,
    PageOf,       \* the page that shows a document
    MaxDialogs    \* bound: dialogs and pauses in progress

ASSUME DOMAssumption ==
    /\ NoDoc \notin Docs
    /\ PageOf \in [Docs -> Pages]
    /\ MaxDialogs \in Nat

VARIABLES
    timer,      \* the script timers
    shown,      \* the document of each page
    cached,     \* documents in the page cache
    suspended,  \* m_activeDOMObjectsAreSuspended of each document
    visible,    \* chromeVisible() of each page
    deferred,   \* m_defersLoading of each page
    dialogs,    \* nested dialogs, with the pages they defer, and pauses
    cache,      \* the embedder has enabled the page cache
    debugger    \* a script debugger is attached

domVars == <<timer, shown, cached, suspended, visible, deferred, dialogs, cache, debugger>>

Timer == [doc : Docs \cup {NoDoc}, repeats : BOOLEAN, active : BOOLEAN,
          kept : BOOLEAN, general : BOOLEAN, hidden : BOOLEAN]
Entry == [kind : {"dialog", "pause"}, pages : SUBSET Pages]

Deleted == [doc |-> NoDoc, repeats |-> FALSE, active |-> FALSE,
            kept |-> FALSE, general |-> FALSE, hidden |-> FALSE]

NewTimer(d, repeats) == [Deleted EXCEPT !.doc = d, !.repeats = repeats, !.active = TRUE]

DOMInit ==
    /\ timer = [t \in ScriptTimers |-> Deleted]
    /\ shown \in {f \in [Pages -> Docs] : \A p \in Pages : PageOf[f[p]] = p}
    /\ cached = {}
    /\ suspended = [d \in Docs |-> FALSE]
    /\ visible = [p \in Pages |-> TRUE]
    /\ deferred = [p \in Pages |-> FALSE]
    /\ dialogs = <<>>
    /\ cache \in BOOLEAN
    /\ debugger \in BOOLEAN

(***************************************************************************)
(* SuspendableTimer.                                                       *)
(***************************************************************************)

IsSuspended(r) == r.general \/ r.hidden

\* As it would be without the port's early return.
SuspendAgain(r, reason) ==
    LET s == IF reason = "hidden" THEN [r EXCEPT !.hidden = TRUE] ELSE [r EXCEPT !.general = TRUE]
    IN  [s EXCEPT !.kept = r.active, !.active = FALSE]

Suspend(r, reason) ==
    LET s == IF reason = "hidden" THEN [r EXCEPT !.hidden = TRUE] ELSE [r EXCEPT !.general = TRUE]
    IN  IF IsSuspended(r) THEN s ELSE [s EXCEPT !.kept = r.active, !.active = FALSE]

\* resume() once the reason is cleared: the timer starts unless another remains.
Restart(r) ==
    IF IsSuspended(r) THEN r ELSE [r EXCEPT !.active = @ \/ r.kept, !.kept = FALSE]

Resume(r) == Restart([r EXCEPT !.general = FALSE])

ResumeOnInvisibleChrome(r) ==
    IF r.hidden THEN Restart([r EXCEPT !.hidden = FALSE]) ELSE r

(***************************************************************************)
(* Documents.                                                              *)
(***************************************************************************)

\* The timers of documents ds, changed by Op(_).
Change(ds, Op(_)) ==
    [t \in ScriptTimers |-> IF timer[t].doc \in ds THEN Op(timer[t]) ELSE timer[t]]

SuspendActiveDOMObjects(ds) ==
    /\ timer' = Change(ds, LAMBDA r : Suspend(r, "general"))
    /\ suspended' = [d \in Docs |-> d \in ds \/ suspended[d]]

ResumeActiveDOMObjects(ds) ==
    /\ timer' = Change(ds, Resume)
    /\ suspended' = [d \in Docs |-> d \notin ds /\ suspended[d]]

DocsOf(ps) == {shown[p] : p \in ps}

(***************************************************************************)
(* Scripts.                                                                *)
(***************************************************************************)

AtPause == dialogs # <<>> /\ dialogs[Len(dialogs)].kind = "pause"

\* A script of page p runs, or the console of the paused debugger.
ScriptRuns(p) == ~deferred[p] \/ AtPause

\* setTimeout() and setInterval(), possibly of another page's window.
Install(t, d, repeats) ==
    /\ timer[t] = Deleted
    /\ d \in DocsOf(Pages)
    /\ \E p \in Pages : ScriptRuns(p)
    /\ timer' = [timer EXCEPT ![t] =
                   IF suspended[d] THEN Suspend(NewTimer(d, repeats), "general") ELSE NewTimer(d, repeats)]
    /\ UNCHANGED <<shown, cached, suspended, visible, deferred, dialogs, cache, debugger>>

RemoveById(t) ==
    /\ timer[t].doc \in DocsOf(Pages)
    /\ \E p \in Pages : ScriptRuns(p)
    /\ timer' = [timer EXCEPT ![t] = Deleted]
    /\ UNCHANGED <<shown, cached, suspended, visible, deferred, dialogs, cache, debugger>>

\* fired() in a window behind another.  The loop has taken a one-shot timer out.
FireHidden(t) ==
    /\ timer[t].active
    /\ ~visible[PageOf[timer[t].doc]]
    /\ timer' = [timer EXCEPT ![t] = Suspend(@, "hidden")]
    /\ UNCHANGED <<shown, cached, suspended, visible, deferred, dialogs, cache, debugger>>

\* As it would be if a one-shot timer were started again.
FireVisibleAgain(t) ==
    /\ timer[t].active
    /\ visible[PageOf[timer[t].doc]]
    /\ UNCHANGED domVars

\* fired(): the action runs, after a one-shot timer is deleted.
FireVisible(t) ==
    /\ timer[t].active
    /\ visible[PageOf[timer[t].doc]]
    /\ timer' = [timer EXCEPT ![t] = IF timer[t].repeats THEN @ ELSE Deleted]
    /\ UNCHANGED <<shown, cached, suspended, visible, deferred, dialogs, cache, debugger>>

(***************************************************************************)
(* Dialogs, the debugger, windows.                                         *)
(***************************************************************************)

\* PageGroupLoadDeferrer for the pages ps that do not defer already.
Defer(ps) ==
    LET ds == {p \in ps : ~deferred[p]} IN
    /\ Len(dialogs) < MaxDialogs
    /\ SuspendActiveDOMObjects(DocsOf(ds))
    /\ deferred' = [p \in Pages |-> p \in ds \/ deferred[p]]
    /\ dialogs' = Append(dialogs, [kind |-> "dialog", pages |-> ds])
    /\ UNCHANGED <<shown, cached, visible, cache, debugger>>

\* runJavaScriptAlert(), ...Confirm() and ...Prompt(), print() and others.
RunJavaScriptDialog(p) ==
    /\ ScriptRuns(p)
    /\ Defer(Pages)

\* showModalDialog(): p shows the dialog that a script of another page opened.
RunModal(p) ==
    /\ \E q \in Pages \ {p} : ScriptRuns(q)
    /\ Defer(Pages \ {p})

\* As it would be if every page were resumed.
EndsForAll(k) ==
    /\ dialogs # <<>>
    /\ dialogs[Len(dialogs)].kind = k
    /\ ResumeActiveDOMObjects(DocsOf(Pages))
    /\ deferred' = [p \in Pages |-> FALSE]
    /\ dialogs' = SubSeq(dialogs, 1, Len(dialogs) - 1)
    /\ UNCHANGED <<shown, cached, visible, cache, debugger>>

\* The innermost dialog or pause, of kind k, ends.
Ends(k) ==
    /\ dialogs # <<>>
    /\ dialogs[Len(dialogs)].kind = k
    /\ LET ps == dialogs[Len(dialogs)].pages IN
         /\ ResumeActiveDOMObjects(DocsOf(ps))
         /\ deferred' = [p \in Pages |-> p \notin ps /\ deferred[p]]
    /\ dialogs' = SubSeq(dialogs, 1, Len(dialogs) - 1)
    /\ UNCHANGED <<shown, cached, visible, cache, debugger>>

DialogEnds == Ends("dialog")

\* didPause(): a script of page p stops, and with it all pages of the group.
DebuggerPauses(p) ==
    /\ debugger
    /\ ~deferred[p]
    /\ Len(dialogs) < MaxDialogs
    /\ SuspendActiveDOMObjects(DocsOf(Pages))
    /\ deferred' = [q \in Pages |-> TRUE]
    /\ dialogs' = Append(dialogs, [kind |-> "pause", pages |-> Pages])
    /\ UNCHANGED <<shown, cached, visible, cache, debugger>>

DebuggerContinues == Ends("pause")

\* As it would be if only the flag were set.
NotifyChromeVisibleOnly(p, b) ==
    /\ visible' = [visible EXCEPT ![p] = b]
    /\ UNCHANGED <<timer, shown, cached, suspended, deferred, dialogs, cache, debugger>>

NotifyChromeVisible(p, b) ==
    /\ visible' = [visible EXCEPT ![p] = b]
    /\ timer' = IF b THEN Change({shown[p]}, ResumeOnInvisibleChrome) ELSE timer
    /\ UNCHANGED <<shown, cached, suspended, deferred, dialogs, cache, debugger>>

(***************************************************************************)
(* Navigation.                                                             *)
(***************************************************************************)

\* The page leaves its document, for the cache or for good.
Left(r, keep) == IF keep THEN Suspend(r, "general") ELSE Deleted

\* The page goes to d, a new document or one from the cache.
Navigate(p, d, keep) ==
    /\ ~deferred[p]
    /\ keep => cache
    /\ PageOf[d] = p /\ d # shown[p]
    /\ timer' = [t \in ScriptTimers |->
                   CASE timer[t].doc = shown[p] -> Left(timer[t], keep)
                     [] timer[t].doc = d        -> Resume(timer[t])
                     [] OTHER                   -> timer[t]]
    /\ suspended' = [suspended EXCEPT ![shown[p]] = keep, ![d] = FALSE]
    /\ cached' = (cached \ {d}) \cup (IF keep THEN {shown[p]} ELSE {})
    /\ shown' = [shown EXCEPT ![p] = d]
    /\ UNCHANGED <<visible, deferred, dialogs, cache, debugger>>

\* The cache drops a document.
Evict(d) ==
    /\ d \in cached
    /\ timer' = Change({d}, LAMBDA r : Deleted)
    /\ cached' = cached \ {d}
    /\ suspended' = [suspended EXCEPT ![d] = FALSE]
    /\ UNCHANGED <<shown, visible, deferred, dialogs, cache, debugger>>

DOMNext ==
    \/ \E t \in ScriptTimers : \/ \E d \in Docs, b \in BOOLEAN : Install(t, d, b)
                               \/ RemoveById(t)
                               \/ FireHidden(t)
                               \/ FireVisible(t)
    \/ \E p \in Pages : \/ RunJavaScriptDialog(p)
                        \/ RunModal(p)
                        \/ DebuggerPauses(p)
                        \/ \E b \in BOOLEAN : NotifyChromeVisible(p, b)
                        \/ \E d \in Docs, keep \in BOOLEAN : Navigate(p, d, keep)
    \/ DialogEnds
    \/ DebuggerContinues
    \/ \E d \in Docs : Evict(d)

DOMSpec == DOMInit /\ [][DOMNext]_domVars

\* An active timer fires, by ThreadTimers.
FairDOMSpec == DOMSpec /\ \A t \in ScriptTimers : WF_domVars(FireHidden(t) \/ FireVisible(t))

(***************************************************************************)
(* Properties.                                                             *)
(***************************************************************************)

Set == {t \in ScriptTimers : timer[t].doc # NoDoc}

\* Every variable has its type.
DOMTypeOK ==
    /\ timer \in [ScriptTimers -> Timer]
    /\ shown \in [Pages -> Docs]
    /\ cached \subseteq Docs
    /\ suspended \in [Docs -> BOOLEAN]
    /\ visible \in [Pages -> BOOLEAN]
    /\ deferred \in [Pages -> BOOLEAN]
    /\ dialogs \in Seq(Entry)
    /\ cache \in BOOLEAN /\ debugger \in BOOLEAN

\* A timer that is set runs, or it is suspended for a reason and remembers that
\* it ran, never both and never neither, in whatever order the reasons come and
\* go: suspend() and resume() lose no timer and start none twice.
NeverLost ==
    \A t \in Set : LET r == timer[t] IN
        /\ IsSuspended(r) => r.kept /\ ~r.active
        /\ ~IsSuspended(r) => r.active

\* A timer has the general reason if and only if its document is suspended, also
\* when it is installed while the document is.
SuspendedWithDocument == \A t \in Set : timer[t].general = suspended[timer[t].doc]

\* Without a debugger no timer can fire beneath a dialog: PageGroupLoadDeferrer
\* does "not want JS code executed beneath modal windows or sheets".
QuietBeneathDialog ==
    ~debugger => \A i \in 1..Len(dialogs) : dialogs[i].kind = "dialog" =>
        \A t \in Set : timer[t].doc \in DocsOf(dialogs[i].pages) => ~timer[t].active

\* Without the page cache only timers of a hidden window are held back for being
\* hidden: DOMTimer::fired() "surpress[es] this fire" while another is in front.
HiddenWhileHidden ==
    ~cache => \A t \in Set : timer[t].hidden /\ timer[t].doc \in DocsOf(Pages) => ~visible[PageOf[timer[t].doc]]

Ready(t) ==
    /\ timer[t].doc \in DocsOf(Pages) /\ ~timer[t].repeats
    /\ visible[PageOf[timer[t].doc]] /\ ~deferred[PageOf[timer[t].doc]]

\* A one-shot timer of a window that stays in front, without a dialog, fires
\* (without the page cache, which may bring it back suspended).
ReadyTimersFire == \A t \in ScriptTimers : []<>(cache \/ ~Ready(t))
================================================================================
