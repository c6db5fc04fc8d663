---------------------------- MODULE EmailTemplates ----------------------------
(***************************************************************************)
(* The templates of e-mails and their attachments: the list                *)
(* (email-template-list.component.ts), the windows it opens (the form, the *)
(* preview with trial data, the attachments and the upload of a file) and  *)
(* the server (controllers/emails.go), where other users add attachments   *)
(* too.  Of a subject only its shape is kept: a line, a block of lines, or *)
(* nothing; of a message, whether there is one; of trial data, whether     *)
(* they are "bad".  The attachments are those of template 1.  Left out:    *)
(* the label, the sorting of the lists, the errors they show, and the      *)
(* confirmation before a removal.                                          *)
(***************************************************************************)
EXTENDS Integers, Sequences, FiniteSets, Functions

CONSTANTS
  MaxModels,  \* bound: templates created
  Uploads,    \* identities of attachments
  Sizes,      \* sizes of files
  Limit,      \* attachments.Current().MaxTemplateBytes
  MaxCalls    \* bound: requests of this browser in flight

\* Empty files, which take no room, are left out.
ASSUME TemplatesAssumption == IsFiniteSet(Uploads) /\ Sizes \subseteq Nat \ {0} /\ Limit \in Nat /\ MaxCalls \in Nat

VARIABLES
  models,     \* server: the subject of each template, or "gone"
  attached,   \* server: the size of each attachment, or 0
  uploads,    \* server: transactions that add an attachment
  calls,      \* requests of this browser
  lists,      \* what a list shows, and whether it loads
  panel,      \* "none", "form", "trial", "files" or "file"
  draft,      \* the form of a template
  trial,      \* the preview
  chosenFile  \* the size of the file that was chosen, or 0

templateVars == <<models, attached, uploads, calls, lists, panel, draft, trial, chosenFile>>

templateServerVars == <<models, attached, uploads>>

TrialData == {"bad", "x"}
Sources == {"sample", "custom"}

NoDraft == [id |-> 0, subject |-> "", message |-> "", dirty |-> FALSE, saving |-> FALSE]
NoTrial == [of |-> 0, source |-> "sample", sample |-> "bad", custom |-> "bad", locked |-> FALSE,
            asked |-> FALSE, same |-> FALSE, result |-> <<>>, current |-> FALSE]
NoUpload == [stage |-> "none", size |-> 0, total |-> 0]
NoCall == [op |-> "none", of |-> 0, answer |-> {}]

Alive == {t \in DOMAIN models : models[t] # "gone"}
Held == {u \in DOMAIN attached : attached[u] # 0}
RowsOf(source) == IF source = "templates" THEN Alive ELSE Held

(***************************************************************************)
(* Requests and lists                                                      *)
(***************************************************************************)
Call(op, of) == [op |-> op, of |-> of, answer |-> {}]

\* The request takes the first free place of cs.
Send(cs, call) ==
  LET free == {n \in DOMAIN cs : cs[n].op = "none"}
  IN  /\ free # {}
      /\ calls' = [cs EXCEPT ![CHOOSE n \in free : \A m \in free : n <= m] = call]

Without(n) == [calls EXCEPT ![n] = NoCall]

\* DataSource.load, which does not end the loads before it.
LoadList(cs, source) ==
  /\ Send(cs, Call("list", source))
  /\ lists' = [lists EXCEPT ![source].busy = TRUE]

\* disconnect: nobody hears the loads of a list that is closed.
Disconnected(cs, source) == [n \in DOMAIN cs |-> IF cs[n].op = "list" /\ cs[n].of = source THEN NoCall ELSE cs[n]]

Hears(op, answer, n) == calls[n].op = op /\ answer \in calls[n].answer

\* refresh(), and the button of the list.
RefreshList ==
  /\ \E s \in {"templates"} \cup (IF panel = "files" THEN {"files"} ELSE {}) :
       (s = "templates" => panel = "none") /\ LoadList(calls, s)
  /\ UNCHANGED <<templateServerVars, panel, draft, trial, chosenFile>>

\* An answer ends the loading, whichever load it answers.
HearList(n) ==
  /\ calls[n].op = "list"
  /\ \E rows \in calls[n].answer : lists' = [lists EXCEPT ![calls[n].of] = [rows |-> rows, busy |-> FALSE]]
  /\ calls' = Without(n)
  /\ UNCHANGED <<templateServerVars, panel, draft, trial, chosenFile>>

ListFails(n) ==
  /\ calls[n].op = "list"
  /\ lists' = [lists EXCEPT ![calls[n].of] = [rows |-> {}, busy |-> FALSE]]
  /\ calls' = Without(n)
  /\ UNCHANGED <<templateServerVars, panel, draft, trial, chosenFile>>

(***************************************************************************)
(* The form of a template                                                  *)
(***************************************************************************)
\* edit(): a new template, or one that is listed, as it is listed.
OpenTemplate ==
  /\ panel = "none" /\ panel' = "form"
  /\ \/ draft' = NoDraft
     \/ \E t \in lists["templates"].rows : draft' = [NoDraft EXCEPT !.id = t, !.subject = "line", !.message = "line"]
  /\ UNCHANGED <<templateServerVars, calls, lists, trial, chosenFile>>

\* A subject is typed on one line.
TypeText ==
  /\ panel = "form" /\ ~draft.saving
  /\ \/ \E s \in {"", "line"} : draft' = [draft EXCEPT !.subject = s, !.dirty = TRUE]
     \/ \E s \in {"", "line"} : draft' = [draft EXCEPT !.message = s, !.dirty = TRUE]
  /\ UNCHANGED <<templateServerVars, calls, lists, panel, trial, chosenFile>>

\* Mutant: the destination of the variable is not looked at.
CanInsertAnywhere(snippet, target) == ~draft.saving

CanInsert(snippet, target) == ~draft.saving /\ ~(snippet = "block" /\ target = "subject")

\* insertVariable, which never leaves a text empty.
InsertVariable ==
  /\ panel = "form"
  /\ \E snippet \in {"line", "block"}, target \in {"subject", "message"} :
       /\ CanInsert(snippet, target)
       /\ draft' = [draft EXCEPT ![target] = IF target = "message" THEN "line" ELSE snippet, !.dirty = TRUE]
  /\ UNCHANGED <<templateServerVars, calls, lists, panel, trial, chosenFile>>

CanSave == draft.subject # "" /\ draft.message # "" /\ draft.dirty /\ ~draft.saving

SubmitTemplate ==
  /\ panel = "form" /\ CanSave
  /\ draft' = [draft EXCEPT !.saving = TRUE]
  /\ Send(calls, Call("save", draft))
  /\ UNCHANGED <<templateServerVars, lists, panel, trial, chosenFile>>

\* The panel closes and the list loads.
HearSaved(n) ==
  /\ Hears("save", TRUE, n)
  /\ panel' = "none" /\ draft' = NoDraft
  /\ LoadList(Without(n), "templates")
  /\ UNCHANGED <<templateServerVars, trial, chosenFile>>

\* What was typed is kept, and may be sent again.
SaveFails(n) ==
  /\ calls[n].op = "save"
  /\ calls' = Without(n)
  /\ draft' = [draft EXCEPT !.saving = FALSE]
  /\ UNCHANGED <<templateServerVars, lists, panel, trial, chosenFile>>

CancelTemplate ==
  /\ panel = "form" /\ ~draft.saving
  /\ panel' = "none" /\ draft' = NoDraft
  /\ UNCHANGED <<templateServerVars, calls, lists, trial, chosenFile>>

(***************************************************************************)
(* The preview of a template                                               *)
(***************************************************************************)
ActiveData(t) == IF t.source = "sample" THEN t.sample ELSE t.custom

OpenTrial ==
  /\ panel = "none" /\ panel' = "trial"
  /\ \E t \in lists["templates"].rows, sample \in {"bad", "x"}, custom \in {"bad", "x"} :
       trial' = [NoTrial EXCEPT !.of = t, !.sample = sample, !.custom = custom]
  /\ UNCHANGED <<templateServerVars, calls, lists, draft, chosenFile>>

\* valueChanges: another revision, so that the preview on the page is out of date; the source is
\* locked while its data are invalid.
NewTrialRevision(t) == [t EXCEPT !.same = FALSE, !.current = FALSE, !.locked = ActiveData(t) = "bad"]

EditTrial ==
  /\ panel = "trial"
  /\ \/ \E s \in Sources \ {trial.source} : ~trial.locked /\ trial' = NewTrialRevision([trial EXCEPT !.source = s])
     \/ \E v \in TrialData \ {ActiveData(trial)} : trial' = NewTrialRevision([trial EXCEPT ![trial.source] = v])
  /\ UNCHANGED <<templateServerVars, calls, lists, panel, draft, chosenFile>>

CanTry == ActiveData(trial) # "bad" /\ ~trial.asked

\* The last preview stays on the page meanwhile, but is not held to be up to date.
SubmitTrial ==
  /\ panel = "trial" /\ CanTry
  /\ trial' = [trial EXCEPT !.asked = TRUE, !.same = TRUE, !.current = FALSE]
  /\ Send(calls, Call("preview", <<trial.of, trial.source, ActiveData(trial)>>))
  /\ UNCHANGED <<templateServerVars, lists, panel, draft, chosenFile>>

\* Mutant: the answer is shown whatever was typed since it was asked.
FitsRevisionAlways(t) == TRUE

FitsRevision(t) == t.same

HearTrial(n) ==
  /\ Hears("preview", TRUE, n)
  /\ calls' = Without(n)
  /\ trial' = IF FitsRevision(trial)
              THEN [trial EXCEPT !.asked = FALSE, !.result = <<calls[n].of[2], calls[n].of[3]>>, !.current = TRUE]
              ELSE [trial EXCEPT !.asked = FALSE]
  /\ UNCHANGED <<templateServerVars, lists, panel, draft, chosenFile>>

\* No answer, a refusal, or an answer that lacks a part: the last result is left on the page.
TrialFails(n) ==
  /\ calls[n].op = "preview"
  /\ calls' = Without(n)
  /\ trial' = [trial EXCEPT !.asked = FALSE]
  /\ UNCHANGED <<templateServerVars, lists, panel, draft, chosenFile>>

\* ngOnDestroy: nobody hears the answer.
CloseTrial ==
  /\ panel = "trial"
  /\ panel' = "none" /\ trial' = NoTrial
  /\ calls' = [n \in DOMAIN calls |-> IF calls[n].op = "preview" THEN NoCall ELSE calls[n]]
  /\ UNCHANGED <<templateServerVars, lists, draft, chosenFile>>

(***************************************************************************)
(* Attachments                                                             *)
(***************************************************************************)
OpenFiles ==
  /\ panel = "none" /\ 1 \in lists["templates"].rows
  /\ panel' = "files"
  /\ Send(calls, Call("list", "files"))
  /\ lists' = [lists EXCEPT !["files"] = [rows |-> {}, busy |-> TRUE]]
  /\ UNCHANGED <<templateServerVars, draft, trial, chosenFile>>

\* The list of templates counts the attachments, so it loads again.
CloseFiles ==
  /\ panel = "files" /\ panel' = "none"
  /\ Send(Disconnected(calls, "files"), Call("list", "templates"))
  /\ lists' = [lists EXCEPT !["templates"].busy = TRUE, !["files"] = [rows |-> {}, busy |-> FALSE]]
  /\ UNCHANGED <<templateServerVars, draft, trial, chosenFile>>

OpenFile ==
  /\ panel = "files" /\ panel' = "file"
  /\ UNCHANGED <<templateServerVars, calls, lists, draft, trial, chosenFile>>

Uploading == \E n \in DOMAIN calls : calls[n].op = "upload"

\* onFileSelected; the window is inert while it saves.
ChooseFile ==
  /\ panel = "file" /\ ~Uploading /\ \E s \in Sizes \cup {0} : chosenFile' = s
  /\ UNCHANGED <<templateServerVars, calls, lists, panel, draft, trial>>

SubmitFile ==
  /\ panel = "file" /\ ~Uploading /\ chosenFile # 0
  /\ \E u \in DOMAIN uploads :
       /\ uploads[u] = NoUpload /\ attached[u] = 0
       /\ uploads' = [uploads EXCEPT ![u] = [NoUpload EXCEPT !.stage = "waiting", !.size = chosenFile]]
       /\ Send(calls, Call("upload", u))
  /\ UNCHANGED <<models, attached, lists, panel, draft, trial, chosenFile>>

HearFile(n) ==
  /\ Hears("upload", TRUE, n)
  /\ panel' = "files" /\ chosenFile' = 0
  /\ LoadList(Without(n), "files")
  /\ UNCHANGED <<templateServerVars, draft, trial>>

\* A refusal or a lost answer; the transaction of the server goes on.
FileFails(n) ==
  /\ calls[n].op = "upload"
  /\ calls' = Without(n)
  /\ UNCHANGED <<templateServerVars, lists, panel, draft, trial, chosenFile>>

CancelFile ==
  /\ panel = "file" /\ ~Uploading
  /\ panel' = "files" /\ chosenFile' = 0
  /\ UNCHANGED <<templateServerVars, calls, lists, draft, trial>>

(***************************************************************************)
(* Removals                                                                *)
(***************************************************************************)
\* delete() of a row that is listed, after its confirmation.
RemoveRow ==
  /\ \/ panel = "none" /\ \E t \in lists["templates"].rows : Send(calls, Call("removeTemplate", t))
     \/ panel = "files" /\ \E u \in lists["files"].rows : Send(calls, Call("removeFile", u))
  /\ UNCHANGED <<templateServerVars, lists, panel, draft, trial, chosenFile>>

\* The list it was on loads again; the attachments' own list may be closed by then.
HearRemoved(n) ==
  /\ \/ Hears("removeTemplate", TRUE, n) /\ LoadList(Without(n), "templates")
     \/ /\ Hears("removeFile", TRUE, n)
        /\ IF panel \in {"files", "file"} THEN LoadList(Without(n), "files") ELSE calls' = Without(n) /\ UNCHANGED lists
  /\ UNCHANGED <<templateServerVars, panel, draft, trial, chosenFile>>

RemovalFails(n) ==
  /\ calls[n].op \in {"removeTemplate", "removeFile"}
  /\ calls' = Without(n)
  /\ UNCHANGED <<templateServerVars, lists, panel, draft, trial, chosenFile>>

(***************************************************************************)
(* The server                                                              *)
(***************************************************************************)
Answer(n, v) == calls' = [calls EXCEPT ![n].answer = {v}]

ServerReads(n) ==
  /\ calls[n].op \in {"list", "preview"} /\ calls[n].answer = {}
  /\ Answer(n, IF calls[n].op = "list" THEN RowsOf(calls[n].of) ELSE calls[n].of[1] \in Alive)
  /\ UNCHANGED <<templateServerVars, lists, panel, draft, trial, chosenFile>>

\* The row of template 1, that an addition holds.
RowHeld == \E u \in DOMAIN uploads : uploads[u].stage \in {"locked", "measured"}

\* CreateEmailTemplate and UpdateEmailTemplate: a template that is gone is not saved.
ServerSaves(n) ==
  /\ calls[n].op = "save" /\ calls[n].answer = {}
  /\ LET d == calls[n].of IN
       \/ /\ d.id = 0 /\ Len(models) < MaxModels
          /\ models' = Append(models, d.subject) /\ Answer(n, TRUE)
       \/ /\ d.id \in Alive /\ (d.id = 1 => ~RowHeld)
          /\ models' = [models EXCEPT ![d.id] = d.subject] /\ Answer(n, TRUE)
       \/ /\ d.id # 0 /\ d.id \notin Alive
          /\ Answer(n, FALSE) /\ UNCHANGED models
  /\ UNCHANGED <<attached, uploads, lists, panel, draft, trial, chosenFile>>

\* DeleteEmailTemplate and DeleteAttachment; a template is only marked, its attachments stay.
ServerRemoves(n) ==
  /\ calls[n].answer = {}
  /\ \/ /\ calls[n].op = "removeTemplate" /\ (calls[n].of = 1 => ~RowHeld)
        /\ models' = [models EXCEPT ![calls[n].of] = "gone"] /\ Answer(n, TRUE)
        /\ UNCHANGED attached
     \/ /\ calls[n].op = "removeFile"
        /\ attached' = [attached EXCEPT ![calls[n].of] = 0] /\ Answer(n, attached[calls[n].of] # 0)
        /\ UNCHANGED models
  /\ UNCHANGED <<uploads, lists, panel, draft, trial, chosenFile>>

\* Another user adds an attachment (bound: while they are listed here).
OtherUploads ==
  /\ panel \in {"files", "file"}
  /\ \E u \in DOMAIN uploads, s \in Sizes :
       /\ uploads[u] = NoUpload /\ attached[u] = 0
       /\ uploads' = [uploads EXCEPT ![u] = [NoUpload EXCEPT !.stage = "waiting", !.size = s]]
  /\ UNCHANGED <<models, attached, calls, lists, panel, draft, trial, chosenFile>>

\* Mutant: the row of the template is read without its lock.
RowIsOpenAlways == TRUE

RowIsOpen == ~RowHeld

\* AddAttachment: SELECT ... FOR UPDATE of the template.
LockTemplate(u) ==
  /\ uploads[u].stage = "waiting" /\ RowIsOpen /\ 1 \in Alive
  /\ uploads' = [uploads EXCEPT ![u].stage = "locked"]
  /\ UNCHANGED <<models, attached, calls, lists, panel, draft, trial, chosenFile>>

Total == SumFunction(attached)

\* checkAttachmentTotal
Measure(u) ==
  /\ uploads[u].stage = "locked"
  /\ uploads' = [uploads EXCEPT ![u].stage = "measured", ![u].total = Total]
  /\ UNCHANGED <<models, attached, calls, lists, panel, draft, trial, chosenFile>>

AnswerUpload(u, v) == calls' = [n \in DOMAIN calls |->
  IF calls[n].op = "upload" /\ calls[n].of = u THEN [calls[n] EXCEPT !.answer = {v}] ELSE calls[n]]

\* The insertion and the end of the transaction.
EndUpload(u) ==
  /\ \/ /\ uploads[u].stage = "measured"
        /\ LET fits == uploads[u].size <= Limit - uploads[u].total
           IN  /\ attached' = IF fits THEN [attached EXCEPT ![u] = uploads[u].size] ELSE attached
               /\ AnswerUpload(u, fits)
     \/ /\ uploads[u].stage = "waiting" /\ 1 \notin Alive
        /\ AnswerUpload(u, FALSE) /\ UNCHANGED attached
  /\ uploads' = [uploads EXCEPT ![u] = NoUpload]
  /\ UNCHANGED <<models, lists, panel, draft, trial, chosenFile>>

TemplateInit ==
  /\ models \in {<<>>, <<"line">>}
  /\ attached = [u \in Uploads |-> 0] /\ uploads = [u \in Uploads |-> NoUpload]
  /\ calls = [n \in 1..MaxCalls |-> IF n = 1 THEN Call("list", "templates") ELSE NoCall]
  /\ lists = [s \in {"templates", "files"} |-> [rows |-> {}, busy |-> s = "templates"]]
  /\ panel = "none" /\ draft = NoDraft /\ trial = NoTrial /\ chosenFile = 0

TemplateNext ==
  \/ RefreshList \/ OpenTemplate \/ TypeText \/ InsertVariable \/ SubmitTemplate \/ CancelTemplate
  \/ OpenTrial \/ EditTrial \/ SubmitTrial \/ CloseTrial
  \/ OpenFiles \/ CloseFiles \/ OpenFile \/ ChooseFile \/ SubmitFile \/ CancelFile \/ RemoveRow \/ OtherUploads
  \/ \E n \in DOMAIN calls : \/ HearList(n) \/ ListFails(n) \/ HearSaved(n) \/ SaveFails(n) \/ HearTrial(n) \/ TrialFails(n)
                             \/ HearFile(n) \/ FileFails(n) \/ HearRemoved(n) \/ RemovalFails(n)
                             \/ ServerReads(n) \/ ServerSaves(n) \/ ServerRemoves(n)
  \/ \E u \in DOMAIN uploads : LockTemplate(u) \/ Measure(u) \/ EndUpload(u)

(***************************************************************************)
(* Property                                                                *)
(***************************************************************************)
\* "two simultaneous uploads must not both pass a total calculated before either insert was
\* committed" (controllers/emails.go:140): attachments stay within the limit; a preview that
\* the page holds to be up to date shows the data on the page, which are valid; and a subject
\* is one line, wherever its variables came from.
TemplatesAreSound ==
  /\ Total <= Limit
  /\ trial.current => trial.result = <<trial.source, ActiveData(trial)>> /\ ActiveData(trial) # "bad"
  /\ \A t \in DOMAIN models : models[t] # "block"
==============================================================================
