--------------------------- MODULE Questionnaire ---------------------------
(***************************************************************************)
(* The phase questionnaire (src/src/phase-questionnaire/runner.ts), as     *)
(* handlers/phase.ts, the onboarding wizard and the timer's script call    *)
(* it.  A worker is one call; calls of one process and of several          *)
(* interleave between their awaits.  A form is one session of              *)
(* state.phase_questionnaire_sessions, which is a list: a locked           *)
(* read-change-write of it is one step.                                    *)
(***************************************************************************)
EXTENDS Naturals, Sequences, SequencesExt

CONSTANTS
  Workers,    \* calls under way at a time
  Forms,      \* session ids
  Questions,  \* the questions of a form, whatever its cadence
  Asked,      \* the cadences the command and the timers ask for
  None,
  MaxEvents   \* bound on calls, dead calls and days

ASSUME FormsAssumption ==
  MaxEvents \in Nat /\ None \notin Forms /\ Asked \subseteq {"weekly", "monthly", "quarterly"}

VARIABLES
  forms,    \* state.phase_questionnaire_sessions
  threads,  \* the forms whose thread was posted
  day,      \* the day it is
  job,      \* what each worker is doing, with what it has read
  used,     \* history variable: the ids given out
  dead,     \* history variable: the forms a call died on
  joint,    \* history variable: the forms with submissions that overlapped
  events

fvars == <<forms, threads, day, job, used, dead, joint, events>>
-----------------------------------------------------------------------------
Cadences == {"weekly", "monthly", "quarterly"}

NextCadence == [c \in Cadences |->
  CASE c = "quarterly" -> "monthly" [] c = "monthly" -> "weekly" [] OTHER -> None]

Idle == [at |-> "idle"]
At(w, place) == job[w].at = place
Goes(w, j) == job' = [job EXCEPT ![w] = j]
Happens == events < MaxEvents /\ events' = events + 1

Known(f) == \E i \in DOMAIN forms : forms[i].id = f
Form(f) == forms[CHOOSE i \in DOMAIN forms : forms[i].id = f]

\* upsertSession: the record of that id replaced where it is, or a new one
\* at the end.
Upsert(list, form) ==
  IF \E i \in DOMAIN list : list[i].id = form.id
    THEN [i \in DOMAIN list |-> IF list[i].id = form.id THEN form ELSE list[i]]
    ELSE Append(list, form)

On(w, f) == ~ At(w, "idle") /\ "form" \in DOMAIN job[w] /\ job[w].form = f

\* Ids are made as unique as ulids: none is given out twice.
New(f) == f \notin used

FormsInit ==
  /\ forms = <<>>
  /\ threads = {}
  /\ day = 0
  /\ job = [w \in Workers |-> Idle]
  /\ used = {}
  /\ dead = {}
  /\ joint = {}
  /\ events = 0
-----------------------------------------------------------------------------
\* startPhaseQuestionnaire: the thread is posted, then the form is kept.

Opening(f, cadence, chain) == [at |-> "open", form |-> f, cadence |-> cadence, chain |-> chain]

\* The command and the timer ask for a cadence and no chain, the end of
\* the onboarding for a quarterly form that chains.
Start(w) ==
  /\ At(w, "idle")
  /\ Happens
  /\ \E f \in Forms :
       /\ New(f)
       /\ used' = used \cup {f}
       /\ \/ \E c \in Asked : Goes(w, Opening(f, c, FALSE))
          \/ Goes(w, Opening(f, "quarterly", TRUE))
  /\ UNCHANGED <<forms, threads, day, dead, joint>>

PostThread(w) ==
  /\ At(w, "open")
  /\ threads' = threads \cup {job[w].form}
  /\ Goes(w, [job[w] EXCEPT !.at = "keep"])
  /\ UNCHANGED <<forms, day, used, dead, joint, events>>

\* Discord refuses; the operator is told, or is not.
PostFails(w) ==
  /\ At(w, "open")
  /\ Goes(w, [job[w] EXCEPT !.at = "keep"])
  /\ UNCHANGED <<forms, threads, day, used, dead, joint, events>>

KeepForm(w) ==
  /\ At(w, "keep")
  /\ LET f == job[w].form IN
       forms' = Upsert(forms,
         [id |-> f, cadence |-> job[w].cadence, chain |-> job[w].chain, started |-> day,
          status |-> IF f \in threads THEN "awaiting" ELSE "failed",
          answers |-> {}, synthesis |-> None])
  /\ Goes(w, Idle)
  /\ UNCHANGED <<threads, day, used, dead, joint, events>>
-----------------------------------------------------------------------------
\* submitPhaseAnswers.  The form is marked whatever its status.

MergedFaulty(form, given) == given  \* Faulty: earlier answers are dropped.
Merged(form, given) == form.answers \cup given

SeenFaulty(marked, given) == given  \* Faulty: the model sees only what came now.
Seen(marked, given) == marked.answers

Submit(w) ==
  /\ At(w, "idle")
  /\ Happens
  /\ \E f \in Forms, given \in SUBSET Questions :
       /\ Known(f)
       /\ LET marked == [Form(f) EXCEPT !.answers = Merged(Form(f), given), !.status = "synthesizing"] IN
            /\ forms' = Upsert(forms, marked)
            /\ Goes(w, [at |-> "synthesize", form |-> f, answers |-> Seen(marked, given)])
       /\ joint' = IF \E v \in Workers : On(v, f) THEN joint \cup {f} ELSE joint
  /\ UNCHANGED <<threads, day, used, dead>>

\* The model answers with something to read (and the operator gets the
\* digest, or does not), or with nothing.
Synthesize(w) ==
  /\ At(w, "synthesize")
  /\ \E made \in {None, job[w].answers} :
       Goes(w, [at |-> "settle", form |-> job[w].form, made |-> made])
  /\ UNCHANGED <<forms, threads, day, used, dead, joint, events>>

\* The form as it is now gets the outcome; a completed one that chains
\* opens the next.
Settle(w) ==
  /\ At(w, "settle")
  /\ LET f == job[w].form
         done == job[w].made # None
         settled == [Form(f) EXCEPT !.status = IF done THEN "completed" ELSE "failed",
                                    !.synthesis = job[w].made]
     IN IF ~ Known(f)
          THEN Goes(w, Idle) /\ UNCHANGED <<forms, used>>
          ELSE /\ forms' = Upsert(forms, settled)
               /\ IF done /\ settled.chain /\ NextCadence[settled.cadence] # None
                     /\ \E g \in Forms : New(g)
                    THEN \E g \in Forms :
                           /\ New(g)
                           /\ used' = used \cup {g}
                           /\ Goes(w, Opening(g, NextCadence[settled.cadence], TRUE))
                    ELSE Goes(w, Idle) /\ UNCHANGED used
  /\ UNCHANGED <<threads, day, dead, joint, events>>

\* The process of a call dies, or a locked write of it is refused.
Die(w) ==
  /\ ~ At(w, "idle")
  /\ Happens
  /\ dead' = IF "form" \in DOMAIN job[w] THEN dead \cup {job[w].form} ELSE dead
  /\ Goes(w, Idle)
  /\ UNCHANGED <<forms, threads, day, used, joint>>

DayPasses ==
  /\ Happens
  /\ day' = day + 1
  /\ UNCHANGED <<forms, threads, job, used, dead, joint>>

FormSteps(w) == PostThread(w) \/ PostFails(w) \/ KeepForm(w) \/ Synthesize(w) \/ Settle(w)

FormsNext ==
  \/ \E w \in Workers : Start(w) \/ Submit(w) \/ FormSteps(w) \/ Die(w)
  \/ DayPasses
-----------------------------------------------------------------------------
FormRecords ==
  [id : Forms, cadence : Cadences, chain : BOOLEAN, started : Nat,
   status : {"awaiting", "synthesizing", "completed", "failed"},
   answers : SUBSET Questions, synthesis : {None} \cup SUBSET Questions]

FormsTypeOK ==
  /\ \A i \in DOMAIN forms : forms[i] \in FormRecords
  /\ IsInjective([i \in DOMAIN forms |-> forms[i].id])
  /\ threads \subseteq Forms /\ used \subseteq Forms /\ dead \subseteq Forms /\ joint \subseteq Forms

\* A thread of questions has a form to answer, or a call that is about to
\* keep it, unless the call died in between (runner.ts posts, then keeps).
ThreadHasForm ==
  \A f \in threads : Known(f) \/ f \in dead \/ \E w \in Workers : On(w, f)

\* A form is being synthesized only while a submission is at it, unless one
\* died there: nothing else leads out of that status.
SynthesisGoesOn ==
  \A i \in DOMAIN forms : forms[i].status = "synthesizing" =>
    forms[i].id \in dead \/ \E w \in Workers : On(w, forms[i].id)

\* A completed form's synthesis was made from all the answers it keeps,
\* unless two submissions of it overlapped or one died (the model is given
\* the merged answers, and later ones mark the form again).
SynthesisIsCurrent ==
  \A i \in DOMAIN forms : forms[i].status = "completed" =>
    forms[i].synthesis = forms[i].answers \/ forms[i].id \in joint \cup dead
=============================================================================
