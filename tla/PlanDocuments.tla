---------------------------- MODULE PlanDocuments ----------------------------
(***************************************************************************)
(* The building of the two business plans from their texts: LiveGuard's    *)
(* sections assembled into one Markdown file and converted to .docx        *)
(* (bp_build/assemble_md.py, render_docx.py, by make or by build.ps1), and *)
(* InvestMind's Markdown converted to .docx or printed to .pdf by a        *)
(* browser the script watches (bp_build/render_docx.py, render_pdf.py).    *)
(*                                                                         *)
(* A text is abstracted to the number of its edits; the size of the PDF is *)
(* a number of steps of the browser.                                       *)
(***************************************************************************)
EXTENDS Integers

CONSTANTS
    Plans,         \* "liveguard" has sections, "investmind" one text and a PDF
    MaxEdits,      \* bound on the edits
    MaxJobs,       \* bound on the builds
    Noticeable,    \* the first size over the 1000 bytes of the polling loop
    Enough,        \* the first size of 50 000 bytes or more
    WholePdf,         \* the size when the browser has printed it all
    StablePolls,   \* equal sizes after which the loop ends
    MaxPolls       \* polls before the deadline

ASSUME DocumentAssumption ==
    /\ {Noticeable, Enough, WholePdf, StablePolls, MaxPolls} \subseteq Nat \ {0}
    /\ Noticeable <= Enough /\ Enough <= WholePdf
    /\ {MaxEdits, MaxJobs} \subseteq Nat

VARIABLES
    plan,      \* the plan of this behaviour
    text,      \* what the authors have written
    images,    \* every chart the text names is there
    md,        \* the Markdown file, by the text it was made from
    docx,      \* the .docx
    pdf,       \* the .pdf: the text it was printed from and its size
    browser,   \* "none", "printing" or "hung"
    job,       \* the build that runs
    jobs,      \* the builds started
    ended      \* how the last build ended

documentVars == <<plan, text, images, md, docx, pdf, browser, job, jobs, ended>>

NoPdf == [of |-> 0, size |-> 0]
NoJob == [step |-> "none"]
Busy == job # NoJob
------------------------------------------------------------------------------
EditText(there) ==
    /\ text < MaxEdits
    /\ text' = text + 1 /\ images' = there
    /\ md' = IF plan = "liveguard" THEN md ELSE text'
    /\ UNCHANGED <<plan, docx, pdf, browser, job, jobs, ended>>

BeginBuild(kind, by, step) ==
    /\ ~Busy /\ jobs < MaxJobs
    /\ jobs' = jobs + 1
    /\ job' = [kind |-> kind, by |-> by, step |-> step, began |-> text,
               last |-> 0, stable |-> 0, polls |-> 0]
    /\ UNCHANGED <<plan, text, images, md, docx, pdf, browser, ended>>

(* make docx, or build.ps1 docx *)
BeginDocx ==
    \/ plan = "liveguard" /\ \E by \in {"make", "ps1"} : BeginBuild("docx", by, "assemble")
    \/ plan = "investmind" /\ BeginBuild("docx", "make", "reference")

BeginPdf == plan = "investmind" /\ BeginBuild("pdf", "make", "page")

EndBuild(ok) ==
    /\ job' = NoJob
    /\ ended' = [kind |-> job.kind, by |-> job.by, began |-> job.began, ok |-> ok]

Continue(step) == job' = [job EXCEPT !.step = step] /\ UNCHANGED ended

MutantFailed(next) == Continue(next)

(* A script exits with a code that is not 0: make stops; PowerShell takes no *)
(* notice of the exit code of a program, and goes on.                        *)
Failed(next) ==
    IF job.by = "make" THEN EndBuild(FALSE) ELSE Continue(next)

(* assemble_md.py: a section that cannot be read raises before anything is *)
(* written; a missing image fails the build when the file is written.      *)
Assemble ==
    /\ Busy /\ job.step = "assemble"
    /\ \/ Failed("reference") /\ UNCHANGED md
       \/ /\ md' = text
          /\ IF images THEN Continue("reference") ELSE Failed("reference")
    /\ UNCHANGED <<plan, text, images, docx, pdf, browser, jobs>>

(* build_reference: the styles that pandoc takes over. *)
BuildReference ==
    /\ Busy /\ job.step = "reference"
    /\ Continue("convert")
    /\ UNCHANGED <<plan, text, images, md, docx, pdf, browser, jobs>>

(* render_docx: pandoc writes the file, or fails and leaves the old one. *)
Convert ==
    /\ Busy /\ job.step = "convert"
    /\ \/ md # 0 /\ docx' = md /\ EndBuild(TRUE)
       \/ UNCHANGED docx /\ EndBuild(FALSE)
    /\ UNCHANGED <<plan, text, images, md, pdf, browser, jobs>>

(* md_to_html_body, assemble_html and write_text; the PDF of before is     *)
(* unlinked and the browser started.  Where pandoc fails the old one stays. *)
PrintPage ==
    /\ Busy /\ job.step = "page"
    /\ \/ /\ EndBuild(FALSE)
          /\ UNCHANGED <<pdf, browser>>
       \/ /\ Continue("poll")
          /\ pdf' = [NoPdf EXCEPT !.of = md]
          /\ browser' = "printing"
    /\ UNCHANGED <<plan, text, images, md, docx, jobs>>

(* The browser prints a little more, or hangs, deaf to terminate(). *)
BrowserStep ==
    /\ browser = "printing"
    /\ \/ pdf.size < WholePdf /\ pdf' = [pdf EXCEPT !.size = @ + 1] /\ UNCHANGED browser
       \/ browser' = "hung" /\ UNCHANGED pdf
    /\ UNCHANGED <<plan, text, images, md, docx, job, jobs, ended>>

(* One turn of the loop, 2 s after the one before.  The count of equal     *)
(* sizes is not set back when the size has changed.                        *)
Poll ==
    /\ Busy /\ job.step = "poll"
    /\ job.polls < MaxPolls /\ job.stable < StablePolls
    /\ LET equal == pdf.size >= Noticeable /\ pdf.size = job.last
       IN  job' = [job EXCEPT !.polls = @ + 1, !.last = pdf.size,
                              !.stable = IF equal THEN @ + 1 ELSE @]
    /\ UNCHANGED <<plan, text, images, md, docx, pdf, browser, jobs, ended>>

(* terminate, wait, kill, wait; then the file must be there and be big     *)
(* enough.                                                                 *)
FinishPdf ==
    /\ Busy /\ job.step = "poll"
    /\ job.polls = MaxPolls \/ job.stable = StablePolls
    /\ browser' = "none"
    /\ EndBuild(pdf.size >= Enough)
    /\ UNCHANGED <<plan, text, images, md, docx, pdf, jobs>>

DocumentInit ==
    /\ plan \in Plans
    /\ text = 1 /\ images = TRUE
    /\ md = IF plan = "liveguard" THEN 0 ELSE 1
    /\ docx = 0 /\ pdf = NoPdf /\ browser = "none"
    /\ job = NoJob /\ jobs = 0
    /\ ended = [kind |-> "none", by |-> "make", began |-> 0, ok |-> FALSE]

DocumentNext ==
    \/ \E there \in BOOLEAN : EditText(there)
    \/ BeginDocx \/ BeginPdf
    \/ Assemble \/ BuildReference \/ Convert
    \/ PrintPage \/ BrowserStep \/ Poll \/ FinishPdf

DocumentSpec == DocumentInit /\ [][DocumentNext]_documentVars
------------------------------------------------------------------------------
(* A build that make reports as good has left a document of the text as it  *)
(* was when the build began or later, never one of an earlier build,        *)
(* although the texts are edited beside it, the programs it calls fail and  *)
(* the browser stalls or hangs; no browser is left that could still write   *)
(* the file; and in every plan the .docx is never ahead of the Markdown     *)
(* beside it.  (render_docx.py:142, assemble_md.py:107, render_pdf.py:76)   *)
DocumentIsOfItsBuild ==
    /\ ~Busy /\ ended.ok /\ ended.by = "make" =>
          IF ended.kind = "docx" THEN docx >= ended.began
          ELSE pdf.of >= ended.began /\ pdf.size >= Enough /\ browser = "none"
    /\ docx <= md
==============================================================================
