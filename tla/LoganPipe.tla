------------------------------ MODULE LoganPipe ------------------------------
(***************************************************************************)
(* What LoganControlCenter and LoganThread together promise their callers: *)
(* one line in which accepted models wait, served in order by one server,  *)
(* that runs one upload beside it.  A SEND that finds an upload running    *)
(* steps aside and rejoins the end of the line when that upload ends.      *)
(* LoganQueue, with its threads, monitors and flags, implements this.      *)
(***************************************************************************)
EXTENDS Naturals, Sequences

CONSTANTS Model,       \* the models callers hand over, with a field `action'
          Nothing      \* no upload is running

VARIABLES
    line,       \* accepted models, the next to be served first
    aside,      \* SENDs that wait for the running upload to end
    upload,     \* the SEND that is being uploaded
    served      \* models served for good, in order

pipe == <<line, aside, upload, served>>

PipeInit ==
    /\ line = <<>>
    /\ aside = <<>>
    /\ upload = Nothing
    /\ served = <<>>

\* A caller hands over a model.
Accept(m) ==
    /\ line' = Append(line, m)
    /\ UNCHANGED <<aside, upload, served>>

\* The next model is not a SEND, or is a SEND whose file is gone.
Serve ==
    /\ line # <<>>
    /\ Head(line).action = "SEND" => upload = Nothing
    /\ served' = Append(served, Head(line))
    /\ line' = Tail(line)
    /\ UNCHANGED <<aside, upload>>

StepAside ==
    /\ line # <<>>
    /\ Head(line).action = "SEND"
    /\ upload # Nothing
    /\ aside' = Append(aside, Head(line))
    /\ line' = Tail(line)
    /\ UNCHANGED <<upload, served>>

StartUpload ==
    /\ line # <<>>
    /\ Head(line).action = "SEND"
    /\ upload = Nothing
    /\ upload' = Head(line)
    /\ line' = Tail(line)
    /\ UNCHANGED <<aside, served>>

EndUpload ==
    /\ upload # Nothing
    /\ served' = Append(served, upload)
    /\ upload' = Nothing
    /\ line' = line \o aside
    /\ aside' = <<>>

PipeNext == (\E m \in Model : Accept(m)) \/ Serve \/ StepAside \/ StartUpload \/ EndUpload

PipeSpec == PipeInit /\ [][PipeNext]_pipe
===============================================================================
