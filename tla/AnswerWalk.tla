--------------------------- MODULE AnswerWalk ---------------------------
(***************************************************************************)
(* a_records and read_name (dns.rs): the questions and the answers of a    *)
(* DNS response, each behind a name.  A name may go on anywhere else in    *)
(* the message, by a pointer: read_name then reads there, and a_records    *)
(* must still go on right behind the pointer.                              *)
(***************************************************************************)
EXTENDS Cursor

CONSTANT MaxHops   \* 10

ASSUME HopsAssumption == MaxHops \in Nat

\* read_name(payload, at), and the return to a_records with its second result.
CallReadName(at) ==
    /\ phase' = "name"
    /\ pos' = at /\ after' = at
    /\ hops' = 0 /\ jumped' = FALSE
    /\ UNCHANGED <<len, end, todo, rec_len, stream>>

AnswerHeader(qdcount, ancount) ==
    /\ phase = "dns"
    /\ len >= 12 /\ ancount > 0
    /\ Slice(0, 12)
    /\ questions' = qdcount /\ answers' = ancount
    /\ CallReadName(12)

\* Too short, a query, or no answers.
NoAnswer == phase = "dns" /\ Leave

-----------------------------------------------------------------------------
(* read_name *)

Reading == phase = "name" /\ hops <= MaxHops /\ pos < len

\* Where the caller goes on; the variant follows the pointers.
AfterAnyJump(next) == next
After(next) == IF jumped THEN after ELSE next

\* A label of n bytes, 0 < n < 64.
Label(n) ==
    /\ Reading
    /\ n \in 1 .. 63
    /\ pos + 1 + n <= len
    /\ Slice(pos + 1, pos + 1 + n)
    /\ Go("name", pos + 1 + n)
    /\ after' = After(pos + 1 + n)
    /\ UNCHANGED <<rec_len, questions, answers, hops, jumped, stream>>

\* The variant does not count the pointers.
EndlessPointer(target) ==
    /\ Reading
    /\ pos + 1 < len
    /\ Slice(pos, pos + 2)
    /\ Go("name", target)
    /\ after' = After(pos + 2)
    /\ jumped' = TRUE
    /\ UNCHANGED <<rec_len, questions, answers, hops, stream>>
Pointer(target) ==
    /\ Reading
    /\ pos + 1 < len
    /\ Slice(pos, pos + 2)
    /\ Go("name", target)
    /\ after' = After(pos + 2)
    /\ hops' = hops + 1 /\ jumped' = TRUE
    /\ UNCHANGED <<rec_len, questions, answers, stream>>

\* The root label ends the name; the caller goes on behind it, or behind the first
\* pointer.  Behind a question come its type and class, which are not looked at.
EndQuestionName ==
    /\ Reading /\ questions > 0
    /\ Slice(pos, pos + 1)
    /\ questions' = questions - 1
    /\ CallReadName(After(pos + 1) + 4)
    /\ UNCHANGED answers

EndAnswerName ==
    /\ Reading /\ questions = 0
    /\ Slice(pos, pos + 1)
    /\ Go("answer", After(pos + 1))
    /\ after' = After(pos + 1)
    /\ UNCHANGED <<rec_len, questions, answers, hops, jumped, stream>>

\* The message ends, a loop of pointers is given up, a length is none, a label is
\* not UTF-8: a name that cannot be read ends the whole message.
BadName == phase = "name" /\ Leave

-----------------------------------------------------------------------------
(* a_records *)

RecordFits(rdlen) == pos + 10 + rdlen <= len

NextAnswer(rdlen) ==
    /\ phase = "answer" /\ RecordFits(rdlen)
    /\ answers > 1
    /\ Slice(pos, pos + 10)
    /\ answers' = answers - 1
    /\ CallReadName(pos + 10 + rdlen)
    /\ UNCHANGED questions

LastAnswer(rdlen) ==
    /\ phase = "answer" /\ RecordFits(rdlen)
    /\ answers = 1
    /\ Leave

BadAnswer(rdlen) == phase = "answer" /\ ~RecordFits(rdlen) /\ Leave

AnswerNext ==
    \/ \E qdcount, ancount \in Count : AnswerHeader(qdcount, ancount)
    \/ NoAnswer
    \/ \E n \in Byte : Label(n)
    \/ \E target \in Word : Pointer(target)
    \/ EndQuestionName \/ EndAnswerName
    \/ BadName
    \/ \E rdlen \in Word :
           NextAnswer(rdlen) \/ LastAnswer(rdlen) \/ BadAnswer(rdlen)
=============================================================================
