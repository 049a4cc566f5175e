----------------------------- MODULE CloudClient -----------------------------
(***************************************************************************)
(* How apps/pb-runtime/main/pb_cloud.c turns what arrives of an HTTP       *)
(* answer into a result.  A body is a sequence of pieces, of which the     *)
(* response buffer holds ResponseCapacity; esp_http_client delivers it in  *)
(* chunks of any number of pieces and then reports how the transfer ended: *)
(* complete, closed before the announced length or without one, or broken. *)
(***************************************************************************)
EXTENDS Naturals, SequencesExt

CONSTANT ResponseCapacity

ASSUME ResponseAssumption == ResponseCapacity \in Nat \ {0}

Ends == {"complete", "closed", "broken"}

(* response_buffer_t after the memset of perform_request. *)
Cleared == [data |-> <<>>, overflowed |-> FALSE]

(* http_event_handler: a chunk that does not fit is dropped as a whole, and
   what comes after it may fit again. *)
HandleData(response, chunk) ==
  IF Len(response.data) + Len(chunk) > ResponseCapacity
  THEN [response EXCEPT !.overflowed = TRUE]
  ELSE [response EXCEPT !.data = @ \o chunk]

(* after[i]: the buffer when the first i chunks have been handled. *)
Received(chunks) ==
  LET after[i \in 0..Len(chunks)] ==
        IF i = 0 THEN Cleared ELSE HandleData(after[i - 1], chunks[i])
  IN  after[Len(chunks)]

PerformsInSpiteOfOverflow(response, end, status) ==
  /\ end = "complete" \/ (end = "closed" /\ response.data # <<>>)
  /\ status = "2xx"

(* perform_request: a transfer that was closed is left to the parser. *)
Performs(response, end, status) ==
  /\ end = "complete" \/ (end = "closed" /\ response.data # <<>>)
  /\ ~response.overflowed
  /\ status = "2xx"

(* A body is its pieces, numbered: those after the first from, up to to. *)
Slice(from, to) == [i \in 1..to - from |-> from + i]

IsWhole(response, size) == response.data = Slice(0, size)

(* cJSON_Parse and the field checks that follow, for a valid body: what lacks
   the closing brace does not parse; what lacks something else may. *)
MayParse(response, size) ==
  CASE IsWhole(response, size) -> {TRUE}
    [] response.data = <<>> \/ Last(response.data) # size -> {FALSE}
    [] OTHER -> BOOLEAN
-----------------------------------------------------------------------------
(* The first n pieces may come in chunks of any length: where they meet. *)
Meetings(n) ==
  UNION {{b \in [1..m -> 0..n] : /\ b[1] = 0 /\ b[m] = n
                                 /\ \A i \in 1..m - 1 : b[i] < b[i + 1]} :
           m \in 1..n + 1}

ChunksOf(b) == [i \in 1..Len(b) - 1 |-> Slice(b[i], b[i + 1])]

(* The ways a body of the given size can arrive: in chunks of any length, all
   of it if the transfer is complete. *)
Arrivals(size) ==
  UNION {{[chunks |-> ChunksOf(b), end |-> end] :
            b \in Meetings(n),
            end \in IF n = size THEN Ends ELSE Ends \ {"complete"}} :
           n \in 0..size}

(* The results of pb_cloud_fetch_state and pb_cloud_post_event for an answer
   of that size and status; whole: is the result made from all of it? *)
Results(size, status) ==
  UNION {LET response == Received(a.chunks)
         IN  {[ok |-> Performs(response, a.end, status) /\ parsed,
               whole |-> IsWhole(response, size)] :
                parsed \in MayParse(response, size)} :
           a \in Arrivals(size)}
=============================================================================
