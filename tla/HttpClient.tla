------------------------------ MODULE HttpClient ------------------------------
(***************************************************************************)
(* httpPostTask after its resume: httpApplicationPost again and again      *)
(* (main.c, httpApplication.c, stringx.h), over the socket of Netconn.     *)
(*                                                                         *)
(* A response is a sequence of tokens: Nl is "\r\n", every other token is  *)
(* text.  The request counts as ReqLen bytes, all alike.  The delay of 500 *)
(* ticks between two posts is left out.                                    *)
(***************************************************************************)
EXTENDS Netconn

CONSTANTS
    Tokens,      \* of a response
    Responses,   \* what a peer may answer before it closes its side
    Nl,          \* "\r\n"
    BufSize,     \* sizeof BUF (1024)
    ReqLen,      \* strlen(packet)
    MaxPosts,    \* how many posts are followed
    MaxSpin      \* how far totalRecv is followed below 0

ASSUME HttpAssumption ==
    /\ BufSize \in Nat \ {0}
    /\ ReqLen \in Nat \ {0}
    /\ MaxPosts \in Nat
    /\ MaxSpin \in Nat
    /\ Nl \in Tokens
    /\ Responses \subseteq Seq(Tokens)

VARIABLES
    pc,         \* what httpPostTask executes next
    sent,       \* history: the whole response of the present peer
    buf,        \* BUF
    totalRecv,  \* totalRecv
    answer,     \* hresp: "null", "live" (allocated), "lost" (pointer dropped)
    heap,       \* blocks allocated and not freed
    posts,      \* history: posts begun
    refusedPosts, \* history: posts that connect refused
    answered,   \* history: responses parsed
    dropped     \* history: answers lost because BUF could not be copied

appVars == <<sent, buf, totalRecv, answer, heap>>
history == <<posts, refusedPosts, answered, dropped>>
vars == <<pc, appVars, history, netVars>>

Init ==
    /\ NetInit
    /\ pc = "idle"
    /\ sent = <<>> /\ buf = <<>> /\ totalRecv = 0 /\ answer = "null" /\ heap = 0
    /\ posts = 0 /\ refusedPosts = 0 /\ answered = 0 /\ dropped = 0

Undefined == {"nullDeref", "heapOverrun"}

-----------------------------------------------------------------------------
(* createSocket: socket() ...                                              *)
createSocket ==
    /\ pc = "idle" /\ posts < MaxPosts
    /\ lwip_socket
    /\ posts' = posts + 1
    /\ pc' = IF ret' = -1 THEN "idle" ELSE "connect"
    /\ UNCHANGED <<appVars, refusedPosts, answered, dropped>>

(* ... and connect().  When that fails the post ends, the socket open.     *)
Connect ==
    /\ pc = "connect"
    /\ \E r \in Responses : lwip_connect(r) /\ sent' = r
    /\ pc' = "connecting"
    /\ UNCHANGED <<buf, totalRecv, answer, heap, history>>
Connected ==
    /\ pc = "connecting" /\ call = "none"
    /\ pc' = IF ret = -1 THEN "idle" ELSE "post"
    /\ refusedPosts' = IF ret = -1 THEN refusedPosts + 1 ELSE refusedPosts
    /\ UNCHANGED <<appVars, posts, answered, dropped, netVars>>

(* httpPost: a packet, or NULL from malloc or realloc, which the strlen of *)
(* sendHttpRequest dereferences.  (checkHeader accepts the constant one.)  *)
httpPost ==
    /\ pc = "post"
    /\ \/ pc' = "send" /\ heap' = heap + 1
       \/ pc' = "nullDeref" /\ UNCHANGED heap
    /\ UNCHANGED <<sent, buf, totalRecv, answer, history, netVars>>

(* sendHttpRequest: one send takes all or fails; its failure is printed.   *)
(* Either way the packet is freed and the response waited for.             *)
sendHttpRequest ==
    /\ pc = "send"
    /\ lwip_send(ReqLen)
    /\ pc' = "sending"
    /\ UNCHANGED <<appVars, history>>
FreePacket ==
    /\ pc = "sending" /\ call = "none"
    /\ pc' = "wait" /\ heap' = heap - 1
    /\ UNCHANGED <<sent, buf, totalRecv, answer, history, netVars>>

(* waitHttpResponse: hresp, then the receive loop.                         *)
waitHttpResponse ==
    /\ pc = "wait"
    /\ \/ /\ pc' = "recv" /\ answer' = "live" /\ heap' = heap + 1
          /\ buf' = <<>> /\ totalRecv' = 0
       \/ pc' = "close" /\ UNCHANGED <<answer, heap, buf, totalRecv>>
    /\ UNCHANGED <<sent, history, netVars>>

(* recv(sock, BUF + totalRecv, 1024 - totalRecv, 0)                        *)
RecvCall ==
    /\ pc = "recv" /\ totalRecv > -MaxSpin
    /\ lwip_recv(BufSize - totalRecv)
    /\ pc' = "receiving"
    /\ UNCHANGED <<appVars, history>>

(* What is added to totalRecv and tested: the result, an error too.        *)
Received ==
    /\ pc = "receiving" /\ call = "none"
    /\ totalRecv' = totalRecv + ret
    /\ buf' = IF ret > 0 THEN buf \o got ELSE buf
    /\ pc' = IF ret = 0 THEN "parse" ELSE "recv"
    /\ UNCHANGED <<sent, answer, heap, history, netVars>>

(* The loop goes on below -MaxSpin just the same.                          *)
Spin == pc = "recv" /\ totalRecv = -MaxSpin /\ UNCHANGED vars

(* strstr(response, "\r\n\r\n")                                            *)
HasBlankLine(s) == \E i \in 1..(Len(s) - 1) : s[i] = Nl /\ s[i + 1] = Nl

(* The rest of waitHttpResponse.  Without memory for the copy hresp is     *)
(* dropped.  Without a blank line body is NULL and str_replace reads it;   *)
(* so does any later malloc that is refused.  str_replace allocates one    *)
(* byte less than it writes, and appends behind text it did not terminate: *)
(* what that hits is up to the heap.  What is left allocated: the status   *)
(* line, the headers before and after the replacement, the body.           *)
Parse ==
    /\ pc = "parse"
    /\ \/ /\ pc' = "close" /\ answer' = "lost" /\ dropped' = dropped + 1
          /\ UNCHANGED <<heap, answered>>
       \/ /\ ~HasBlankLine(buf)
          /\ pc' = "nullDeref" /\ UNCHANGED <<heap, answer, answered, dropped>>
       \/ /\ HasBlankLine(buf)
          /\ pc' \in {"nullDeref", "heapOverrun"}
          /\ UNCHANGED <<heap, answer, answered, dropped>>
       \/ /\ HasBlankLine(buf)
          /\ pc' = "close" /\ heap' = heap + 4 /\ answered' = answered + 1
          /\ UNCHANGED <<answer, dropped>>
    /\ UNCHANGED <<sent, buf, totalRecv, posts, refusedPosts, netVars>>

(* close(sock), its result ignored; free(response), the struct only.       *)
CloseCall ==
    /\ pc = "close"
    /\ lwip_close
    /\ pc' = "closing"
    /\ UNCHANGED <<appVars, history>>
FreeResponse ==
    /\ pc = "closing" /\ call = "none"
    /\ pc' = "idle"
    /\ heap' = IF answer = "live" THEN heap - 1 ELSE heap
    /\ answer' = "null" /\ sent' = <<>> /\ buf' = <<>> /\ totalRecv' = 0
    /\ UNCHANGED <<history, netVars>>

httpApplicationPost ==
    \/ createSocket \/ Connect \/ Connected \/ httpPost \/ sendHttpRequest \/ FreePacket
    \/ waitHttpResponse \/ RecvCall \/ Received \/ Parse \/ CloseCall \/ FreeResponse

(* The task inside a call, and the lwIP thread beside it.                  *)
InCall == Continue /\ UNCHANGED <<pc, appVars, history>>
Stack  == tcpip_thread /\ UNCHANGED <<pc, appVars, history>>
TimerStep == Timers /\ UNCHANGED <<pc, appVars, history>>

Task == httpApplicationPost \/ InCall

Ended == pc = "idle" /\ posts = MaxPosts
Halted == (Ended \/ pc \in Undefined) /\ UNCHANGED vars

(* A close whose pcb the core has let go of: nobody is left to wake it.    *)
Stranded == call = "delete" /\ pcb = "freed" /\ UNCHANGED vars

Next == Task \/ Stack \/ Spin \/ Halted \/ Stranded

Spec == Init /\ [][Next]_vars

(* The task is time-sliced with its equals; the lwIP thread, above it,     *)
(* runs its timers.  Nothing is assumed of the peer.                       *)
FairSpec == Spec /\ WF_vars(Task) /\ WF_vars(TimerStep)

-----------------------------------------------------------------------------
(* Type invariant.                                                         *)
TypeOK ==
    /\ NetTypeOK
    /\ pc \in {"idle", "connect", "connecting", "post", "send", "sending", "wait", "recv",
               "receiving", "parse", "close", "closing"} \union Undefined
    /\ sent \in Responses \union {<<>>}
    /\ totalRecv \in (-MaxSpin)..BufSize
    /\ answer \in {"null", "live", "lost"}
    /\ heap \in Nat
    /\ posts \in 0..MaxPosts

IsPrefixOf(s, t) == Len(s) <= Len(t) /\ s = SubSeq(t, 1, Len(s))

(* recv writes inside BUF, right behind what it wrote before, although     *)
(* totalRecv is moved by -1 for every error: after an error no recv of     *)
(* this connection returns data again.                                     *)
WritesInsideBuf ==
    pc = "receiving" /\ got # <<>> =>
        totalRecv = Len(buf) /\ totalRecv + Len(got) <= BufSize

(* What the task parses is what the peer sent: always a prefix, and all of *)
(* it unless BUF was too small, however the response was cut into          *)
(* segments, refused by a full mailbox and merged again by recv; and recv  *)
(* put it inside BUF.                                                      *)
ResponseComplete ==
    /\ WritesInsideBuf
    /\ pc \in {"recv", "receiving", "parse"} => IsPrefixOf(buf, sent)
    /\ pc = "parse" => buf = sent \/ Len(buf) = BufSize

(* Sockets are lost by failed connects and by nothing else: every other    *)
(* post gives its socket back, whatever happened to the connection.        *)
Holding == pc # "idle" /\ ~(pc = "closing" /\ call = "none")
SocketsAccounted ==
    pc \notin Undefined => used = refusedPosts + (IF Holding THEN 1 ELSE 0)

(* Between posts: four blocks are lost for every answer parsed, one for    *)
(* every answer that could not be copied, and no others.                   *)
BlocksLostPerPost == pc = "idle" => heap = 4 * answered + dropped

(* A post of httpApplicationPost gives back the socket and the memory it   *)
(* takes, on every path, but for the losses named above.                   *)
PostAccounted == TypeOK /\ SocketsAccounted /\ BlocksLostPerPost

(* A connection whose end was announced to the socket ends the receive     *)
(* loop, unless it fails on top of that.                                   *)
EndAnnounced == \E i \in DOMAIN mbox : mbox[i] = NullMsg
AnnouncedEndIsSeen ==
    (pc = "receiving" /\ EndAnnounced) ~> (pc \notin {"recv", "receiving"} \/ lastErr \in FatalErrors)
=============================================================================
