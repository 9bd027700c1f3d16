----------------------------- MODULE DhcpOptions -----------------------------
(***************************************************************************)
(* The vocabulary of the DHCP modules: the constants of dhcp.h, the nodes  *)
(* of a dhcp_option_list and the functions of options.c and dhcpServer.c   *)
(* that look at lists without changing anything.                           *)
(***************************************************************************)
EXTENDS Integers, Sequences, FiniteSets

(* dhcp.h *)
BOOTREQUEST   == 1
DHCP_DISCOVER == 1
DHCP_OFFER    == 2
DHCP_REQUEST  == 3
DHCP_ACK      == 5

SUBNET_MASK            == 1
ROUTER                 == 3
IP_ADDRESS_LEASE_TIME  == 51
DHCP_MESSAGE_TYPE      == 53
PARAMETER_REQUEST_LIST == 55

DHCP_PACKET_SIZE == 236
dhcpMagicCookie  == <<99, 130, 83, 99>>
infLeaseTime     == <<255, 255, 255, 255>>
netmask          == <<255, 255, 255, 0>>
gw               == <<192, 168, 1, 1>>

Byte == 0..255

(* An option of the wire, and the node of a dhcp_option_list that holds it. *)
(* ok is FALSE when the malloc of its data returned NULL.                   *)
Option == [id : Byte, data : Seq(Byte)]
Node   == [id : Byte, data : Seq(Byte), ok : BOOLEAN]

(* The blocks of a list: its nodes and the data that could be allocated.   *)
Blocks(list) == Len(list) + Cardinality({i \in DOMAIN list : list[i].ok})

(* The number of blocks deleteOptionList frees.                            *)
(* (Fault variant: the data of the options is forgotten.)                  *)
deleteNodesOnly(list) == Len(list)
deleteOptionList(list) == Len(list) + Cardinality({i \in DOMAIN list : list[i].ok})

(* seachForOption: the first node with that code.                          *)
HasOption(list, code) == \E i \in DOMAIN list : list[i].id = code
seachForOption(list, code) ==
    list[CHOOSE i \in DOMAIN list :
            /\ list[i].id = code
            /\ \A j \in 1..(i - 1) : list[j].id # code]

(* createOption: the option whose data malloc m allocated.                 *)
createOption(code, value, m) == [id |-> code, data |-> value, ok |-> m.ok]

OptionOf(node) == [id |-> node.id, data |-> node.data]

(* typeOption->data[0]: a zero-length option has an allocated byte that    *)
(* nobody wrote.                                                           *)
TypeBytes(node) == IF node.data = <<>> THEN Byte ELSE {node.data[1]}

(* The handler of each message type, as the reply type it sends; 0: none.  *)
HandlerOf(type) ==
    CASE type = DHCP_DISCOVER -> DHCP_OFFER
      [] type = DHCP_REQUEST  -> DHCP_ACK
      [] OTHER -> 0

(* The two parameters the server knows.                                    *)
(* (Fault variants: the netmask for both; a third parameter.)              *)
AnswersNetmask == [c \in {SUBNET_MASK, ROUTER} |-> netmask]
AnswersDns == [c \in {SUBNET_MASK, ROUTER, 6} |-> IF c = SUBNET_MASK THEN netmask ELSE gw]
Answers == [c \in {SUBNET_MASK, ROUTER} |-> IF c = SUBNET_MASK THEN netmask ELSE gw]
==============================================================================
