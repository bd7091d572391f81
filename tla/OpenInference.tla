---------------------------- MODULE OpenInference ----------------------------
(***************************************************************************)
(* The messages of the open inference protocol and the conversions each    *)
(* process on the way applies to them (kserve/protocol/infer_type.py).     *)
(* A client makes an InferRequest and sends it, over REST or gRPC, to the  *)
(* predictor or to a transformer that forwards it; the response comes back *)
(* the same way.  Sending converts the tensors of the sender in place, and *)
(* a client that gets an error sends the same object again, perhaps over   *)
(* the other protocol.                                                     *)
(*                                                                         *)
(* An element of a tensor is the sequence of its bytes: two for an FP32,   *)
(* one for an FP16 (half of the real numbers), any number for a string;    *)
(* the length before a string takes one.  NotText is a byte that UTF-8     *)
(* cannot decode.  Shapes have one dimension.                              *)
(***************************************************************************)
EXTENDS Integers, FiniteSets, Sequences, SequencesExt

CONSTANTS
  Requests,  \* the InferRequests of the clients
  Results,   \* what the models return
  Paths,     \* the protocols of the hops from the client to the predictor
  MaxSends,  \* bound: how often a client sends its request
  None,      \* Python's None
  Error      \* what a conversion that raises returns

VARIABLES
  truth,    \* what the client put in its tensors (ghost)
  client,   \* the InferRequest of the client
  path,     \* the protocols of the hops of this attempt
  node,     \* where the message is, or which node sent it: 0 is the client
  pc,       \* idle, sent, held, predicted, replied, received or refused
  msg,      \* the object a node holds, or the message on the wire
  result,   \* what the model returned (ghost)
  mixed,    \* a gRPC response has contents and raw contents (ghost)
  sends

openVars == <<truth, client, path, node, pc, msg, result, mixed, sends>>

NotText == 255
Width == [FP16 |-> 1, FP32 |-> 2]

------------------------------------------------------------------------------
(* Tensors.  data is None or a list of numbers or strings, a list of bytes *)
(* objects, or a numpy array; size is the parameter binary_data_size.      *)

DataTypes == {"FP16", "FP32", "BYTES"}
Arrays == Seq(Seq(Nat))
DataSet == [kind : {"list", "bytes", "array"}, elements : Arrays]
TensorSet == [name : STRING, datatype : DataTypes, shape : Nat, data : DataSet \cup {None},
              raw : Seq(Nat) \cup {None}, size : Nat \cup {None}]
WireSet == [name : STRING, datatype : DataTypes, shape : Nat, data : Arrays \cup {None},
            size : Nat \cup {None}]

\* The outputs a client asks for, if it does.
AskedSet == (Seq([name : STRING, binary : {TRUE, FALSE, None}]) \ {<<>>}) \cup {None}

RequestSet == [inputs : Seq(TensorSet), binary : BOOLEAN, outputs : AskedSet, grpc : BOOLEAN, raw : BOOLEAN]
ResponseSet == [tensors : Seq(TensorSet), binary : BOOLEAN, outputs : AskedSet]
RequestMessages == [tensors : Seq(WireSet), raws : Arrays, binary : BOOLEAN, outputs : AskedSet]
ResponseMessages == [tensors : Seq(WireSet), raws : Arrays]

\* What a client or a model puts in a tensor, and how.
Given ==
  {r \in [name : STRING, datatype : DataTypes, elements : Arrays, form : {"list", "array", "binary", "raw"}] :
     r.datatype # "BYTES" => \A i \in DOMAIN r.elements : Len(r.elements[i]) = Width[r.datatype]}

ASSUME OpenAssumption ==
  /\ None # Error
  /\ None \notin Nat \cup Seq(Nat) \cup Arrays \cup DataSet \cup TensorSet \cup BOOLEAN
                  \cup Seq([name : STRING, binary : {TRUE, FALSE, None}])
  /\ Error \notin Arrays \cup Seq(TensorSet) \cup RequestSet \cup ResponseSet
                   \cup RequestMessages \cup ResponseMessages
  /\ Requests \subseteq [inputs : Seq(Given), binary : BOOLEAN, outputs : AskedSet]
  /\ Results \subseteq [helper : BOOLEAN, outputs : Seq(Given)] \ {None}
  /\ Paths \subseteq Seq({"rest", "grpc"}) \ {<<>>}
  /\ MaxSends \in Nat

Data(kind, elements) == [kind |-> kind, elements |-> elements]
List(elements) == Data("list", elements)
Is(data, kind) == data # None /\ data.kind = kind
Empty(data) == data = None \/ data.elements = <<>>
IsText(element) == \A i \in DOMAIN element : element[i] # NotText

\* serialize_byte_tensor, tobytes
Bytes(datatype, elements) ==
  FlattenSeq([i \in DOMAIN elements |->
    IF datatype = "BYTES" THEN <<Len(elements[i])>> \o elements[i] ELSE elements[i]])

\* deserialize_bytes_tensor: the strings behind the first n bytes
Strings(raw) ==
  LET from[n \in 0..Len(raw)] ==
        IF n = Len(raw) THEN <<>>
        ELSE LET end == n + 1 + raw[n + 1]
             IN IF end > Len(raw) \/ from[end] = Error THEN Error
                ELSE <<SubSeq(raw, n + 2, end)>> \o from[end]
  IN from[0]

\* numpy.frombuffer
Numbers(width, raw) ==
  IF Len(raw) % width # 0 THEN Error
  ELSE [i \in 1..(Len(raw) \div width) |-> SubSeq(raw, (i - 1) * width + 1, i * width)]

\* as_numpy: the raw data wins, and the shape must fit.
AsNumpy(t) ==
  LET elements ==
        IF t.raw = None THEN IF t.data = None THEN Error ELSE t.data.elements
        ELSE IF t.datatype = "BYTES" THEN Strings(t.raw)
        ELSE Numbers(Width[t.datatype], t.raw)
  IN IF elements = Error THEN Error
     ELSE IF Len(elements) = t.shape THEN elements ELSE Error

Done(t) == [tensor |-> t, ok |-> TRUE]
Failed(t) == [tensor |-> t, ok |-> FALSE]

\* Variant: parameters that were None stay so.
SetBinaryUnsized(t, elements) ==
  Done([t EXCEPT !.data = None, !.raw = Bytes(t.datatype, elements)])

\* set_data_from_numpy, binary_data=True
SetBinary(t, elements) ==
  LET raw == Bytes(t.datatype, elements)
  IN Done([t EXCEPT !.data = None, !.raw = raw, !.size = Len(raw)])

\* set_data_from_numpy, binary_data=False: a string that is not UTF-8 raises,
\* and leaves the strings before it.
SetText(t, elements) ==
  LET bad == IF t.datatype = "BYTES"
             THEN {i \in DOMAIN elements : ~IsText(elements[i])} ELSE {}
      kept == {i \in DOMAIN elements : \A j \in bad : i < j}
      text == [t EXCEPT !.data = List([i \in kept |-> elements[i]]), !.raw = None, !.size = None]
  IN IF bad = {} THEN Done(text) ELSE Failed(text)

SetData(t, elements, binary) == IF binary THEN SetBinary(t, elements) ELSE SetText(t, elements)

------------------------------------------------------------------------------
(* Encoding.  The tensors are converted one by one, in place; an error     *)
(* leaves those behind it as they were.                                    *)

OnWire(t, data) ==
  [name |-> t.name, datatype |-> t.datatype, shape |-> t.shape, data |-> data, size |-> t.size]

\* A converted tensor: as it is now, as it is written, its binary data.
Wrote(t, data, raw) == [tensor |-> t, ok |-> TRUE, wire |-> OnWire(t, data), raw |-> raw]

\* The tensors after the steps, of which none follows one that raised.
Converted(tensors, steps) ==
  [i \in DOMAIN tensors |->
     IF \A j \in 1..(i - 1) : steps[j].ok THEN steps[i].tensor ELSE tensors[i]]

\* All steps together, if none raised: the tensors and the binary data there is.
Written(steps) ==
  [tensors |-> [i \in DOMAIN steps |-> steps[i].wire],
   raws |-> FlattenSeq([i \in DOMAIN steps |-> IF steps[i].raw = None THEN <<>> ELSE <<steps[i].raw>>])]

AllOk(steps) == \A i \in DOMAIN steps : steps[i].ok

Values(data) == IF data = None THEN None ELSE data.elements

\* InferRequest.to_rest, for one input
InputToRest(t) ==
  IF t.data = None /\ t.raw = None THEN Failed(t)
  ELSE LET set == IF Is(t.data, "array") THEN SetText(t, t.data.elements) ELSE Done(t)
           u == set.tensor
       IN IF \/ ~set.ok
             \/ ~Empty(u.data) /\ u.raw \notin {None, <<>>}
             \/ u.datatype = "FP16" /\ ~Empty(u.data)
          THEN Failed(u)
          ELSE IF u.raw \notin {None, <<>>} THEN Wrote(u, None, u.raw)
          ELSE Wrote(u, Values(u.data), None)

\* to_grpc, for one tensor that is not an array
TensorToGrpc(t) ==
  IF t.raw # None THEN Wrote(t, None, t.raw)
  ELSE IF t.data = None \/ t.datatype = "FP16" THEN Failed(t)
  ELSE LET u == IF t.datatype = "BYTES" THEN [t EXCEPT !.data.kind = "bytes"] ELSE t
       IN Wrote(u, u.data.elements, None)

\* InferRequest.to_grpc, for one input
InputToGrpc(t) ==
  TensorToGrpc(IF Is(t.data, "array") THEN SetBinary(t, t.data.elements).tensor ELSE t)

\* The request as a message, or why not: orjson cannot write bytes objects.
EncodeRequest(request, protocol) ==
  LET rest == protocol = "rest"
      steps == [i \in DOMAIN request.inputs |->
                  IF rest THEN InputToRest(request.inputs[i]) ELSE InputToGrpc(request.inputs[i])]
      unwritable == /\ rest
                    /\ \E i \in DOMAIN steps :
                         LET t == steps[i].tensor
                         IN Is(t.data, "bytes") /\ ~Empty(t.data) /\ t.raw \in {None, <<>>}
  IN [request |-> [request EXCEPT !.inputs = Converted(request.inputs, steps)],
      message |-> IF ~AllOk(steps) \/ unwritable THEN Error
                  ELSE [tensors |-> Written(steps).tensors, raws |-> Written(steps).raws,
                        binary |-> request.binary, outputs |-> request.outputs]]

------------------------------------------------------------------------------
(* Decoding.                                                               *)

Tensor(w, data, raw) ==
  [name |-> w.name, datatype |-> w.datatype, shape |-> w.shape, data |-> data, raw |-> raw, size |-> w.size]

\* Each of the tensors in taking has its bytes from the end of the one before it.
Slices(message, taking) ==
  LET tail == FlattenSeq(message.raws)
      size(i) == IF i \in taking THEN message.tensors[i].size ELSE 0
      end[i \in 0..Len(message.tensors)] == IF i = 0 THEN 0 ELSE end[i - 1] + size(i)
  IN [i \in DOMAIN message.tensors |->
        IF i \in taking THEN SubSeq(tail, end[i - 1] + 1, Min({end[i], Len(tail)})) ELSE None]

\* The bytes as numpy would read them, as a list.
FromSlice(w, raw) ==
  LET t == Tensor(w, None, raw)
      elements == AsNumpy(t)
  IN IF elements = Error THEN Failed(t) ELSE SetText(t, elements)

\* A sequence of conversions, or Error if one failed.
AllDone(steps) ==
  IF \A i \in DOMAIN steps : steps[i].ok THEN [i \in DOMAIN steps |-> steps[i].tensor] ELSE Error

\* InferRequest.from_bytes: data wins over binary_data_size.
InputsFromBytes(message) ==
  LET slices == Slices(message, {i \in DOMAIN message.tensors :
                          message.tensors[i].data = None /\ message.tensors[i].size # None})
      Input(w, raw) ==
        IF w.data # None
        THEN IF w.datatype = "FP16" THEN Failed(w) ELSE Done(Tensor(w, List(w.data), None))
        ELSE IF w.size # None THEN FromSlice(w, raw) ELSE Failed(w)
  IN AllDone([i \in DOMAIN slices |-> Input(message.tensors[i], slices[i])])

\* A JSON body as pydantic reads it, and InferRequest.from_inference_request
InputsFromJson(message) ==
  AllDone([i \in DOMAIN message.tensors |->
    LET w == message.tensors[i]
    IN IF w.data = None \/ (w.datatype = "FP16" /\ w.data # <<>>) THEN Failed(w)
       ELSE Done(Tensor(w, List(w.data), None))])

\* from_grpc: get_content of every tensor, then the raw contents by position
FromGrpc(message) ==
  [i \in DOMAIN message.tensors |->
    LET w == message.tensors[i]
    IN Tensor(w,
              Data(IF w.datatype = "BYTES" THEN "bytes" ELSE "list", IF w.data = None THEN <<>> ELSE w.data),
              IF i \in DOMAIN message.raws THEN message.raws[i] ELSE None)]

\* Variant: raw contents beside contents are accepted.
ValidAnyway(message) == TRUE

\* validate_grpc_request
ValidGrpc(message) ==
  message.raws # <<>> =>
    /\ Len(message.raws) = Len(message.tensors)
    /\ \A i \in DOMAIN message.tensors : message.tensors[i].data = None

DecodeInputs(message, protocol) ==
  IF protocol = "grpc" THEN IF ValidGrpc(message) THEN FromGrpc(message) ELSE Error
  ELSE IF message.raws # <<>> THEN InputsFromBytes(message)
  ELSE InputsFromJson(message)

DecodeRequest(message, protocol) ==
  LET inputs == DecodeInputs(message, protocol)
  IN IF inputs = Error THEN Error
     ELSE [inputs |-> inputs, binary |-> message.binary, outputs |-> message.outputs,
           grpc |-> protocol = "grpc", raw |-> protocol = "grpc" /\ message.raws # <<>>]

\* Variant: the parameter decides, whatever the protocol.
UseBinaryByParameter(request) == request.binary

\* InferRequest.use_binary_outputs
UseBinaryOutputs(request) == IF request.grpc THEN request.raw ELSE request.binary

------------------------------------------------------------------------------
(* Responses.                                                              *)

\* InferResponse.get_output_by_name: the first of that name
ByName(outputs, name) ==
  LET named == {i \in DOMAIN outputs : outputs[i].name = name}
  IN IF named = {} THEN None ELSE outputs[Min(named)]

\* InferResponse.to_rest, for one output
OutputToRest(t, binary) ==
  IF t.data = None /\ t.raw = None THEN Failed(t)
  ELSE LET set == IF Is(t.data, "array") THEN SetData(t, t.data.elements, binary)
                  ELSE IF Empty(t.data) /\ t.raw \in {None, <<>>} THEN Done(t)
                  ELSE IF AsNumpy(t) = Error THEN Failed(t)
                  ELSE SetData(t, AsNumpy(t), binary)
           u == set.tensor
       IN IF \/ ~set.ok
             \/ u.datatype = "FP16" /\ ~Empty(u.data)
             \/ binary /\ u.raw = None  \* join of None
          THEN Failed(u)
          ELSE IF binary THEN Wrote(u, None, u.raw) ELSE Wrote(u, Values(u.data), None)

\* The outputs to send, each with whether it goes as binary data.
Selected(response) ==
  IF response.outputs = None
  THEN [i \in DOMAIN response.tensors |-> [tensor |-> response.tensors[i], binary |-> response.binary]]
  ELSE [i \in DOMAIN response.outputs |->
         [tensor |-> ByName(response.tensors, response.outputs[i].name),
          binary |-> response.outputs[i].binary = TRUE]]

\* InferResponse.to_rest, and the response model a JSON body must fit
ResponseToRest(response) ==
  LET selected == Selected(response)
      steps == [i \in DOMAIN selected |->
                  IF selected[i].tensor = None THEN Failed(None)
                  ELSE OutputToRest(selected[i].tensor, selected[i].binary)]
      all == Written(steps)
  IN IF ~AllOk(steps) \/ (all.raws = <<>> /\ \E i \in DOMAIN all.tensors : all.tensors[i].data = None)
     THEN Error ELSE all

\* InferResponse.to_grpc: the truth value of a longer array raises.
OutputToGrpc(t, raw) ==
  IF raw /\ Is(t.data, "array") /\ Len(t.data.elements) > 1 THEN Failed(t)
  ELSE IF raw /\ ~Empty(t.data) /\ ~Is(t.data, "array")
  THEN IF AsNumpy(t) = Error THEN Failed(t) ELSE TensorToGrpc(SetBinary(t, AsNumpy(t)).tensor)
  ELSE InputToGrpc(t)

ResponseToGrpc(response) ==
  LET raw == response.binary \/ \E i \in DOMAIN response.tensors : response.tensors[i].datatype = "FP16"
      steps == [i \in DOMAIN response.tensors |-> OutputToGrpc(response.tensors[i], raw)]
  IN IF AllOk(steps) THEN Written(steps) ELSE Error

EncodeResponse(response, protocol) ==
  IF protocol = "rest" THEN ResponseToRest(response) ELSE ResponseToGrpc(response)

\* Variant: start_index stays at the end of the JSON.
OutputsFromStart(message) ==
  LET tail == FlattenSeq(message.raws)
  IN AllDone([i \in DOMAIN message.tensors |->
       LET w == message.tensors[i]
       IN IF w.size # None THEN FromSlice(w, SubSeq(tail, 1, w.size))
          ELSE Done(Tensor(w, List(w.data), None))])

\* InferResponse.from_bytes: binary_data_size wins over data.
OutputsFromBytes(message) ==
  LET slices == Slices(message, {i \in DOMAIN message.tensors : message.tensors[i].size # None})
      Output(w, raw) == IF w.size # None THEN FromSlice(w, raw)
                        ELSE IF w.data = None THEN Failed(w) ELSE Done(Tensor(w, List(w.data), None))
  IN AllDone([i \in DOMAIN slices |-> Output(message.tensors[i], slices[i])])

DecodeResponse(message, protocol) ==
  LET tensors == IF protocol = "grpc" THEN FromGrpc(message) ELSE OutputsFromBytes(message)
  IN IF tensors = Error THEN Error
     ELSE [tensors |-> tensors, binary |-> FALSE, outputs |-> None]

NewTensor(r) == [name |-> r.name, datatype |-> r.datatype, shape |-> Len(r.elements),
                 data |-> None, raw |-> None, size |-> None]

\* A tensor as a handler or a client makes it.
Made(r) ==
  CASE r.form = "binary" -> SetBinary(NewTensor(r), r.elements).tensor
    [] r.form = "raw" -> [NewTensor(r) EXCEPT !.raw = Bytes(r.datatype, r.elements)]
    [] r.form \in {"list", "array"} -> [NewTensor(r) EXCEPT !.data = Data(r.form, r.elements)]

\* get_predict_response
PredictResponse(request, returned) ==
  LET binary == UseBinaryOutputs(request)
      tensors == AllDone([i \in DOMAIN returned |-> SetData(NewTensor(returned[i]), returned[i].elements, binary)])
  IN IF tensors = Error THEN Error
     ELSE [tensors |-> tensors, binary |-> binary, outputs |-> request.outputs]

\* A model's own InferResponse, without the optional arguments
OwnResponse(returned) ==
  [tensors |-> [i \in DOMAIN returned |-> Made(returned[i])], binary |-> FALSE, outputs |-> None]

------------------------------------------------------------------------------
OpenInit ==
  \E r \in Requests :
    /\ truth = r.inputs
    /\ client = [inputs |-> [i \in DOMAIN r.inputs |-> Made(r.inputs[i])],
                 binary |-> r.binary, outputs |-> r.outputs, grpc |-> FALSE, raw |-> FALSE]
    /\ path = <<>> /\ node = 0 /\ pc = "idle" /\ msg = None /\ result = None
    /\ mixed = FALSE /\ sends = 0

Protocol == path[node + 1]  \* from this node to the next

\* The outcome of a conversion: an object or a message, or an error that
\* goes back to the client.
Become(where, outcome) ==
  IF outcome = Error THEN pc' = "refused" /\ msg' = None ELSE pc' = where /\ msg' = outcome

\* infer of the client, first and again: the client's object is converted.
Send ==
  /\ pc \in {"idle", "refused", "received"} /\ sends < MaxSends
  /\ \E p \in Paths :
       LET e == EncodeRequest(client, p[1])
       IN /\ path' = p /\ client' = e.request /\ Become("sent", e.message)
  /\ node' = 0 /\ result' = None /\ mixed' = FALSE /\ sends' = sends + 1
  /\ UNCHANGED truth

\* The next node decodes the request.
ReceiveRequest ==
  /\ pc = "sent"
  /\ Become("held", DecodeRequest(msg, Protocol))
  /\ node' = node + 1
  /\ UNCHANGED <<truth, client, path, result, mixed, sends>>

\* Model.predict of a transformer
Forward ==
  /\ pc = "held" /\ node < Len(path)
  /\ Become("sent", EncodeRequest(msg, Protocol).message)
  /\ UNCHANGED <<truth, client, path, node, result, mixed, sends>>

\* The model of the predictor returns, through get_predict_response or not.
Predict ==
  /\ pc = "held" /\ node = Len(path)
  /\ \E r \in Results :
       /\ result' = r
       /\ Become("predicted", IF r.helper THEN PredictResponse(msg, r.outputs) ELSE OwnResponse(r.outputs))
  /\ UNCHANGED <<truth, client, path, node, mixed, sends>>

\* The node answers the node before it; REST selects the outputs asked for.
Reply ==
  /\ pc = "predicted"
  /\ LET protocol == path[node]
         m == EncodeResponse(msg, protocol)
     IN /\ Become("replied", m)
        /\ mixed' = (mixed \/ (m # Error /\ protocol = "grpc" /\ Len(m.raws) \notin {0, Len(m.tensors)}))
  /\ node' = node - 1
  /\ UNCHANGED <<truth, client, path, result, sends>>

\* That node decodes it, and a transformer answers with it in turn.
Return ==
  /\ pc = "replied"
  /\ Become(IF node = 0 THEN "received" ELSE "predicted", DecodeResponse(msg, Protocol))
  /\ UNCHANGED <<truth, client, path, node, result, mixed, sends>>

OpenNext == Send \/ ReceiveRequest \/ Forward \/ Predict \/ Reply \/ Return

OpenSpec == OpenInit /\ [][OpenNext]_openVars

------------------------------------------------------------------------------
(* Properties.                                                             *)

Elements == [i \in DOMAIN truth |-> truth[i].elements]
AllText(rs) == \A i \in DOMAIN rs : \A j \in DOMAIN rs[i].elements : IsText(rs[i].elements[j])

\* Types, and what the form of a message says: a gRPC message has raw contents
\* for some tensors and contents for the others, and none has neither; a
\* sender's tensors never hold elements in both forms.
OpenTypeOK ==
  /\ pc \in {"idle", "sent", "held", "predicted", "replied", "received", "refused"}
  /\ path \in Paths \cup {<<>>} /\ node \in 0..Len(path) /\ sends \in 0..MaxSends
  /\ client \in RequestSet
  /\ \A i \in DOMAIN client.inputs : client.inputs[i].data = None \/ client.inputs[i].raw = None
  /\ pc = "held" => msg \in RequestSet
  /\ pc \in {"predicted", "received"} => msg \in ResponseSet
  /\ pc = "sent" => msg \in RequestMessages
  /\ pc = "replied" => msg \in ResponseMessages
  /\ pc \in {"sent", "replied"} =>
       /\ Protocol = "grpc" =>
            Len(msg.raws) = Cardinality({i \in DOMAIN msg.tensors : msg.tensors[i].data = None})
       /\ Len(msg.raws) <= Len(msg.tensors)

\* Whatever the hops, the conversions and the earlier attempts, a server that
\* has accepted a request reads in every tensor what the client put there
\* (as_numpy after from_bytes, from_inference_request or from_grpc), or gets
\* an error for it, and that only when a string was not UTF-8.
InputsArrive ==
  pc = "held" =>
    /\ Len(msg.inputs) = Len(truth)
    /\ \A i \in DOMAIN truth :
         LET t == msg.inputs[i]
         IN /\ t.name = truth[i].name /\ t.datatype = truth[i].datatype
            /\ AsNumpy(t) = Elements[i] \/ (AsNumpy(t) = Error /\ ~AllText(truth))

\* A client that gets a response reads in every output what the model
\* returned under that name, unless a gRPC response on the way mixed contents
\* with raw contents, which from_grpc assigns by position.
OutputsArrive ==
  pc = "received" /\ ~mixed =>
    \A i \in DOMAIN msg.tensors :
      \E j \in DOMAIN result.outputs :
        /\ msg.tensors[i].name = result.outputs[j].name
        /\ AsNumpy(msg.tensors[i]) = result.outputs[j].elements

\* "This will be overridden by the individual output's binary_data attribute": the
\* client wants output i as binary data if that says so, or, where it says
\* nothing, if the whole request does.
WantsBinary(i) ==
  IF client.outputs # None /\ client.outputs[i].binary # None
  THEN client.outputs[i].binary ELSE client.binary

\* The code takes an output that is asked for and says nothing for one that is not
\* wanted as binary data, whatever the request says: there it does not keep to that.
LeavesNoneToRequest ==
  client.binary /\ client.outputs # None /\ \E i \in DOMAIN client.outputs : client.outputs[i].binary = None

\* A predictor that answers with get_predict_response over REST sends the
\* outputs the client asked for, in that order, and as binary data exactly
\* those the client wants so, even when transformers and gRPC hops are in
\* between; the last, unless a request for all outputs as binary data asks for
\* one that says nothing. Over gRPC it sends raw contents when it received some.
EncodedAsAsked ==
  pc = "replied" /\ node = Len(path) - 1 /\ result.helper =>
    LET asked == client.outputs
    IN IF Protocol = "rest"
       THEN /\ asked # None => [i \in DOMAIN msg.tensors |-> msg.tensors[i].name]
                                = [i \in DOMAIN asked |-> asked[i].name]
            /\ ~LeavesNoneToRequest =>
                 Len(msg.raws) = Cardinality({i \in DOMAIN msg.tensors : WantsBinary(i)})
       ELSE (\E i \in DOMAIN client.inputs : client.inputs[i].raw # None) /\ path = <<"grpc">>
              => Len(msg.raws) = Len(msg.tensors)

\* Sending converts the tensors of the client in place, but what it reads in
\* them stays the same however often it sends, over whichever protocol, and
\* wherever an attempt failed; only a string that is not UTF-8 can be lost.
SendingKeepsValues ==
  AllText(truth) => [i \in DOMAIN truth |-> AsNumpy(client.inputs[i])] = Elements

\* What the client gave is what is read, at the other end and in the next attempt,
\* and what the model returned is what the client reads.
ValuesArrive == InputsArrive /\ OutputsArrive /\ SendingKeepsValues

\* FP16 numbers travel as binary data only: no JSON text and no gRPC contents.
Fp16OnlyBinary ==
  pc \in {"sent", "replied"} =>
    \A i \in DOMAIN msg.tensors :
      msg.tensors[i].datatype = "FP16" => msg.tensors[i].data \in {None, <<>>}

\* Every message has the form its protocol and its receiver ask for.
MessagesInForm == OpenTypeOK /\ EncodedAsAsked /\ Fp16OnlyBinary

\* Numbers and UTF-8 strings, neither empty nor FP16, that a client gives all
\* in one of the library's forms, strings as binary data, are never refused: in
\* any attempt and on any path that does not take strings from JSON over gRPC to
\* JSON again, if the model answers through get_predict_response and has the
\* outputs asked for.
Ordinary(rs) ==
  /\ AllText(rs)
  /\ \A i \in DOMAIN rs : rs[i].elements # <<>> /\ rs[i].datatype # "FP16"
OneForm(rs) ==
  \E form \in {"list", "array", "binary"} :
    \A i \in DOMAIN rs : rs[i].form = form /\ (rs[i].datatype = "BYTES" => form = "binary")
ThereAndBack ==
  \E i, j, k \in DOMAIN path : i < j /\ j < k /\ path[i] = "rest" /\ path[j] = "grpc" /\ path[k] = "rest"
PlainIsServed ==
  /\ Ordinary(truth) /\ OneForm(truth)
  /\ ThereAndBack => \A i \in DOMAIN truth : truth[i].datatype # "BYTES"
  /\ result # None =>
       /\ result.helper /\ Ordinary(result.outputs)
       /\ client.outputs # None =>
            \A i \in DOMAIN client.outputs :
              \E j \in DOMAIN result.outputs : result.outputs[j].name = client.outputs[i].name
  => pc # "refused"
=============================================================================
