-------------------------- MODULE MCResponseStream --------------------------
(* Small instances of ResponseStream.                                       *)
EXTENDS ResponseStream

\* p, q: what each request is; from: what the GETs ask for; pings, and the rest that may happen
Conf(p, q, from, pings, options) ==
    LET of(field) == [r \in Requests |-> IF r = "p" THEN p[field] ELSE q[field]]
    IN  [asked |-> {r \in Requests : of("out")[r] # <<>>},
         conv |-> of("conv"), stream |-> of("stream"), out |-> of("out"),
         readers |-> IF "reader" \in options THEN Readers ELSE {},
         rconv |-> [g \in Readers |-> "c"], from |-> [g \in Readers |-> from], cap |-> 2,
         pings |-> pings, rejects |-> "rejects" \in options, errors |-> "errors" \in options,
         leaves |-> "leaves" \in options, deletes |-> "deletes" \in options,
         expires |-> "expires" \in options, stops |-> "stops" \in options]

Stream(lens) == [conv |-> "c", stream |-> TRUE,  out |-> lens]
Plain(lens)  == [conv |-> "none", stream |-> TRUE, out |-> lens]
Whole(lens)  == [conv |-> "c", stream |-> FALSE, out |-> lens]
Nobody      == Plain(<<>>)

\* one stream and a client that comes back, with all that may happen to it; a stream replaced by
\* another, read or failing; a request that is not streamed replaced by one that is; two generations
\* in one stream, and without a stream; the server is told to exit
StreamConfs ==
    {Conf(Stream(<<<<1, 3, 1>>>>), Nobody, 1, 1, {"reader", "leaves", "deletes", "expires"}),
     Conf(Stream(<<<<1>>>>), Stream(<<<<1>>>>), 0, 0, {"reader", "leaves"}),
     Conf(Stream(<<<<1>>>>), Stream(<<<<1>>>>), 0, 0, {"leaves", "rejects", "errors"}),
     Conf(Whole(<<<<1>>, <<1>>>>), Stream(<<<<1>>>>), 0, 0, {"reader"}),
     Conf(Stream(<<<<1>>, <<1, 2>>>>), Nobody, 0, 0, {"reader", "leaves", "errors", "deletes"}),
     Conf(Plain(<<<<1, 1>>, <<0, 1>>>>), Nobody, 0, 0, {"leaves", "errors"}),
     Conf(Stream(<<<<1, 1>>>>), Nobody, 0, 0, {"reader", "leaves", "stops"})}

\* a request of a conversation is given up while the next one streams
ReplaceConfs == {Conf(Stream(<<<<1, 1>>>>), Stream(<<<<1, 1>>>>), 0, 0, {"leaves"})}

=============================================================================
