SPECIFICATION Spec
CONSTANTS
    Requestable <- MCRequestable
    Writable <- MCWritable
    Workers = {w1, w2}
    Tokens = {t1, t2}
    NoToken = NoToken
SYMMETRY Symmetric
INVARIANTS
    SucceededIsPerformed
    AcceptedIsPerformed
