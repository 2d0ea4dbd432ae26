SPECIFICATION Spec
CONSTANTS
    Boards = {b1}
    Lists = {todo, done}
    Cards = {card1}
    Mutations = {there, edit, delete, add, drag, newList}
    Txs = {t1, t2}
    MaxAttempts <- MCMaxAttempts
    NoMutation = NoMutation
    NoCard = NoCard
    Unstated = Unstated
    b1 = b1  todo = todo  done = done  card1 = card1  t1 = t1  t2 = t2
    there = there  back = back  edit = edit  delete = delete
    add = add  newList = newList  drag = drag
    Kind <- MCKind
    CardOf <- MCCardOf
    Target <- MCTarget
    BoardOf <- MCBoardOf
    Home <- MCHome
    Expect <- MCExpect
CHECK_DEADLOCK FALSE
INVARIANTS AppliedOnce AnswersAgree LogIsHistory
PROPERTIES ImplementsSerial
